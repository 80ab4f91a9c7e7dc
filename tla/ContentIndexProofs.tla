-------------------------- MODULE ContentIndexProofs --------------------------
(***************************************************************************)
(* Theorems about what a Fabryk server answers from: the full-text index,  *)
(* the vector cache, the graph cache and the keys of its clients' tokens.  *)
(***************************************************************************)
EXTENDS MCContentIndexes, GraphDataProofs, FiniteSetTheorems, TLAPS

indexVars == <<contentVars, ftsVars>>

(* The steps of a builder, one name for each.                              *)
AnyRead(b) == \E n \in Names : ReadFile(b, n)
AnyFailure(b) == \E n \in Names : FileFails(b, n)
AnyStart(b) == \E d \in Dirs, forced \in BOOLEAN : StartBuilder(b, d, forced)

LEMMA FtsCases ==
    ASSUME FtsNext
    PROVE  \/ \E b \in Builders :
                 \/ AnyStart(b) \/ Skip(b) \/ OpenWriter(b) \/ Locked(b)
                 \/ FindFiles(b) \/ Rehash(b) \/ AnyRead(b) \/ AnyFailure(b)
                 \/ FinalCommit(b) \/ SaveMetadata(b) \/ SaveAppend(b) \/ Abandon(b)
           \/ ContentStep /\ UNCHANGED ftsVars
BY DEF FtsNext, FtsStep, BuilderStep, AnyRead, AnyFailure, AnyStart

-----------------------------------------------------------------------------
(* Types.                                                                  *)

LEMMA HashTyped ==
    ASSUME FtsTypeOK, NEW d \in Dirs
    PROVE  HashOf(d) \in Listing /\ Present(d) \subseteq Names
BY DEF FtsTypeOK, HashOf, Listing, Present

LEMMA IdleTyped == IdleJob \in Job /\ Empty \in [Doc -> Nat]
BY ContentAssumption DEF IdleJob, Job, Empty, Listing

LEMMA CommitTyped ==
    ASSUME FtsTypeOK, NEW S \in SUBSET Doc
    PROVE  Commit(S) \in [Doc -> Nat]
BY DEF FtsTypeOK, Commit

LEMMA DocTyped ==
    ASSUME FtsTypeOK, NEW b \in Builders, NEW n \in Readable(b)
    PROVE  /\ DocsOfFile(b, n) \subseteq Doc
           /\ Staging(b, n) \in SUBSET Doc
           /\ Cardinality(DocsOfFile(b, n)) \in Nat
           /\ n \in Names /\ n \in job[b].todo
           /\ content[job[b].dir][n] \in 1..MaxClock
           /\ DocOf(job[b].dir, n, content[job[b].dir]) \in Doc
<1>1. job[b] \in Job
  BY DEF FtsTypeOK
<1>2. job[b].dir \in Dirs /\ job[b].todo \subseteq Names /\ job[b].staged \subseteq Doc
  BY <1>1 DEF Job
<1>3. n \in job[b].todo /\ n \in Names /\ content[job[b].dir][n] # 0
  BY <1>2 DEF Readable, Present
<1>4. content[job[b].dir][n] \in 0..MaxClock
  BY <1>2, <1>3 DEF FtsTypeOK, Listing
<1>5. content[job[b].dir][n] \in 1..MaxClock
  BY <1>3, <1>4, ContentAssumption
<1>6. DocOf(job[b].dir, n, content[job[b].dir]) \in Doc
  BY <1>2, <1>3, <1>5 DEF Doc, DocOf
<1>7. DocsOfFile(b, n) \subseteq Doc
  BY <1>6 DEF DocsOfFile
<1>8. Cardinality(DocsOfFile(b, n)) \in Nat
  BY FS_EmptySet, FS_Singleton DEF DocsOfFile
<1> QED
  BY <1>2, <1>3, <1>5, <1>6, <1>7, <1>8 DEF Staging

(* What an edit or a removal does to the content.                          *)
LEMMA ContentTyped ==
    ASSUME content \in [Dirs -> Listing], clock \in 1..MaxClock, ContentStep
    PROVE  /\ content' \in [Dirs -> Listing] /\ clock' \in 1..MaxClock
           /\ clock <= clock'
           /\ \A d \in Dirs, n \in Names :
                 \/ content'[d][n] = content[d][n]
                 \/ content'[d][n] = 0
                 \/ content'[d][n] = clock' /\ clock' > clock
<1> USE ContentAssumption
<1>1. PICK d \in Dirs, n \in Names : Edit(d, n) \/ Remove(d, n)
  BY DEF ContentStep
<1> DEFINE Edited(v) == [content EXCEPT ![d] = [content[d] EXCEPT ![n] = v]]
<1>2. ASSUME NEW v \in 0..MaxClock
      PROVE  /\ Edited(v) \in [Dirs -> Listing]
             /\ \A e \in Dirs, k \in Names :
                   Edited(v)[e][k] = content[e][k] \/ Edited(v)[e][k] = v
  <2>1. content[d] \in [Names -> 0..MaxClock]
    BY DEF Listing
  <2>2. [content[d] EXCEPT ![n] = v] \in Listing
    BY <1>2, <2>1 DEF Listing
  <2>3. \A k \in Names : [content[d] EXCEPT ![n] = v][k] \in {content[d][k], v}
    BY <1>2, <2>1
  <2> QED
    BY <2>2, <2>3
<1>3. CASE Edit(d, n)
  <2>1. clock + 1 \in 1..MaxClock /\ clock + 1 \in 0..MaxClock /\ clock <= clock + 1
    BY <1>3 DEF Edit
  <2>2. content' = Edited(clock + 1) /\ clock' = clock + 1
    BY <1>3 DEF Edit
  <2>3. clock' > clock /\ clock <= clock' /\ clock' \in 1..MaxClock
    BY <2>1, <2>2
  <2>4. content' \in [Dirs -> Listing]
    BY <1>2, <2>1, <2>2
  <2>5. \A e \in Dirs, k \in Names :
           content'[e][k] = content[e][k] \/ content'[e][k] = clock'
    BY <1>2, <2>1, <2>2
  <2> HIDE DEF Edited
  <2> QED
    BY <2>3, <2>4, <2>5
<1>4. CASE Remove(d, n)
  <2>1. content' = Edited(0) /\ clock' = clock /\ 0 \in 0..MaxClock
    BY <1>4 DEF Remove
  <2>2. clock <= clock' /\ clock' \in 1..MaxClock
    BY <2>1
  <2>3. content' \in [Dirs -> Listing]
    BY <1>2, <2>1
  <2>4. \A e \in Dirs, k \in Names :
           content'[e][k] = content[e][k] \/ content'[e][k] = 0
    BY <1>2, <2>1
  <2> HIDE DEF Edited
  <2> QED
    BY <2>2, <2>3, <2>4
<1> QED
  BY <1>1, <1>3, <1>4

LEMMA FtsTypeStep == FtsTypeOK /\ [FtsNext]_indexVars => FtsTypeOK'
<1> SUFFICES ASSUME FtsTypeOK, [FtsNext]_indexVars PROVE FtsTypeOK'
  OBVIOUS
<1> USE ContentAssumption, FtsAssumption
<1>0. IdleJob \in Job /\ Empty \in [Doc -> Nat]
  BY IdleTyped
<1>1. ASSUME NEW b \in Builders, AnyStart(b) PROVE FtsTypeOK'
  <2> PICK d \in Dirs, forced \in BOOLEAN : StartBuilder(b, d, forced)
    BY <1>1 DEF AnyStart
  <2>1. HashOf(d) \in Listing
    BY HashTyped
  <2>2. [IdleJob EXCEPT !.pc = "check", !.dir = d, !.forced = forced,
                        !.hash = HashOf(d)] \in Job
    BY <2>1, <1>0 DEF Job
  <2> QED
    BY <2>2 DEF FtsTypeOK, StartBuilder, contentVars
<1>2. ASSUME NEW b \in Builders, Skip(b) \/ Locked(b) PROVE FtsTypeOK'
  BY <1>0, <1>2 DEF FtsTypeOK, Skip, Locked, contentVars
<1>3. ASSUME NEW b \in Builders, OpenWriter(b) PROVE FtsTypeOK'
  <2>1. job'[b] = [job[b] EXCEPT !.pc = "scan"] /\ job' \in [Builders -> Job]
    BY <1>3 DEF FtsTypeOK, OpenWriter, Job
  <2>2. index' \in [Doc -> Nat]
    BY <1>0, <1>3 DEF FtsTypeOK, OpenWriter
  <2>3. torn' \in BOOLEAN
    BY <1>3 DEF OpenWriter
  <2> QED
    BY <1>3, <2>1, <2>2, <2>3 DEF FtsTypeOK, OpenWriter, contentVars
<1>4. ASSUME NEW b \in Builders, FindFiles(b) PROVE FtsTypeOK'
  <2>1. job[b].dir \in Dirs
    BY DEF FtsTypeOK, Job
  <2>2. Present(job[b].dir) \subseteq Names
    BY <2>1, HashTyped
  <2>3. job' \in [Builders -> Job]
    BY <1>4, <2>2 DEF FtsTypeOK, FindFiles, Job
  <2> QED
    BY <1>4, <2>3 DEF FtsTypeOK, FindFiles, contentVars
<1>5. ASSUME NEW b \in Builders, Rehash(b) PROVE FtsTypeOK'
  <2>1. job[b].dir \in Dirs
    BY DEF FtsTypeOK, Job
  <2>2. HashOf(job[b].dir) \in Listing
    BY <2>1, HashTyped
  <2>3. job' \in [Builders -> Job]
    BY <1>5, <2>2 DEF FtsTypeOK, Rehash, Job
  <2> QED
    BY <1>5, <2>3 DEF FtsTypeOK, Rehash, contentVars
<1>6. ASSUME NEW b \in Builders, AnyRead(b) PROVE FtsTypeOK'
  <2> PICK n \in Names : ReadFile(b, n)
    BY <1>6 DEF AnyRead
  <2>1. n \in Readable(b)
    BY DEF ReadFile
  <2>2. Staging(b, n) \in SUBSET Doc /\ Cardinality(DocsOfFile(b, n)) \in Nat
    BY <2>1, DocTyped
  <2>3. Commit(Staging(b, n)) \in [Doc -> Nat]
    BY <2>2, CommitTyped
  <2>4. index' \in [Doc -> Nat]
    BY <2>3 DEF ReadFile, FtsTypeOK
  <2>5. job[b] \in Job /\ job[b].count + Cardinality(DocsOfFile(b, n)) \in Nat
    BY <2>2 DEF FtsTypeOK, Job
  <2>6. job' \in [Builders -> Job]
    BY <2>2, <2>5 DEF FtsTypeOK, ReadFile, Job
  <2> QED
    BY <2>4, <2>6 DEF FtsTypeOK, ReadFile, contentVars
<1>7. ASSUME NEW b \in Builders, AnyFailure(b) PROVE FtsTypeOK'
  <2> PICK n \in Names : FileFails(b, n)
    BY <1>7 DEF AnyFailure
  <2>1. job[b] \in Job /\ job[b].todo \ {n} \subseteq Names
    BY DEF FtsTypeOK, Job
  <2>2. [job[b] EXCEPT !.todo = job[b].todo \ {n}, !.errors = TRUE] \in Job
    BY <2>1 DEF Job
  <2>3. job' = [job EXCEPT ![b] = [job[b] EXCEPT !.todo = job[b].todo \ {n},
                                                 !.errors = TRUE]]
    BY DEF FileFails, FtsTypeOK
  <2>4. job' \in [Builders -> Job]
    BY <2>2, <2>3 DEF FtsTypeOK
  <2> QED
    BY <2>4 DEF FtsTypeOK, FileFails, contentVars
<1>8. ASSUME NEW b \in Builders, FinalCommit(b) PROVE FtsTypeOK'
  <2>1. job[b].staged \in SUBSET Doc
    BY DEF FtsTypeOK, Job
  <2>2. index' \in [Doc -> Nat]
    BY <1>8, <2>1, CommitTyped DEF FinalCommit
  <2>3. job' \in [Builders -> Job]
    BY <1>8 DEF FtsTypeOK, FinalCommit, Job
  <2> QED
    BY <1>8, <2>2, <2>3 DEF FtsTypeOK, FinalCommit, contentVars
<1>9. ASSUME NEW b \in Builders, SaveMetadata(b) PROVE FtsTypeOK'
  <2>1. job[b] \in Job
    BY DEF FtsTypeOK
  <2>2. job[b].hash \in Listing /\ job[b].count \in Nat /\ job[b].errors \in BOOLEAN
    BY <2>1 DEF Job
  <2>3. \A m \in meta' : m.hash \in Listing /\ m.count \in Nat
    BY <1>9, <2>2 DEF SaveMetadata, StoredHash
  <2> QED
    BY <1>0, <1>9, <2>2, <2>3 DEF FtsTypeOK, SaveMetadata, contentVars
<1>10. ASSUME NEW b \in Builders, SaveAppend(b) PROVE FtsTypeOK'
  <2>1. job[b].hash \in Listing
    BY DEF FtsTypeOK, Job
  <2>2. appends' \in [Dirs \ {Base} -> SUBSET Listing]
    BY <1>10, <2>1 DEF FtsTypeOK, SaveAppend
  <2> QED
    BY <1>0, <1>10, <2>2 DEF FtsTypeOK, SaveAppend, contentVars
<1>11. ASSUME NEW b \in Builders, Abandon(b) PROVE FtsTypeOK'
  <2>1. meta' \subseteq meta
    BY <1>11 DEF Abandon
  <2>2. appends' \in [Dirs \ {Base} -> SUBSET Listing]
    BY <1>11 DEF FtsTypeOK, Abandon
  <2> QED
    BY <1>0, <1>11, <2>1, <2>2 DEF FtsTypeOK, Abandon, contentVars
<1>12. CASE ContentStep /\ UNCHANGED ftsVars
  <2>1. content' \in [Dirs -> Listing] /\ clock' \in 1..MaxClock
    BY <1>12, ContentTyped DEF FtsTypeOK
  <2> QED
    BY <1>12, <2>1 DEF FtsTypeOK, ftsVars
<1>13. CASE UNCHANGED indexVars
  BY <1>13 DEF FtsTypeOK, indexVars, contentVars, ftsVars
<1> QED
  BY <1>1, <1>2, <1>3, <1>4, <1>5, <1>6, <1>7, <1>8, <1>9, <1>10, <1>11, <1>12,
     <1>13, FtsCases

LEMMA FtsTypeStarts == ContentInit /\ FtsInit => FtsTypeOK
<1> SUFFICES ASSUME ContentInit, FtsInit PROVE FtsTypeOK
  OBVIOUS
<1> USE ContentAssumption, FtsAssumption
<1>1. content \in [Dirs -> Listing] /\ clock \in 1..MaxClock
  <2>1. {0, 1} \subseteq 0..MaxClock
    OBVIOUS
  <2>2. content \in [Dirs -> [Names -> {0, 1}]]
    BY DEF ContentInit
  <2>3. [Names -> {0, 1}] \subseteq [Names -> 0..MaxClock]
    BY <2>1
  <2>4. content \in [Dirs -> Listing]
    BY <2>2, <2>3 DEF Listing
  <2> QED
    BY <2>4 DEF ContentInit
<1>2. job \in [Builders -> Job] /\ index \in [Doc -> Nat]
  BY IdleTyped DEF FtsInit
<1>3. appends \in [Dirs \ {Base} -> SUBSET Listing]
  BY DEF FtsInit
<1>4. starts \in 0..MaxStarts
  BY DEF FtsInit
<1>5. meta = {} /\ lock \subseteq Builders /\ torn \in BOOLEAN
  BY DEF FtsInit
<1> QED
  BY <1>1, <1>2, <1>3, <1>4, <1>5 DEF FtsTypeOK

(* Every variable of the full-text builders has its type.                  *)
THEOREM FtsTypeCorrect == FtsSpec => []FtsTypeOK
BY FtsTypeStarts, FtsTypeStep, PTL DEF FtsSpec, indexVars

-----------------------------------------------------------------------------
(* The builder that has the lock is alone with the index.                  *)

Working(b) == job[b].pc \in {"scan", "rehash", "read", "save"}
Building(b) == Working(b) /\ IsBuild(b)

LockInv ==
    \A b \in Builders :
       /\ Working(b) => lock = {b}
       /\ \A d \in job[b].staged : d.dir = job[b].dir
       /\ job[b].pc # "read" => job[b].staged = {}
       /\ job[b].pc \in {"idle", "check", "scan"} =>
             job[b].count = 0 /\ job[b].errors = FALSE /\ job[b].todo = {}
       /\ job[b].pc = "rehash" => ~IsBuild(b)
       /\ job[b].pc = "save" => job[b].todo = {}

(* What a step of b does to the jobs.                                      *)
LEMMA OneJob ==
    ASSUME FtsTypeOK, NEW b \in Builders, NEW j \in Job, job' = [job EXCEPT ![b] = j]
    PROVE  job'[b] = j /\ \A c \in Builders \ {b} : job'[c] = job[c]
BY DEF FtsTypeOK

LEMMA LockStep == FtsTypeOK /\ LockInv /\ [FtsNext]_indexVars => LockInv'
<1> SUFFICES ASSUME FtsTypeOK, LockInv, [FtsNext]_indexVars PROVE LockInv'
  OBVIOUS
<1> DEFINE Good(c) ==
       /\ Working(c) => lock = {c}
       /\ \A d \in job[c].staged : d.dir = job[c].dir
       /\ job[c].pc # "read" => job[c].staged = {}
       /\ job[c].pc \in {"idle", "check", "scan"} =>
             job[c].count = 0 /\ job[c].errors = FALSE /\ job[c].todo = {}
       /\ job[c].pc = "rehash" => ~IsBuild(c)
       /\ job[c].pc = "save" => job[c].todo = {}
<1>g. \A c \in Builders : Good(c)
  BY DEF LockInv
<1>o. ASSUME NEW b \in Builders, Good(b)',
             \A c \in Builders \ {b} : job'[c] = job[c],
             \A c \in Builders \ {b} : Working(c) => lock' = lock
      PROVE  LockInv'
  <2>1. \A c \in Builders \ {b} : Good(c)'
    BY <1>g, <1>o DEF Working, IsBuild
  <2> QED
    BY <1>o, <2>1 DEF LockInv
<1>i. ASSUME NEW b \in Builders, job' = [job EXCEPT ![b] = IdleJob],
             \A c \in Builders \ {b} : Working(c) => lock' = lock
      PROVE  LockInv'
  <2>1. job'[b] = IdleJob /\ \A c \in Builders \ {b} : job'[c] = job[c]
    BY <1>i, IdleTyped, OneJob
  <2>2. Good(b)'
    BY <2>1 DEF IdleJob, Working, IsBuild
  <2> QED
    BY <1>o, <1>i, <2>1, <2>2
<1>l. \A b, c \in Builders : Working(b) /\ Working(c) => b = c
  BY DEF LockInv
<1>1. ASSUME NEW b \in Builders, AnyStart(b) PROVE LockInv'
  <2> PICK d \in Dirs, forced \in BOOLEAN : StartBuilder(b, d, forced)
    BY <1>1 DEF AnyStart
  <2> DEFINE j == [IdleJob EXCEPT !.pc = "check", !.dir = d, !.forced = forced,
                                  !.hash = HashOf(d)]
  <2>1. job'[b] = j /\ lock' = lock /\ \A c \in Builders \ {b} : job'[c] = job[c]
    BY DEF StartBuilder, FtsTypeOK
  <2>2. Good(b)'
    BY <2>1 DEF IdleJob, Working, IsBuild
  <2> QED
    BY <1>o, <2>1, <2>2
<1>2. ASSUME NEW b \in Builders, Skip(b) \/ Locked(b) PROVE LockInv'
  BY <1>2, <1>i DEF Skip, Locked
<1>3. ASSUME NEW b \in Builders, OpenWriter(b) PROVE LockInv'
  <2>1. job'[b] = [job[b] EXCEPT !.pc = "scan"]
        /\ \A c \in Builders \ {b} : job'[c] = job[c]
    BY <1>3 DEF OpenWriter, FtsTypeOK
  <2>2. lock' = {b} /\ \A c \in Builders : ~Working(c)
    BY <1>3 DEF OpenWriter, LockInv
  <2>3. job[b].pc = "check" /\ job[b] \in Job
    BY <1>3 DEF OpenWriter, FtsTypeOK
  <2>4. job'[b].pc = "scan" /\ job'[b].staged = job[b].staged
        /\ job'[b].count = job[b].count /\ job'[b].errors = job[b].errors
        /\ job'[b].todo = job[b].todo
    BY <2>1, <2>3 DEF Job
  <2>5. Good(b)'
    BY <1>g, <2>2, <2>3, <2>4 DEF Working, IsBuild
  <2> QED
    BY <1>o, <2>1, <2>2, <2>5
<1>4. ASSUME NEW b \in Builders, FindFiles(b) PROVE LockInv'
  <2>1. job[b].pc = "scan" /\ job[b] \in Job
    BY <1>4 DEF FindFiles, FtsTypeOK
  <2>2. /\ job'[b].pc = (IF IsBuild(b) THEN "read" ELSE "rehash")
        /\ job'[b].staged = job[b].staged /\ job'[b].dir = job[b].dir
    BY <1>4, <2>1 DEF FindFiles, FtsTypeOK, Job
  <2>3. lock' = lock /\ \A c \in Builders \ {b} : job'[c] = job[c]
    BY <1>4 DEF FindFiles, FtsTypeOK
  <2>4. Good(b)'
    BY <1>g, <2>1, <2>2, <2>3 DEF Working, IsBuild
  <2> QED
    BY <1>o, <2>3, <2>4
<1>5. ASSUME NEW b \in Builders, Rehash(b) PROVE LockInv'
  <2>1. job[b].pc = "rehash" /\ job[b] \in Job
    BY <1>5 DEF Rehash, FtsTypeOK
  <2>2. /\ job'[b].pc = "read"
        /\ job'[b].staged = job[b].staged /\ job'[b].dir = job[b].dir
    BY <1>5, <2>1 DEF Rehash, FtsTypeOK, Job
  <2>3. lock' = lock /\ \A c \in Builders \ {b} : job'[c] = job[c]
    BY <1>5 DEF Rehash, FtsTypeOK
  <2>4. Good(b)'
    BY <1>g, <2>1, <2>2, <2>3 DEF Working, IsBuild
  <2> QED
    BY <1>o, <2>3, <2>4
<1>6. ASSUME NEW b \in Builders, AnyRead(b) PROVE LockInv'
  <2> PICK n \in Names : ReadFile(b, n)
    BY <1>6 DEF AnyRead
  <2>1. job[b].pc = "read" /\ job[b] \in Job
    BY DEF ReadFile, FtsTypeOK
  <2>2. /\ job'[b].pc = "read" /\ job'[b].dir = job[b].dir
        /\ job'[b].staged \in {{}, Staging(b, n)}
    BY <2>1 DEF ReadFile, FtsTypeOK, Job
  <2>3. lock' = lock /\ \A c \in Builders \ {b} : job'[c] = job[c]
    BY DEF ReadFile, FtsTypeOK
  <2>4. \A d \in Staging(b, n) : d.dir = job[b].dir
    BY <1>g DEF Staging, DocsOfFile, DocOf
  <2>5. Good(b)'
    BY <1>g, <2>1, <2>2, <2>3, <2>4 DEF Working, IsBuild
  <2> QED
    BY <1>o, <2>3, <2>5
<1>7. ASSUME NEW b \in Builders, AnyFailure(b) PROVE LockInv'
  <2> PICK n \in Names : FileFails(b, n)
    BY <1>7 DEF AnyFailure
  <2>1. job[b].pc = "read" /\ job[b] \in Job
    BY DEF FileFails, FtsTypeOK
  <2>2. /\ job'[b].pc = "read" /\ job'[b].dir = job[b].dir
        /\ job'[b].staged = job[b].staged
    BY <2>1 DEF FileFails, FtsTypeOK, Job
  <2>3. lock' = lock /\ \A c \in Builders \ {b} : job'[c] = job[c]
    BY DEF FileFails, FtsTypeOK
  <2>4. Good(b)'
    BY <1>g, <2>1, <2>2, <2>3 DEF Working, IsBuild
  <2> QED
    BY <1>o, <2>3, <2>4
<1>8. ASSUME NEW b \in Builders, FinalCommit(b) PROVE LockInv'
  <2>1. job[b].pc = "read" /\ job[b].todo = {} /\ job[b] \in Job
    BY <1>8 DEF FinalCommit, FtsTypeOK
  <2>2. /\ job'[b].pc = "save" /\ job'[b].todo = {} /\ job'[b].staged = {}
    BY <1>8, <2>1 DEF FinalCommit, FtsTypeOK, Job
  <2>3. lock' = lock /\ \A c \in Builders \ {b} : job'[c] = job[c]
    BY <1>8 DEF FinalCommit, FtsTypeOK
  <2>4. Good(b)'
    BY <1>g, <2>1, <2>2, <2>3 DEF Working
  <2> QED
    BY <1>o, <2>3, <2>4
<1>9. ASSUME NEW b \in Builders, SaveMetadata(b) \/ SaveAppend(b) PROVE LockInv'
  <2>1. Working(b)
    BY <1>9 DEF SaveMetadata, SaveAppend, Working
  <2> QED
    BY <1>9, <2>1, <1>i, <1>l DEF SaveMetadata, SaveAppend
<1>10. ASSUME NEW b \in Builders, Abandon(b) PROVE LockInv'
  <2>1. \A c \in Builders \ {b} : Working(c) => lock \ {b} = lock
    BY DEF LockInv
  <2> QED
    BY <1>10, <2>1, <1>i DEF Abandon
<1>11. CASE UNCHANGED ftsVars
  BY <1>11 DEF LockInv, ftsVars, Working, IsBuild
<1> QED
  BY <1>1, <1>2, <1>3, <1>4, <1>5, <1>6, <1>7, <1>8, <1>9, <1>10, <1>11, FtsCases
     DEF indexVars

-----------------------------------------------------------------------------
(* No hash is of the future.                                               *)

HashInv ==
    /\ \A d \in Dirs, n \in Names : content[d][n] <= clock
    /\ \A b \in Builders, n \in Names : job[b].hash[n] <= clock
    /\ \A m \in meta, n \in Names : m.hash[n] <= clock

LEMMA HashStep == FtsTypeOK /\ HashInv /\ [FtsNext]_indexVars => HashInv'
<1> SUFFICES ASSUME FtsTypeOK, HashInv, [FtsNext]_indexVars PROVE HashInv'
  OBVIOUS
<1> USE ContentAssumption
<1>z. clock \in Nat
  BY DEF FtsTypeOK
<1>o. ASSUME NEW b \in Builders, NEW j \in Job, job' = [job EXCEPT ![b] = j],
             \A n \in Names : j.hash[n] <= clock,
             \A m \in meta', n \in Names : m.hash[n] <= clock,
             UNCHANGED contentVars
      PROVE  HashInv'
  BY <1>o, OneJob DEF HashInv, contentVars
<1>h. \A b \in Builders : job[b] \in Job /\ job[b].dir \in Dirs
  BY DEF FtsTypeOK, Job
<1>i. IdleJob \in Job /\ \A n \in Names : IdleJob.hash[n] <= clock
  BY <1>z, IdleTyped DEF IdleJob
<1>1. ASSUME NEW b \in Builders, AnyStart(b) PROVE HashInv'
  <2> PICK d \in Dirs, forced \in BOOLEAN : StartBuilder(b, d, forced)
    BY <1>1 DEF AnyStart
  <2> DEFINE j == [IdleJob EXCEPT !.pc = "check", !.dir = d, !.forced = forced,
                                  !.hash = HashOf(d)]
  <2>1. j \in Job /\ j.hash = HashOf(d)
    BY <1>i, HashTyped DEF Job
  <2>2. \A n \in Names : j.hash[n] <= clock
    BY <2>1 DEF HashInv, HashOf
  <2>3. job' = [job EXCEPT ![b] = j] /\ meta' = meta /\ UNCHANGED contentVars
    BY DEF StartBuilder
  <2> HIDE DEF j
  <2> QED
    BY <1>o, <2>1, <2>2, <2>3 DEF HashInv
<1>2. ASSUME NEW b \in Builders, Skip(b) \/ Locked(b) \/ SaveAppend(b)
      PROVE  HashInv'
  BY <1>2, <1>o, <1>i DEF Skip, Locked, SaveAppend, HashInv
<1>3. ASSUME NEW b \in Builders, Abandon(b) PROVE HashInv'
  <2>1. meta' \subseteq meta
    BY <1>3 DEF Abandon
  <2> QED
    BY <1>3, <1>o, <1>i, <2>1 DEF Abandon, HashInv
<1>4. ASSUME NEW b \in Builders, SaveMetadata(b) PROVE HashInv'
  <2>1. \A m \in meta', n \in Names : m.hash[n] <= clock
    BY <1>4 DEF SaveMetadata, StoredHash, HashInv
  <2> QED
    BY <1>4, <1>o, <1>i, <2>1 DEF SaveMetadata
<1>k. ASSUME NEW b \in Builders, job'[b].hash = job[b].hash,
             \A c \in Builders \ {b} : job'[c] = job[c],
             meta' = meta, UNCHANGED contentVars
      PROVE  HashInv'
  BY <1>k DEF HashInv, contentVars
<1>5. ASSUME NEW b \in Builders,
             OpenWriter(b) \/ FindFiles(b) \/ FinalCommit(b)
      PROVE  HashInv'
  <2>1. job'[b].hash = job[b].hash /\ \A c \in Builders \ {b} : job'[c] = job[c]
    <3>1. CASE OpenWriter(b)
      BY <1>h, <3>1 DEF OpenWriter, FtsTypeOK, Job
    <3>2. CASE FindFiles(b)
      BY <1>h, <3>2 DEF FindFiles, FtsTypeOK, Job
    <3>3. CASE FinalCommit(b)
      BY <1>h, <3>3 DEF FinalCommit, FtsTypeOK, Job
    <3> QED
      BY <1>5, <3>1, <3>2, <3>3
  <2>2. meta' = meta /\ UNCHANGED contentVars
    BY <1>5 DEF OpenWriter, FindFiles, FinalCommit
  <2> QED
    BY <1>k, <2>1, <2>2
<1>6. ASSUME NEW b \in Builders, NEW n \in Names, ReadFile(b, n) \/ FileFails(b, n)
      PROVE  HashInv'
  <2>1. job'[b].hash = job[b].hash /\ \A c \in Builders \ {b} : job'[c] = job[c]
    <3>1. CASE ReadFile(b, n)
      BY <1>h, <3>1 DEF ReadFile, FtsTypeOK, Job
    <3>2. CASE FileFails(b, n)
      BY <1>h, <3>2 DEF FileFails, FtsTypeOK, Job
    <3> QED
      BY <1>6, <3>1, <3>2
  <2>2. meta' = meta /\ UNCHANGED contentVars
    BY <1>6 DEF ReadFile, FileFails
  <2> QED
    BY <1>k, <2>1, <2>2
<1>7. ASSUME NEW b \in Builders, Rehash(b) PROVE HashInv'
  <2>1. job'[b].hash = HashOf(job[b].dir)
        /\ \A c \in Builders \ {b} : job'[c] = job[c]
    BY <1>7, <1>h DEF Rehash, FtsTypeOK, Job
  <2>2. \A n \in Names : job'[b].hash[n] <= clock
    BY <1>h, <2>1 DEF HashInv, HashOf
  <2> QED
    BY <1>7, <2>1, <2>2 DEF Rehash, HashInv, contentVars
<1>8. CASE ContentStep /\ UNCHANGED ftsVars
  <2>1. /\ clock <= clock' /\ clock' \in Nat
        /\ \A d \in Dirs, n \in Names :
              \/ content'[d][n] = content[d][n]
              \/ content'[d][n] = 0
              \/ content'[d][n] = clock'
    BY <1>8, ContentTyped DEF FtsTypeOK
  <2>2. \A d \in Dirs, n \in Names : content[d][n] \in Nat
    BY DEF FtsTypeOK, Listing
  <2>3. \A d \in Dirs, n \in Names : content'[d][n] <= clock'
    BY <1>z, <2>1, <2>2 DEF HashInv
  <2>4. \A b \in Builders, n \in Names : job[b].hash[n] \in Nat
    BY DEF FtsTypeOK, Job, Listing
  <2>5. \A m \in meta, n \in Names : m.hash[n] \in Nat
    BY DEF FtsTypeOK, Listing
  <2>6. \A b \in Builders, n \in Names : job[b].hash[n] <= clock'
    BY <1>z, <2>1, <2>4 DEF HashInv
  <2>7. \A m \in meta, n \in Names : m.hash[n] <= clock'
    BY <1>z, <2>1, <2>5 DEF HashInv
  <2> QED
    BY <1>8, <2>3, <2>6, <2>7 DEF HashInv, ftsVars
<1>9. CASE UNCHANGED indexVars
  BY <1>9 DEF HashInv, indexVars, contentVars, ftsVars
<1> QED
  BY <1>1, <1>2, <1>3, <1>4, <1>5, <1>6, <1>7, <1>8, <1>9, FtsCases
     DEF AnyRead, AnyFailure

-----------------------------------------------------------------------------
(* What a build has done so far is what it has committed and staged.       *)

BaseDocs == {d \in Doc : d.dir = Base /\ index[d] # 0}
Held(b) == BaseDocs \cup job[b].staged

(* A hash h is of file n of the base directory as it is now.               *)
Current(h, n) ==
    h[n] # 0 /\ content[Base][n] = h[n] /\ <<Base, n>> \in Extractable

BuildInv(b) ==
    Building(b) =>
       /\ torn
       /\ job[b].pc = "scan" => BaseDocs = {}
       /\ \A d \in Held(b) : d.name \notin job[b].todo
       /\ \A d, e \in Held(b) : d.name = e.name => d = e
       /\ \A d \in job[b].staged : index[d] = 0
       /\ IsFiniteSet(Held(b)) /\ job[b].count = Cardinality(Held(b))
       /\ \A n \in Names :
             Current(job[b].hash, n) /\ job[b].pc # "scan" /\ ~job[b].errors =>
                n \in job[b].todo \/ DocOf(Base, n, job[b].hash) \in Held(b)

DoneInv ==
    /\ \A d \in Doc : d.dir = Base => index[d] <= 1
    /\ \A d, e \in BaseDocs : d.name = e.name => d = e
    /\ \A m \in meta : ~torn =>
          /\ m.count = Cardinality(BaseDocs)
          /\ \A n \in Names : Current(m.hash, n) => DocOf(Base, n, m.hash) \in BaseDocs

IndexInv == DoneInv /\ \A b \in Builders : BuildInv(b)

(* A step that leaves the documents of the base directory alone, and every *)
(* build that goes on.                                                     *)
LEMMA Undisturbed ==
    ASSUME IndexInv,
           \A d \in Doc : d.dir = Base => index'[d] = index[d],
           meta' \subseteq meta, torn' = torn,
           \A c \in Builders : job'[c] = job[c] \/ ~Building(c)',
           \A c \in Builders : \A d \in job[c].staged :
              job'[c] = job[c] /\ Building(c)' => d \in Doc /\ d.dir = Base,
           content' = content
    PROVE  IndexInv'
<1>1. BaseDocs' = BaseDocs
  BY DEF BaseDocs
<1>2. \A h, n : Current(h, n)' <=> Current(h, n)
  BY DEF Current
<1>3. DoneInv'
  BY <1>1, <1>2 DEF IndexInv, DoneInv
<1>4. ASSUME NEW c \in Builders PROVE BuildInv(c)'
  <2>1. CASE ~Building(c)'
    BY <2>1 DEF BuildInv
  <2>2. CASE Building(c)' /\ job'[c] = job[c]
    <3>1. Building(c) /\ Held(c)' = Held(c)
      BY <2>2, <1>1 DEF Building, Working, IsBuild, Held
    <3>2. BuildInv(c)
      BY DEF IndexInv
    <3>3. \A d \in job'[c].staged : index'[d] = 0
      BY <2>2, <3>1, <3>2 DEF BuildInv
    <3> QED
      BY <2>2, <3>1, <3>2, <3>3, <1>1, <1>2 DEF BuildInv
  <2> QED
    BY <2>1, <2>2
<1> QED
  BY <1>3, <1>4 DEF IndexInv

(* A step of the one build there is: the others need no look.              *)
LEMMA OneBuild ==
    ASSUME NEW b \in Builders, \A c \in Builders \ {b} : ~Building(c)',
           DoneInv', BuildInv(b)'
    PROVE  IndexInv'
BY DEF IndexInv, BuildInv

LEMMA BuildIsAlone ==
    ASSUME LockInv, NEW b \in Builders, Building(b) \/ (lock = {} /\ ~Building(b)),
           \A c \in Builders \ {b} : job'[c] = job[c]
    PROVE  \A c \in Builders \ {b} : ~Building(c)'
BY DEF LockInv, Building, Working, IsBuild

(* After any step of a build that keeps or extends what it holds.          *)
LEMMA DoneFromHeld ==
    ASSUME FtsTypeOK', NEW b \in Builders, torn',
           \A d \in Doc : d.dir = Base => index'[d] <= 1,
           \A d, e \in Held(b)' : d.name = e.name => d = e
    PROVE  DoneInv'
BY DEF DoneInv, Held

LEMMA OpenStep ==
    ASSUME FtsTypeOK, LockInv, IndexInv, FtsTypeOK', NEW b \in Builders,
           OpenWriter(b)
    PROVE  IndexInv'
<1>1. job[b] \in Job /\ job[b].pc = "check"
  BY DEF FtsTypeOK, OpenWriter
<1>2. /\ job'[b].pc = "scan" /\ job'[b].dir = job[b].dir
      /\ job'[b].staged = {} /\ job'[b].todo = {} /\ job'[b].count = 0
  BY <1>1 DEF OpenWriter, FtsTypeOK, LockInv, Job
<1>3. \A c \in Builders \ {b} : job'[c] = job[c]
  BY DEF OpenWriter, FtsTypeOK
<1>4. CASE IsBuild(b)
  <2>1. index' = Empty /\ torn'
    BY <1>4 DEF OpenWriter
  <2>2. BaseDocs' = {}
    BY <2>1 DEF BaseDocs, Empty
  <2>3. Held(b)' = {}
    BY <1>2, <2>2 DEF Held
  <2>4. \A d \in Doc : index'[d] <= 1
    BY <2>1 DEF Empty
  <2>5. DoneInv'
    BY <2>1, <2>3, <2>4, DoneFromHeld
  <2>6. BuildInv(b)'
    BY <1>2, <2>1, <2>2, <2>3, FS_EmptySet DEF BuildInv
  <2>7. lock = {} /\ ~Building(b)
    BY <1>1 DEF OpenWriter, Building, Working
  <2> QED
    BY <1>3, <2>5, <2>6, <2>7, BuildIsAlone, OneBuild
<1>5. CASE ~IsBuild(b)
  <2>1. index' = index /\ meta' = meta /\ torn' = torn /\ content' = content
    BY <1>5 DEF OpenWriter, FtsTypeOK, contentVars
  <2>2. ~Building(b)'
    BY <1>2, <1>5 DEF Building, IsBuild
  <2>3. \A c \in Builders \ {b} : ~Building(c)'
    BY <1>1, <1>3, BuildIsAlone DEF OpenWriter, Building, Working
  <2>4. \A c \in Builders : ~Building(c)'
    BY <2>2, <2>3
  <2> QED
    BY <2>1, <2>4, Undisturbed
<1> QED
  BY <1>4, <1>5

LEMMA FindStep ==
    ASSUME FtsTypeOK, LockInv, IndexInv, FtsTypeOK', NEW b \in Builders,
           Building(b), FindFiles(b)
    PROVE  IndexInv'
<1>1. job[b] \in Job /\ job[b].pc = "scan" /\ job[b].staged = {} /\ job[b].dir = Base
  BY DEF FtsTypeOK, FindFiles, LockInv, Building, IsBuild
<1>2. /\ job'[b].pc = "read" /\ job'[b].dir = Base /\ job'[b].hash = job[b].hash
      /\ job'[b].staged = {} /\ job'[b].todo = Present(Base)
      /\ job'[b].count = job[b].count /\ job'[b].errors = job[b].errors
  BY <1>1 DEF FindFiles, FtsTypeOK, IsBuild, Job
<1>3. \A c \in Builders \ {b} : job'[c] = job[c]
  BY DEF FindFiles, FtsTypeOK
<1>4. BuildInv(b) /\ DoneInv
  BY DEF IndexInv
<1>5. index' = index /\ torn' = torn /\ content' = content /\ meta' = meta
  BY DEF FindFiles, contentVars
<1>6. BaseDocs' = {} /\ Held(b) = {} /\ Held(b)' = {}
  BY <1>1, <1>2, <1>4, <1>5 DEF BuildInv, BaseDocs, Held
<1>7. BuildInv(b)'
  <2>1. \A n \in Names : Current(job[b].hash, n)' => n \in Present(Base)
    BY <1>5 DEF Current, Present
  <2> QED
    BY <1>2, <1>4, <1>5, <1>6, <2>1 DEF BuildInv
<1>8. DoneInv'
  BY <1>4, <1>5, <1>6, DoneFromHeld DEF BuildInv, DoneInv
<1> QED
  BY <1>3, <1>7, <1>8, BuildIsAlone, OneBuild

LEMMA FailStep ==
    ASSUME FtsTypeOK, LockInv, IndexInv, FtsTypeOK', NEW b \in Builders,
           Building(b), NEW n \in Names, FileFails(b, n)
    PROVE  IndexInv'
<1>1. job[b] \in Job /\ job[b].pc = "read"
  BY DEF FtsTypeOK, FileFails
<1>2. /\ job'[b].pc = "read" /\ job'[b].staged = job[b].staged
      /\ job'[b].todo = job[b].todo \ {n}
      /\ job'[b].count = job[b].count /\ job'[b].errors = TRUE
  BY <1>1 DEF FileFails, FtsTypeOK, Job
<1>3. \A c \in Builders \ {b} : job'[c] = job[c]
  BY DEF FileFails, FtsTypeOK
<1>4. BuildInv(b) /\ DoneInv
  BY DEF IndexInv
<1>5. index' = index /\ torn' = torn /\ meta' = meta
  BY DEF FileFails
<1>6. BaseDocs' = BaseDocs /\ Held(b)' = Held(b)
  BY <1>2, <1>5 DEF BaseDocs, Held
<1>7. BuildInv(b)'
  BY <1>2, <1>4, <1>5, <1>6 DEF BuildInv
<1>8. DoneInv'
  BY <1>4, <1>5, <1>6, DoneFromHeld DEF BuildInv, DoneInv
<1> QED
  BY <1>3, <1>7, <1>8, BuildIsAlone, OneBuild

(* A commit of what a build has staged.                                    *)
LEMMA CommitHeld ==
    ASSUME FtsTypeOK, DoneInv, NEW S \in SUBSET Doc, index' = Commit(S),
           \A d \in S : d.dir = Base /\ index[d] = 0
    PROVE  /\ BaseDocs' = BaseDocs \cup S
           /\ \A d \in Doc : d.dir = Base => index'[d] <= 1
<1>1. \A d \in Doc : index[d] \in Nat
  BY DEF FtsTypeOK
<1>2. \A d \in Doc : index'[d] = (IF d \in S THEN index[d] + 1 ELSE index[d])
  BY DEF Commit
<1>3. \A d \in Doc : index'[d] # 0 <=> index[d] # 0 \/ d \in S
  BY <1>1, <1>2
<1>4. BaseDocs' = BaseDocs \cup S
  BY <1>3 DEF BaseDocs
<1>5. \A d \in Doc : d.dir = Base => index'[d] <= 1
  BY <1>1, <1>2 DEF DoneInv
<1> QED
  BY <1>4, <1>5

LEMMA FinalStep ==
    ASSUME FtsTypeOK, LockInv, IndexInv, FtsTypeOK', NEW b \in Builders,
           Building(b), FinalCommit(b)
    PROVE  IndexInv'
<1>1. job[b] \in Job /\ job[b].pc = "read" /\ job[b].todo = {} /\ job[b].dir = Base
  BY DEF FtsTypeOK, FinalCommit, Building, IsBuild
<1>2. /\ job'[b].pc = "save" /\ job'[b].staged = {} /\ job'[b].todo = {}
      /\ job'[b].hash = job[b].hash
      /\ job'[b].count = job[b].count /\ job'[b].errors = job[b].errors
  BY <1>1 DEF FinalCommit, FtsTypeOK, Job
<1>3. \A c \in Builders \ {b} : job'[c] = job[c]
  BY DEF FinalCommit, FtsTypeOK
<1>4. BuildInv(b) /\ DoneInv
  BY DEF IndexInv
<1>5. torn' = torn /\ content' = content
  BY DEF FinalCommit, contentVars
<1>6. job[b].staged \in SUBSET Doc /\ \A d \in job[b].staged : d.dir = Base /\ index[d] = 0
  BY <1>1, <1>4 DEF BuildInv, LockInv, Job
<1>7. BaseDocs' = Held(b) /\ \A d \in Doc : d.dir = Base => index'[d] <= 1
  BY <1>4, <1>6, CommitHeld DEF FinalCommit, Held
<1>8. Held(b)' = Held(b)
  BY <1>2, <1>7 DEF Held
<1>9. BuildInv(b)'
  BY <1>1, <1>2, <1>4, <1>5, <1>8 DEF BuildInv, Current
<1>10. DoneInv'
  BY <1>4, <1>5, <1>7, <1>8, DoneFromHeld DEF BuildInv
<1> QED
  BY <1>3, <1>9, <1>10, BuildIsAlone, OneBuild

LEMMA SaveStep ==
    ASSUME FtsTypeOK, LockInv, IndexInv, FtsTypeOK', NEW b \in Builders,
           SaveMetadata(b)
    PROVE  IndexInv'
<1>1. /\ job[b] \in Job /\ job[b].pc = "save" /\ Building(b)
      /\ job[b].staged = {} /\ job[b].todo = {}
  BY DEF FtsTypeOK, SaveMetadata, Building, Working, LockInv
<1>2. job'[b] = IdleJob /\ \A c \in Builders \ {b} : job'[c] = job[c]
  BY DEF SaveMetadata, FtsTypeOK
<1>3. BuildInv(b) /\ DoneInv /\ Held(b) = BaseDocs
  BY <1>1 DEF IndexInv, Held
<1>4. index' = index /\ content' = content /\ torn' = job[b].errors
      /\ BaseDocs' = BaseDocs
  BY DEF SaveMetadata, contentVars, BaseDocs
<1>5. \A m \in meta' : m.hash = job[b].hash /\ m.count = job[b].count
  BY DEF SaveMetadata, StoredHash
<1>6. DoneInv'
  BY <1>1, <1>3, <1>4, <1>5 DEF DoneInv, BuildInv, Current
<1>7. BuildInv(b)'
  BY <1>2 DEF BuildInv, Building, Working, IdleJob
<1> QED
  BY <1>1, <1>2, <1>6, <1>7, BuildIsAlone, OneBuild

LEMMA ReadStep ==
    ASSUME FtsTypeOK, LockInv, IndexInv, FtsTypeOK', NEW b \in Builders,
           Building(b), NEW n \in Names, ReadFile(b, n)
    PROVE  IndexInv'
<1> DEFINE new == DocsOfFile(b, n)
<1> DEFINE full == new # {} /\ Cardinality(Staging(b, n)) >= BatchSize
<1>1. job[b] \in Job /\ job[b].pc = "read" /\ job[b].dir = Base /\ n \in Readable(b)
  BY DEF FtsTypeOK, ReadFile, Building, IsBuild
<1>2. /\ job'[b].pc = "read" /\ job'[b].todo = job[b].todo \ {n}
      /\ job'[b].hash = job[b].hash /\ job'[b].errors = job[b].errors
      /\ job'[b].count = job[b].count + Cardinality(new)
      /\ job'[b].staged = IF full THEN {} ELSE Staging(b, n)
  BY <1>1 DEF ReadFile, FtsTypeOK, Job
<1>3. \A c \in Builders \ {b} : job'[c] = job[c]
  BY DEF ReadFile, FtsTypeOK
<1>4. BuildInv(b) /\ DoneInv
  BY DEF IndexInv
<1>5. torn' = torn /\ content' = content
      /\ index' = IF full THEN Commit(Staging(b, n)) ELSE index
  BY DEF ReadFile, contentVars
<1>6. /\ Staging(b, n) \in SUBSET Doc /\ new \subseteq Doc
      /\ n \in job[b].todo
      /\ Staging(b, n) = job[b].staged \cup new
  BY <1>1, DocTyped DEF Staging
<1>7. \A d \in new : d = DocOf(Base, n, content[Base]) /\ d.dir = Base /\ d.name = n
  BY <1>1 DEF DocsOfFile, DocOf
<1>8. \A d \in new : d \notin Held(b)
  BY <1>1, <1>4, <1>6, <1>7 DEF BuildInv
<1>9. \A d \in new : index[d] = 0
  BY <1>6, <1>7, <1>8 DEF Held, BaseDocs
<1>10. \A d \in Staging(b, n) : d.dir = Base /\ index[d] = 0
  BY <1>1, <1>4, <1>6, <1>7, <1>9 DEF BuildInv, LockInv
<1>11. /\ Held(b)' = Held(b) \cup new
       /\ \A d \in Doc : d.dir = Base => index'[d] <= 1
       /\ \A d \in job'[b].staged : index'[d] = 0
  <2>1. CASE full
    <3>1. BaseDocs' = BaseDocs \cup Staging(b, n)
          /\ \A d \in Doc : d.dir = Base => index'[d] <= 1
      BY <2>1, <1>4, <1>5, <1>6, <1>10, CommitHeld
    <3>2. job'[b].staged = {}
      BY <2>1, <1>2
    <3> HIDE DEF new
    <3> QED
      BY <3>1, <3>2, <1>6 DEF Held
  <2>2. CASE ~full
    <3>1. index' = index /\ job'[b].staged = Staging(b, n)
      BY <2>2, <1>2, <1>5
    <3>2. BaseDocs' = BaseDocs
      BY <3>1 DEF BaseDocs
    <3> HIDE DEF new
    <3> QED
      BY <3>1, <3>2, <1>4, <1>6, <1>10 DEF Held, DoneInv
  <2> QED
    BY <2>1, <2>2
<1>12. IsFiniteSet(Held(b)') /\ job'[b].count = Cardinality(Held(b)')
  <2>1. IsFiniteSet(Held(b)) /\ job[b].count = Cardinality(Held(b))
    BY <1>1, <1>4 DEF BuildInv
  <2>2. CASE new = {}
    BY <2>1, <2>2, <1>1, <1>2, <1>11, FS_EmptySet DEF Job
  <2>3. CASE new # {}
    <3>1. PICK d : new = {d}
      BY <2>3 DEF DocsOfFile
    <3>2. Cardinality(new) = 1
      BY <3>1, FS_Singleton
    <3>3. Held(b)' = Held(b) \cup {d} /\ d \notin Held(b)
      BY <3>1, <1>8, <1>11
    <3> HIDE DEF new
    <3>4. IsFiniteSet(Held(b)') /\ Cardinality(Held(b)') = Cardinality(Held(b)) + 1
      BY <2>1, <3>3, FS_AddElement
    <3> QED
      BY <2>1, <3>2, <3>4, <1>2
  <2> QED
    BY <2>2, <2>3
<1>13. \A d \in Held(b)' : d.name \notin job'[b].todo
  BY <1>1, <1>2, <1>4, <1>7, <1>11 DEF BuildInv
<1>14. \A d, e \in Held(b)' : d.name = e.name => d = e
  <2>1. \A d, e \in Held(b) : d.name = e.name => d = e
    BY <1>4 DEF BuildInv
  <2>2. \A d \in Held(b), e \in new : d.name # e.name
    BY <1>4, <1>6, <1>7 DEF BuildInv
  <2> HIDE DEF new
  <2> QED
    BY <2>1, <2>2, <1>7, <1>11
<1>15. ASSUME NEW k \in Names, Current(job[b].hash, k), ~job[b].errors,
              k \notin job'[b].todo
       PROVE  DocOf(Base, k, job[b].hash) \in Held(b)'
  <2>1. CASE k = n
    <3>1. content[Base][n] = job[b].hash[n] /\ <<job[b].dir, n>> \in Extractable
      BY <1>1, <1>15, <2>1 DEF Current
    <3>2. DocOf(Base, n, job[b].hash) = DocOf(Base, n, content[Base])
      BY <3>1 DEF DocOf
    <3>3. DocOf(Base, n, content[Base]) \in new
      BY <1>1, <3>1 DEF DocsOfFile
    <3> HIDE DEF new
    <3> QED
      BY <2>1, <3>2, <3>3, <1>11
  <2>2. CASE k # n
    BY <2>2, <1>1, <1>2, <1>4, <1>11, <1>15 DEF BuildInv
  <2> QED
    BY <2>1, <2>2
<1>16. BuildInv(b)'
  <2>1. torn'
    BY <1>4, <1>5 DEF BuildInv
  <2>2. \A k \in Names : Current(job[b].hash, k)' <=> Current(job[b].hash, k)
    BY <1>2, <1>5 DEF Current
  <2>3. \A k \in Names :
           Current(job[b].hash, k) /\ ~job[b].errors =>
              k \in job'[b].todo \/ DocOf(Base, k, job[b].hash) \in Held(b)'
    BY <1>15
  <2> HIDE DEF new, full
  <2> QED
    BY <1>2, <1>11, <1>12, <1>13, <1>14, <2>1, <2>2, <2>3 DEF BuildInv
<1>17. DoneInv'
  BY <1>4, <1>5, <1>11, <1>14, DoneFromHeld DEF BuildInv
<1> QED
  BY <1>3, <1>16, <1>17, BuildIsAlone, OneBuild

(* build_append: the base directory's documents stay as they are.          *)
LEMMA AppendStep ==
    ASSUME FtsTypeOK, LockInv, IndexInv, FtsTypeOK', NEW b \in Builders,
           ~IsBuild(b),
           \/ FindFiles(b) \/ Rehash(b) \/ FinalCommit(b)
           \/ AnyRead(b) \/ AnyFailure(b)
    PROVE  IndexInv'
<1>1. job[b] \in Job /\ Working(b)
  BY DEF FtsTypeOK, FindFiles, Rehash, FinalCommit, AnyRead, AnyFailure,
         ReadFile, FileFails, Working
<1>2. meta' = meta /\ torn' = torn /\ content' = content
  BY DEF FindFiles, Rehash, FinalCommit, AnyRead, AnyFailure,
         ReadFile, FileFails, contentVars
<1>3. job'[b].dir = job[b].dir /\ \A c \in Builders \ {b} : job'[c] = job[c]
  <2>1. CASE FindFiles(b)
    BY <1>1, <2>1 DEF FindFiles, FtsTypeOK, Job
  <2>2. CASE Rehash(b)
    BY <1>1, <2>2 DEF Rehash, FtsTypeOK, Job
  <2>3. CASE FinalCommit(b)
    BY <1>1, <2>3 DEF FinalCommit, FtsTypeOK, Job
  <2>4. CASE AnyRead(b)
    <3> PICK n \in Names : ReadFile(b, n)
      BY <2>4 DEF AnyRead
    <3> QED
      BY <1>1 DEF ReadFile, FtsTypeOK, Job
  <2>5. CASE AnyFailure(b)
    <3> PICK n \in Names : FileFails(b, n)
      BY <2>5 DEF AnyFailure
    <3> QED
      BY <1>1 DEF FileFails, FtsTypeOK, Job
  <2> QED
    BY <2>1, <2>2, <2>3, <2>4, <2>5
<1>4. \A c \in Builders : ~Building(c)'
  <2>1. ~Building(b)'
    BY <1>3 DEF Building, IsBuild
  <2>2. \A c \in Builders \ {b} : ~Working(c)
    BY <1>1 DEF LockInv
  <2> QED
    BY <1>3, <2>1, <2>2 DEF Building, Working
<1>5. \A d \in Doc : d.dir = Base => index'[d] = index[d]
  <2>1. \A S : (\A d \in S : d.dir # Base) =>
                 \A d \in Doc : d.dir = Base => Commit(S)[d] = index[d]
    BY DEF Commit
  <2>2. \A d \in job[b].staged : d.dir # Base
    BY DEF LockInv, IsBuild
  <2>3. \A n \in Names : \A d \in Staging(b, n) : d.dir # Base
    BY <2>2 DEF Staging, DocsOfFile, DocOf, IsBuild
  <2>4. CASE FindFiles(b) \/ Rehash(b) \/ AnyFailure(b)
    BY <2>4 DEF FindFiles, Rehash, AnyFailure, FileFails
  <2>5. CASE FinalCommit(b)
    BY <2>1, <2>2, <2>5 DEF FinalCommit
  <2>6. CASE AnyRead(b)
    <3> PICK n \in Names : ReadFile(b, n)
      BY <2>6 DEF AnyRead
    <3>1. index' = index \/ index' = Commit(Staging(b, n))
      BY DEF ReadFile
    <3> QED
      BY <2>1, <2>3, <3>1
  <2> QED
    BY <2>4, <2>5, <2>6
<1> QED
  BY <1>2, <1>4, <1>5, Undisturbed

LEMMA IndexStep ==
    FtsTypeOK /\ FtsTypeOK' /\ LockInv /\ HashInv /\ IndexInv /\ [FtsNext]_indexVars
       => IndexInv'
<1> SUFFICES ASSUME FtsTypeOK, FtsTypeOK', LockInv, HashInv, IndexInv,
                    [FtsNext]_indexVars
             PROVE  IndexInv'
  OBVIOUS
<1>s. \A c \in Builders : \A d \in job[c].staged :
         Building(c) => d \in Doc /\ d.dir = Base
  BY DEF FtsTypeOK, Job, LockInv, Building, IsBuild
<1>1. ASSUME NEW b \in Builders, ~Building(b)', index' = index, meta' \subseteq meta,
             torn' = torn, content' = content,
             \A c \in Builders \ {b} : job'[c] = job[c]
      PROVE  IndexInv'
  <2>1. \A c \in Builders : \A d \in job[c].staged :
           job'[c] = job[c] /\ Building(c)' => d \in Doc /\ d.dir = Base
    BY <1>s DEF Building, Working, IsBuild
  <2> QED
    BY <1>1, <2>1, Undisturbed
<1>2. ASSUME NEW b \in Builders, AnyStart(b) PROVE IndexInv'
  <2> PICK d \in Dirs, forced \in BOOLEAN : StartBuilder(b, d, forced)
    BY <1>2 DEF AnyStart
  <2>1. job'[b].pc = "check" /\ \A c \in Builders \ {b} : job'[c] = job[c]
    BY DEF StartBuilder, FtsTypeOK, IdleJob
  <2>2. ~Building(b)'
    BY <2>1 DEF Building, Working
  <2> QED
    BY <2>1, <2>2, <1>1 DEF StartBuilder, contentVars
<1>3. ASSUME NEW b \in Builders, Skip(b) \/ Locked(b) \/ SaveAppend(b) \/ Abandon(b)
      PROVE  IndexInv'
  <2>1. job'[b] = IdleJob /\ \A c \in Builders \ {b} : job'[c] = job[c]
    BY <1>3 DEF Skip, Locked, SaveAppend, Abandon, FtsTypeOK
  <2>2. ~Building(b)'
    BY <2>1 DEF Building, Working, IdleJob
  <2>3. index' = index /\ meta' \subseteq meta /\ torn' = torn /\ content' = content
    BY <1>3 DEF Skip, Locked, SaveAppend, Abandon, contentVars
  <2> QED
    BY <2>1, <2>2, <2>3, <1>1
<1>4. ASSUME NEW b \in Builders, OpenWriter(b) PROVE IndexInv'
  BY <1>4, OpenStep
<1>5. ASSUME NEW b \in Builders, SaveMetadata(b) PROVE IndexInv'
  BY <1>5, SaveStep
<1>6. ASSUME NEW b \in Builders,
             \/ FindFiles(b) \/ Rehash(b) \/ FinalCommit(b)
             \/ AnyRead(b) \/ AnyFailure(b)
      PROVE  IndexInv'
  <2>1. CASE ~IsBuild(b)
    BY <1>6, <2>1, AppendStep
  <2>2. CASE IsBuild(b)
    <3>1. Building(b) /\ ~Rehash(b)
      BY <1>6, <2>2 DEF Building, Working, LockInv, FindFiles, Rehash, FinalCommit,
                        AnyRead, AnyFailure, ReadFile, FileFails
    <3> QED
      BY <1>6, <3>1, FindStep, FinalStep, ReadStep, FailStep DEF AnyRead, AnyFailure
  <2> QED
    BY <2>1, <2>2
<1>7. CASE ContentStep /\ UNCHANGED ftsVars
  <2>1. \A n \in Names :
           \/ content'[Base][n] = content[Base][n]
           \/ content'[Base][n] = 0
           \/ content'[Base][n] = clock' /\ clock' > clock
    BY <1>7, ContentTyped, ContentAssumption DEF FtsTypeOK
  <2>2. clock \in Nat /\ clock' \in Nat
    BY DEF FtsTypeOK
  <2>3. ASSUME NEW h \in Listing, \A n \in Names : h[n] <= clock, NEW n \in Names,
               Current(h, n)'
        PROVE  Current(h, n)
    <3>1. h[n] \in Nat /\ h[n] <= clock /\ h[n] # 0
      BY <2>3 DEF Listing, Current
    <3>2. content'[Base][n] # 0 /\ ~(content'[Base][n] = clock' /\ clock' > clock)
      BY <2>2, <2>3, <3>1 DEF Current
    <3> QED
      BY <2>1, <2>3, <3>2 DEF Current
  <2>4. BaseDocs' = BaseDocs /\ \A b \in Builders : Held(b)' = Held(b)
    BY <1>7 DEF BaseDocs, Held, ftsVars
  <2>5. \A m \in meta' : m.hash \in Listing /\ \A n \in Names : m.hash[n] <= clock
    BY <1>7 DEF FtsTypeOK, HashInv, ftsVars
  <2>6. \A m \in meta', n \in Names : Current(m.hash, n)' => Current(m.hash, n)
    BY <2>3, <2>5
  <2>7. DoneInv'
    BY <1>7, <2>4, <2>6 DEF IndexInv, DoneInv, ftsVars
  <2>8. ASSUME NEW b \in Builders PROVE BuildInv(b)'
    <3>1. job[b].hash \in Listing /\ \A n \in Names : job[b].hash[n] <= clock
      BY DEF FtsTypeOK, Job, HashInv
    <3>2. \A n \in Names : Current(job[b].hash, n)' => Current(job[b].hash, n)
      BY <1>7, <2>3, <3>1 DEF ftsVars
    <3> QED
      BY <1>7, <2>4, <3>2 DEF IndexInv, BuildInv, ftsVars, Building, Working, IsBuild
  <2> QED
    BY <2>7, <2>8 DEF IndexInv
<1>8. CASE UNCHANGED indexVars
  <2>1. \A c \in Builders : \A d \in job[c].staged :
           job'[c] = job[c] /\ Building(c)' => d \in Doc /\ d.dir = Base
    BY <1>s, <1>8 DEF indexVars, ftsVars, Building, Working, IsBuild
  <2> QED
    BY <1>8, <2>1, Undisturbed DEF indexVars, contentVars, ftsVars
<1> QED
  BY <1>2, <1>3, <1>4, <1>5, <1>6, <1>7, <1>8, FtsCases

FtsInv == FtsTypeOK /\ LockInv /\ HashInv /\ IndexInv

LEMMA FtsStarts == ContentInit /\ FtsInit => FtsInv
<1> SUFFICES ASSUME ContentInit, FtsInit PROVE FtsInv
  OBVIOUS
<1>1. \A b \in Builders : job[b] = IdleJob
  BY DEF FtsInit
<1>2. LockInv
  BY <1>1 DEF LockInv, Working, IdleJob
<1>3. HashInv
  <2>1. \A b \in Builders, n \in Names : job[b].hash[n] = 0
    BY <1>1 DEF IdleJob
  <2>2. \A d \in Dirs, n \in Names : content[d][n] \in {0, 1}
    BY DEF ContentInit
  <2> QED
    BY <2>1, <2>2 DEF HashInv, ContentInit, FtsInit
<1>4. \A b \in Builders : BuildInv(b)
  BY <1>1 DEF BuildInv, Building, Working, IdleJob
<1>5. DoneInv
  BY DEF DoneInv, BaseDocs, FtsInit, Empty
<1> QED
  BY <1>2, <1>3, <1>4, <1>5, FtsTypeStarts DEF FtsInv, IndexInv

LEMMA FtsKeeps == FtsInv /\ [FtsNext]_indexVars => FtsInv'
BY FtsTypeStep, LockStep, HashStep, IndexStep DEF FtsInv

(* The inductive invariant of the full-text builders.                      *)
THEOREM FtsInvariant == FtsSpec => []FtsInv
BY FtsStarts, FtsKeeps, PTL DEF FtsSpec, indexVars

LEMMA FtsPromises == FtsInv => BaseIndexedOnce /\ FreshIndexIsWhole
<1>1. FtsInv => BaseIndexedOnce
  <2> SUFFICES ASSUME FtsInv, NEW d \in Doc, d.dir = Base
               PROVE  /\ index[d] <= 1
                      /\ \A e \in Doc : e.dir = Base /\ e.name = d.name /\ e # d =>
                            index[d] = 0 \/ index[e] = 0
    BY DEF BaseIndexedOnce
  <2> QED
    BY DEF FtsInv, IndexInv, DoneInv, BaseDocs
<1>2. FtsInv => FreshIndexIsWhole
  <2> SUFFICES ASSUME FtsInv, NEW m \in meta, ~torn, m.hash = HashOf(Base),
                      NEW n \in Present(Base), <<Base, n>> \in Extractable
               PROVE  index[DocOf(Base, n, content[Base])] = 1
    BY DEF FreshIndexIsWhole
  <2>1. n \in Names /\ Current(m.hash, n)
    BY DEF Present, Current, HashOf
  <2>2. DocOf(Base, n, m.hash) \in BaseDocs
    BY <2>1 DEF FtsInv, IndexInv, DoneInv
  <2>3. DocOf(Base, n, content[Base]) \in BaseDocs
    BY <2>2 DEF HashOf
  <2>4. \A d \in BaseDocs : index[d] \in Nat /\ index[d] # 0 /\ index[d] <= 1
    BY DEF FtsInv, FtsTypeOK, IndexInv, DoneInv, BaseDocs
  <2>5. \A d \in BaseDocs : index[d] = 1
    BY <2>4
  <2> QED
    BY <2>3, <2>5
<1> QED BY <1>1, <1>2

(* No build or crash puts a file of the base directory into the index      *)
(* twice, for any number of builders, files and directories.               *)
THEOREM IndexedOnce == FtsSpec => []BaseIndexedOnce
BY FtsPromises, FtsInvariant, PTL

(* An index its metadata call fresh holds every file as it is.             *)
THEOREM FreshIsWhole == FtsSpec => []FreshIndexIsWhole
BY FtsPromises, FtsInvariant, PTL

(* The document count in the metadata is that of the index.                *)
THEOREM CountExact == FtsSpec => []CountIsExact
<1>1. FtsInv => CountIsExact
  BY DEF FtsInv, IndexInv, DoneInv, BaseDocs, CountIsExact
<1> QED
  BY <1>1, FtsInvariant, PTL

-----------------------------------------------------------------------------
(* The vector cache.                                                       *)

vecVars == <<contentVars, vectorVars>>

(* A document read so far is of the version that was listed, if that is    *)
(* still the file's version: an edit makes a version never seen before.    *)
ExtractInv ==
    vjob.pc = "extract" =>
       /\ \A n \in vjob.todo : vjob.listed[n] # 0
       /\ \A d \in vjob.docs :
             /\ d.dir = Base /\ vjob.listed[d.name] # 0
             /\ content[Base][d.name] = vjob.listed[d.name] =>
                   d.version = vjob.listed[d.name]
       /\ \A n \in Names :
             vjob.listed[n] # 0 /\ ~vjob.errors =>
                n \in vjob.todo \/ \E d \in vjob.docs : d.name = n

VectorInv ==
    /\ content \in [Dirs -> Listing] /\ clock \in 1..MaxClock
    /\ VectorTypeOK
    /\ \A n \in Names : vjob.listed[n] <= clock
    /\ \A n \in Names : content[Base][n] <= clock
    /\ vjob.pc \in {"check", "discover"} => vjob.docs = {}
    /\ ExtractInv
    /\ vjob.pc = "save" =>
          (vjob.listed = vjob.hash /\ ~vjob.errors => vjob.docs = DocsIn(vjob.hash))
    /\ CacheIsWhole

LEMMA IdleBuildTyped ==
    /\ IdleBuild \in VectorJob /\ IdleBuild.pc = "idle"
    /\ \A n \in Names : IdleBuild.listed[n] = 0
BY ContentAssumption DEF IdleBuild, VectorJob, NoListing, Listing

LEMMA WholeAtHash ==
    ASSUME VectorInv, vjob.pc = "extract", vjob.todo = {}, ~vjob.errors,
           vjob.listed = content[Base]
    PROVE  vjob.docs = DocsIn(content[Base])
<1>1. vjob.docs \subseteq Doc /\ content[Base] \in Listing
  BY ContentAssumption DEF VectorInv, VectorTypeOK, VectorJob
<1>2. \A d \in vjob.docs : /\ d.name \in Names /\ content[Base][d.name] # 0
                           /\ d = DocOf(Base, d.name, content[Base])
  BY <1>1 DEF VectorInv, ExtractInv, Doc, DocOf
<1>3. \A n \in Names : content[Base][n] # 0 => \E d \in vjob.docs : d.name = n
  BY DEF VectorInv, ExtractInv
<1>4. \A n \in Names : content[Base][n] # 0 => DocOf(Base, n, content[Base]) \in vjob.docs
  BY <1>2, <1>3
<1> QED
  BY <1>2, <1>4 DEF DocsIn

LEMMA VectorStepKeeps == VectorInv /\ [VectorNext]_vecVars => VectorInv'
<1> SUFFICES ASSUME VectorInv, [VectorNext]_vecVars PROVE VectorInv'
  OBVIOUS
<1> USE ContentAssumption
<1>b. content[Base] \in Listing /\ Present(Base) \subseteq Names /\ clock \in Nat
  BY DEF VectorInv, Present
<1>j. vjob \in VectorJob /\ \A c \in cache : c \in Cached
  BY DEF VectorInv, VectorTypeOK
(* Back to idle with the cache as it was, or with a good one.              *)
<1>i. ASSUME vjob' = IdleBuild, UNCHANGED contentVars, builds' = builds,
             \A c \in cache' : c \in Cached, CacheIsWhole'
      PROVE  VectorInv'
  <2>1. \A n \in Names : vjob'.listed[n] <= clock'
    BY <1>b, <1>i, IdleBuildTyped DEF contentVars
  <2>2. VectorTypeOK'
    BY <1>i, IdleBuildTyped DEF VectorInv, VectorTypeOK
  <2>3. ExtractInv' /\ vjob'.pc = "idle"
    BY <1>i, IdleBuildTyped DEF ExtractInv
  <2>4. \A n \in Names : content'[Base][n] <= clock'
    BY <1>i DEF VectorInv, contentVars
  <2>5. content' \in [Dirs -> Listing] /\ clock' \in 1..MaxClock
    BY <1>i DEF VectorInv, contentVars
  <2> QED
    BY <1>i, <2>1, <2>2, <2>3, <2>4, <2>5 DEF VectorInv
(* The builder goes on; the cache stays.                                   *)
<1>g. ASSUME NEW j \in VectorJob, vjob' = j, cache' = cache, UNCHANGED contentVars,
             builds' \in 0..MaxBuilds,
             \A n \in Names : j.listed[n] <= clock,
             j.pc \in {"check", "discover"} => j.docs = {},
             ExtractInv',
             j.pc = "save" =>
                (j.listed = j.hash /\ ~j.errors => j.docs = DocsIn(j.hash))
      PROVE  VectorInv'
  BY <1>g DEF VectorInv, VectorTypeOK, CacheIsWhole, contentVars
<1>1. ASSUME NEW skipCache \in BOOLEAN, StartVector(skipCache) PROVE VectorInv'
  <2>1. vjob' \in VectorJob
    <3>1. [IdleBuild EXCEPT !.pc = "discover"] \in VectorJob
      BY IdleBuildTyped DEF VectorJob
    <3>2. [IdleBuild EXCEPT !.pc = "check", !.hash = HashOf(Base)] \in VectorJob
      BY <1>b, IdleBuildTyped DEF VectorJob, HashOf
    <3> QED
      BY <1>1, <3>1, <3>2 DEF StartVector
  <2>2. vjob'.pc \in {"check", "discover"} /\ vjob'.listed = IdleBuild.listed
        /\ vjob'.docs = {}
    BY <1>1, IdleBuildTyped DEF StartVector, IdleBuild
  <2>3. \A n \in Names : vjob'.listed[n] <= clock
    BY <1>b, <2>2, IdleBuildTyped
  <2>4. builds' \in 0..MaxBuilds
    BY <1>1, VectorAssumption DEF StartVector, VectorInv, VectorTypeOK
  <2> QED
    BY <1>1, <1>g, <2>1, <2>2, <2>3, <2>4 DEF StartVector, ExtractInv
<1>2. CASE CacheHit
  BY <1>2, <1>i, <1>j DEF CacheHit, VectorInv, CacheIsWhole
<1>3. CASE CacheMiss
  <2>1. vjob' \in VectorJob /\ vjob'.pc = "discover" /\ vjob'.listed = vjob.listed
        /\ vjob'.docs = {}
    BY <1>3, <1>j DEF CacheMiss, VectorJob, VectorInv
  <2> QED
    BY <1>3, <1>g, <2>1 DEF CacheMiss, VectorInv, VectorTypeOK, ExtractInv
<1>4. CASE Discover
  <2>1. /\ vjob' \in VectorJob /\ vjob'.pc = "extract" /\ vjob'.listed = content[Base]
        /\ vjob'.todo = Present(Base) /\ vjob'.docs = {}
    BY <1>4, <1>b, <1>j DEF Discover, VectorJob, VectorInv
  <2>2. ExtractInv'
    BY <2>1 DEF ExtractInv, Present
  <2> QED
    BY <1>4, <1>g, <2>1, <2>2 DEF Discover, VectorInv, VectorTypeOK
<1>5. ASSUME NEW n \in Names, ExtractFile(n) PROVE VectorInv'
  <2> DEFINE d == DocOf(Base, n, content[Base])
  <2>1. n \in vjob.todo /\ n \in Present(Base) /\ vjob.pc = "extract"
    BY <1>5 DEF ExtractFile
  <2>2. content[Base][n] \in 1..MaxClock
    BY <1>b, <2>1 DEF Present, Listing
  <2>3. d \in Doc /\ d.dir = Base /\ d.name = n /\ d.version = content[Base][n]
    BY <2>2 DEF Doc, DocOf
  <2>4. /\ vjob' \in VectorJob /\ vjob'.pc = "extract" /\ vjob'.listed = vjob.listed
        /\ vjob'.todo = vjob.todo \ {n} /\ vjob'.docs = vjob.docs \cup {d}
        /\ vjob'.errors = vjob.errors
    BY <1>5, <1>j, <2>3 DEF ExtractFile, VectorJob
  <2>5. UNCHANGED contentVars /\ cache' = cache /\ builds' = builds
    BY <1>5 DEF ExtractFile
  <2>6. ExtractInv'
    <3>1. \A e \in vjob'.docs :
             /\ e.dir = Base /\ vjob.listed[e.name] # 0
             /\ content[Base][e.name] = vjob.listed[e.name] =>
                   e.version = vjob.listed[e.name]
      BY <2>1, <2>3, <2>4 DEF VectorInv, ExtractInv
    <3>2. \A k \in Names :
             vjob.listed[k] # 0 /\ ~vjob.errors =>
                k \in vjob'.todo \/ \E e \in vjob'.docs : e.name = k
      BY <2>1, <2>3, <2>4 DEF VectorInv, ExtractInv
    <3>3. \A k \in vjob'.todo : vjob.listed[k] # 0
      BY <2>1, <2>4 DEF VectorInv, ExtractInv
    <3> QED
      BY <2>4, <2>5, <3>1, <3>2, <3>3 DEF ExtractInv, contentVars
  <2> HIDE DEF d
  <2> QED
    BY <1>g, <2>4, <2>5, <2>6 DEF VectorInv, VectorTypeOK
<1>6. ASSUME NEW n \in Names, ExtractFails(n) PROVE VectorInv'
  <2>1. CASE FailFast
    BY <1>6, <2>1, <1>i, <1>j DEF ExtractFails, VectorInv, CacheIsWhole
  <2>2. CASE ~FailFast
    <3>1. /\ vjob' \in VectorJob /\ vjob'.pc = "extract" /\ vjob'.listed = vjob.listed
          /\ vjob'.todo = vjob.todo \ {n} /\ vjob'.docs = vjob.docs
          /\ vjob'.errors = TRUE /\ vjob.pc = "extract"
      <4>1. vjob' = [vjob EXCEPT !.todo = vjob.todo \ {n}, !.errors = TRUE]
        BY <1>6, <2>2 DEF ExtractFails
      <4>2. vjob.todo \ {n} \subseteq Names /\ vjob.pc = "extract"
        BY <1>6, <1>j DEF VectorJob, ExtractFails
      <4> QED
        BY <1>j, <4>1, <4>2 DEF VectorJob
    <3>2. UNCHANGED contentVars /\ cache' = cache /\ builds' = builds
      BY <1>6 DEF ExtractFails
    <3>3. ExtractInv'
      BY <3>1, <3>2 DEF VectorInv, ExtractInv, contentVars
    <3> QED
      BY <1>g, <3>1, <3>2, <3>3 DEF VectorInv, VectorTypeOK
  <2> QED
    BY <2>1, <2>2
<1>7. CASE EmbedAndHash
  <2>1. /\ vjob' \in VectorJob /\ vjob'.pc = "save" /\ vjob'.listed = vjob.listed
        /\ vjob'.hash = content[Base] /\ vjob'.docs = vjob.docs
        /\ vjob'.errors = vjob.errors
    BY <1>7, <1>b, <1>j DEF EmbedAndHash, VectorJob, HashOf
  <2>2. vjob.listed = content[Base] /\ ~vjob.errors => vjob.docs = DocsIn(content[Base])
    BY <1>7, WholeAtHash DEF EmbedAndHash
  <2>3. ExtractInv'
    BY <2>1 DEF ExtractInv
  <2> QED
    BY <1>7, <1>g, <2>1, <2>2, <2>3 DEF EmbedAndHash, VectorInv, VectorTypeOK
<1>8. CASE SaveCache
  <2> DEFINE new == [hash |-> vjob.hash, docs |-> vjob.docs,
                     listed |-> vjob.listed, errors |-> vjob.errors]
  <2>1. new \in Cached
    BY <1>j DEF Cached, VectorJob
  <2>2. new.listed = new.hash /\ ~new.errors => new.docs = DocsIn(new.hash)
    BY <1>8 DEF SaveCache, VectorInv
  <2>3. cache' \subseteq cache \cup {new}
    BY <1>8 DEF SaveCache
  <2> HIDE DEF new
  <2>4. CacheIsWhole'
    BY <2>2, <2>3 DEF VectorInv, CacheIsWhole
  <2>5. \A c \in cache' : c \in Cached
    BY <1>j, <2>1, <2>3
  <2> QED
    BY <1>8, <1>i, <2>4, <2>5 DEF SaveCache
<1>9. CASE AbandonVector
  <2>1. cache' \subseteq cache
    BY <1>9 DEF AbandonVector
  <2>2. CacheIsWhole' /\ \A c \in cache' : c \in Cached
    BY <1>j, <2>1 DEF VectorInv, CacheIsWhole
  <2> QED
    BY <1>9, <1>i, <2>2 DEF AbandonVector
<1>10. CASE ContentStep /\ UNCHANGED vectorVars
  <2>1. /\ content' \in [Dirs -> Listing] /\ clock' \in 1..MaxClock /\ clock <= clock'
        /\ \A n \in Names :
              \/ content'[Base][n] = content[Base][n]
              \/ content'[Base][n] = 0
              \/ content'[Base][n] = clock' /\ clock' > clock
    BY <1>10, ContentTyped DEF VectorInv
  <2>2. clock' \in Nat /\ \A n \in Names : content[Base][n] \in Nat /\ vjob.listed[n] \in Nat
    BY <1>b, <1>j, <2>1 DEF Listing, VectorJob
  <2>3. /\ \A n \in Names : vjob.listed[n] <= clock'
        /\ \A n \in Names : content'[Base][n] <= clock'
    BY <1>b, <2>1, <2>2 DEF VectorInv
  <2>4. \A n \in Names :
           vjob.listed[n] # 0 /\ content'[Base][n] = vjob.listed[n] =>
              content[Base][n] = vjob.listed[n]
    BY <1>b, <2>1, <2>2 DEF VectorInv
  <2>5. ASSUME vjob.pc = "extract" PROVE ExtractInv'
    <3>1. \A d \in vjob.docs : d.name \in Names
      BY <1>j DEF VectorJob, Doc
    <3> QED
      BY <1>10, <2>4, <2>5, <3>1 DEF VectorInv, ExtractInv, vectorVars
  <2>6. ExtractInv'
    BY <1>10, <2>5 DEF ExtractInv, vectorVars
  <2> QED
    BY <1>10, <2>1, <2>3, <2>6 DEF VectorInv, VectorTypeOK, CacheIsWhole, vectorVars
<1>11. CASE UNCHANGED vecVars
  BY <1>11 DEF vecVars, contentVars, vectorVars, VectorInv, VectorTypeOK, ExtractInv,
               CacheIsWhole
<1> QED
  BY <1>1, <1>2, <1>3, <1>4, <1>5, <1>6, <1>7, <1>8, <1>9, <1>10, <1>11
     DEF VectorNext, VectorStep

LEMMA VectorStarts == ContentInit /\ VectorInit => VectorInv
<1> SUFFICES ASSUME ContentInit, VectorInit PROVE VectorInv
  OBVIOUS
<1> USE ContentAssumption
<1>1. content \in [Dirs -> Listing] /\ clock \in 1..MaxClock
  <2>1. {0, 1} \subseteq 0..MaxClock
    OBVIOUS
  <2>2. [Names -> {0, 1}] \subseteq [Names -> 0..MaxClock]
    BY <2>1
  <2>3. content \in [Dirs -> Listing]
    BY <2>2 DEF ContentInit, Listing
  <2> QED
    BY <2>3 DEF ContentInit
<1>2. \A n \in Names : content[Base][n] <= clock
  <2>1. \A n \in Names : content[Base][n] \in {0, 1}
    BY DEF ContentInit
  <2> QED
    BY <2>1 DEF ContentInit
<1>3. VectorTypeOK
  BY VectorAssumption, IdleBuildTyped DEF VectorInit, VectorTypeOK
<1>4. \A n \in Names : vjob.listed[n] <= clock
  BY IdleBuildTyped DEF VectorInit, ContentInit
<1>5. ExtractInv /\ vjob.pc = "idle" /\ CacheIsWhole
  BY IdleBuildTyped DEF VectorInit, ExtractInv, CacheIsWhole
<1> QED
  BY <1>1, <1>2, <1>3, <1>4, <1>5 DEF VectorInv

(* A cache hashed from the content it was listed from holds exactly its    *)
(* documents, whatever edits, failures and crashes came in between.        *)
THEOREM CacheWhole == VectorSpec => [](VectorTypeOK /\ CacheIsWhole)
<1>1. VectorInv => VectorTypeOK /\ CacheIsWhole
  BY DEF VectorInv
<1> QED
  BY <1>1, VectorStarts, VectorStepKeeps, PTL DEF VectorSpec, vecVars

-----------------------------------------------------------------------------
(* The graph cache.  While the files are read, the nodes and `links` are   *)
(* those of the files read so far in their listed versions, as long as     *)
(* every listed file is still as it was listed.  A version never comes     *)
(* back: a file that was changed will not be as listed again.              *)

gbVars == <<contentVars, graphBuildVars>>

AsListed(n) == content[Base][n] = gjob.graph.listed[n]
Listed == {n \in Names : gjob.graph.listed[n] # 0}
StoodStill == ~gjob.graph.errors /\ \A n \in Listed : AsListed(n)

(* The nodes and the links of some files in their listed versions.         *)
NodesOf(files) == {NodeOf[n][gjob.graph.listed[n]] : n \in files}
AllLinks(files) == UNION {LinksOf(n, gjob.graph.listed[n]) : n \in files}

ReadInv ==
    gjob.pc = "read" =>
       /\ gjob.todo \subseteq Listed
       /\ StoodStill => /\ gjob.graph.ids = NodesOf(Listed \ gjob.todo)
                         /\ gjob.graph.links = AllLinks(Listed \ gjob.todo)

HashedInv ==
    gjob.pc = "hash" /\ StoodStill =>
       /\ gjob.graph.ids = NodesOf(Listed)
       /\ gjob.graph.links = Within(gjob.graph.ids, gjob.graph.added \cup AllLinks(Listed))

Whole(g) ==
    g.listed = g.hash /\ ~g.errors =>
        LET files == {n \in Names : g.hash[n] # 0}
        IN  /\ g.ids = {NodeOf[n][g.hash[n]] : n \in files}
            /\ g.links = Within(g.ids,
                  g.added \cup UNION {LinksOf(n, g.hash[n]) : n \in files})

GraphBuildInv ==
    /\ content \in [Dirs -> Listing] /\ clock \in 1..MaxClock
    /\ GraphBuildTypeOK
    /\ \A n \in Names : gjob.graph.listed[n] <= clock /\ content[Base][n] <= clock
    /\ gjob.pc \in {"check", "discover"} => gjob.graph.ids = {} /\ gjob.graph.links = {}
    /\ ReadInv /\ HashedInv
    /\ gjob.pc = "save" => Whole(gjob.graph)
    /\ \A g \in graphCache : Whole(g)

LEMMA IdleGraphTyped ==
    /\ IdleGraph \in GraphJob /\ NoGraph \in CachedGraph
    /\ IdleGraph.pc = "idle" /\ IdleGraph.graph = NoGraph /\ IdleGraph.todo = {}
    /\ NoGraph.ids = {} /\ NoGraph.links = {}
    /\ \A n \in Names : NoGraph.listed[n] = 0
<1>1. NoFiles \in Listing
  BY ContentAssumption DEF NoFiles, Listing
<1>2. NoGraph \in CachedGraph
  BY <1>1 DEF NoGraph, CachedGraph
<1>3. \A n \in Names : NoGraph.listed[n] = 0
  BY DEF NoGraph, NoFiles
<1>4. NoGraph.ids = {} /\ NoGraph.links = {}
  BY DEF NoGraph
<1> HIDE DEF NoGraph
<1> QED
  BY <1>2, <1>3, <1>4 DEF IdleGraph, GraphJob

(* The parts of a job that has its type.                                   *)
LEMMA JobParts ==
    ASSUME NEW j \in GraphJob
    PROVE  /\ j.graph \in CachedGraph /\ j.todo \subseteq Names
           /\ j.graph.hash \in Listing /\ j.graph.listed \in Listing
           /\ j.graph.ids \subseteq Names /\ j.graph.links \subseteq Pairs
           /\ j.graph.added \subseteq Pairs /\ j.graph.errors \in BOOLEAN
BY DEF GraphJob, CachedGraph

LEMMA LinksTyped ==
    ASSUME NEW n \in Names, NEW v \in 1..MaxClock
    PROVE  LinksOf(n, v) \subseteq Pairs /\ NodeOf[n][v] \in Names
<1>1. Links[n][v] \subseteq Names /\ NodeOf[n][v] \in Names
  BY GraphBuildAssumption
<1> QED
  BY <1>1 DEF LinksOf, Pairs

LEMMA GraphContent ==
    ASSUME GraphBuildInv
    PROVE  /\ content[Base] \in Listing /\ Present(Base) \subseteq Names
           /\ clock \in Nat /\ gjob \in GraphJob
           /\ manual \subseteq Pairs
BY ContentAssumption, GraphBuildAssumption
   DEF GraphBuildInv, GraphBuildTypeOK, Present, Pairs

(* What was read, once every file is and the content is still as listed.   *)
LEMMA WholeWhenHashed ==
    ASSUME GraphBuildInv, gjob.pc = "hash", gjob.graph.listed = content[Base],
           ~gjob.graph.errors
    PROVE  LET files == {n \in Names : content[Base][n] # 0}
           IN  /\ gjob.graph.ids = {NodeOf[n][content[Base][n]] : n \in files}
               /\ gjob.graph.links = Within(gjob.graph.ids, gjob.graph.added \cup
                     UNION {LinksOf(n, content[Base][n]) : n \in files})
<1>1. StoodStill /\ Listed = {n \in Names : content[Base][n] # 0}
  BY DEF StoodStill, AsListed, Listed
<1>2. /\ gjob.graph.ids = NodesOf(Listed)
      /\ gjob.graph.links = Within(gjob.graph.ids, gjob.graph.added \cup AllLinks(Listed))
  BY <1>1 DEF GraphBuildInv, HashedInv
<1> QED
  BY <1>1, <1>2 DEF NodesOf, AllLinks

-----------------------------------------------------------------------------
(* A step of the builder that leaves the content and the cache alone.      *)
LEMMA BuilderGoes ==
    ASSUME GraphBuildInv, NEW j \in GraphJob, gjob' = j, UNCHANGED contentVars,
           graphCache' = graphCache, manual' = manual, gbuilds' \in 0..MaxGraphBuilds,
           \A n \in Names : j.graph.listed[n] <= clock,
           j.pc \in {"check", "discover"} => j.graph.ids = {} /\ j.graph.links = {},
           ReadInv', HashedInv',
           j.pc = "save" => Whole(j.graph)
    PROVE  GraphBuildInv'
<1>1. GraphBuildTypeOK'
  BY DEF GraphBuildInv, GraphBuildTypeOK
<1>2. \A n \in Names : gjob'.graph.listed[n] <= clock' /\ content'[Base][n] <= clock'
  BY DEF GraphBuildInv, contentVars
<1>3. \A g \in graphCache' : Whole(g)
  BY DEF GraphBuildInv
<1>4. gjob'.pc = "save" => Whole(gjob'.graph)
  OBVIOUS
<1>5. content' \in [Dirs -> Listing] /\ clock' \in 1..MaxClock
  BY DEF GraphBuildInv, contentVars
<1> QED
  BY <1>1, <1>2, <1>3, <1>4, <1>5 DEF GraphBuildInv, Whole

LEMMA BackToIdle ==
    ASSUME GraphBuildInv, gjob' = IdleGraph, UNCHANGED contentVars,
           manual' = manual, gbuilds' = gbuilds,
           \A g \in graphCache' : g \in graphCache \/ (g \in CachedGraph /\ Whole(g))
    PROVE  GraphBuildInv'
<1>1. \A n \in Names : gjob'.graph.listed[n] <= clock'
  BY GraphContent, IdleGraphTyped DEF contentVars
<1>2. GraphBuildTypeOK'
  BY IdleGraphTyped DEF GraphBuildInv, GraphBuildTypeOK
<1>3. ReadInv' /\ HashedInv' /\ gjob'.pc = "idle"
  BY IdleGraphTyped DEF ReadInv, HashedInv
<1>4. \A g \in graphCache' : Whole(g)
  BY DEF GraphBuildInv
<1> QED
  BY <1>1, <1>2, <1>3, <1>4 DEF GraphBuildInv, contentVars, Whole

LEMMA StartGraphKeeps ==
    ASSUME GraphBuildInv, NEW skipCache \in BOOLEAN, StartGraph(skipCache)
    PROVE  GraphBuildInv'
<1>1. gjob' \in GraphJob /\ gjob'.pc \in {"check", "discover"}
      /\ gjob'.graph.listed = NoGraph.listed
      /\ gjob'.graph.ids = {} /\ gjob'.graph.links = {}
  <2>1. CASE skipCache
    BY <2>1, IdleGraphTyped DEF StartGraph, GraphJob
  <2>2. CASE ~skipCache
    <3>1. gjob' = [IdleGraph EXCEPT !.pc = "check",
                                    !.graph = [NoGraph EXCEPT !.hash = content[Base]]]
      BY <2>2, IdleGraphTyped DEF StartGraph, HashOf, GraphJob
    <3>2. LET g == [NoGraph EXCEPT !.hash = content[Base]]
          IN  /\ g \in CachedGraph /\ g.listed = NoGraph.listed
              /\ g.ids = {} /\ g.links = {}
      BY GraphContent, IdleGraphTyped DEF CachedGraph
    <3> QED
      BY <3>1, <3>2, IdleGraphTyped DEF GraphJob
  <2> QED
    BY <2>1, <2>2
<1>2. \A n \in Names : gjob'.graph.listed[n] <= clock
  BY <1>1, GraphContent, IdleGraphTyped
<1>3. gbuilds' \in 0..MaxGraphBuilds
  BY GraphBuildAssumption DEF StartGraph, GraphBuildInv, GraphBuildTypeOK
<1>4. ReadInv' /\ HashedInv'
  BY <1>1 DEF ReadInv, HashedInv
<1> QED
  BY <1>1, <1>2, <1>3, <1>4, BuilderGoes DEF StartGraph

LEMMA GraphMissKeeps == ASSUME GraphBuildInv, GraphMiss PROVE GraphBuildInv'
<1>1. gjob' \in GraphJob /\ gjob'.pc = "discover" /\ gjob'.graph = NoGraph
  BY IdleGraphTyped DEF GraphMiss, GraphJob
<1>2. \A n \in Names : gjob'.graph.listed[n] <= clock
  BY <1>1, GraphContent, IdleGraphTyped
<1>3. ReadInv' /\ HashedInv'
  BY <1>1 DEF ReadInv, HashedInv
<1>4. gbuilds' \in 0..MaxGraphBuilds
  BY DEF GraphMiss, GraphBuildInv, GraphBuildTypeOK
<1> QED
  BY <1>1, <1>2, <1>3, <1>4, IdleGraphTyped, BuilderGoes DEF GraphMiss

LEMMA DiscoverKeeps == ASSUME GraphBuildInv, DiscoverFiles PROVE GraphBuildInv'
<1> DEFINE g == [gjob.graph EXCEPT !.listed = content[Base]]
<1>1. /\ g \in CachedGraph /\ g.listed = content[Base]
      /\ g.ids = {} /\ g.links = {}
  BY GraphContent, JobParts DEF CachedGraph, DiscoverFiles, GraphBuildInv
<1>2. gjob' = [gjob EXCEPT !.todo = Present(Base), !.graph = g, !.pc = "read"]
  BY GraphContent DEF DiscoverFiles, GraphJob
<1> HIDE DEF g
<1>3. gjob' \in GraphJob /\ gjob'.pc = "read" /\ gjob'.graph = g
      /\ gjob'.todo = Present(Base)
  BY <1>1, <1>2, GraphContent DEF GraphJob
<1>4. \A n \in Names : gjob'.graph.listed[n] <= clock
  BY <1>1, <1>3 DEF GraphBuildInv
<1>5. ReadInv' /\ HashedInv'
  <2>1. Listed' = Present(Base) /\ Present(Base) \ Present(Base) = {}
    BY <1>1, <1>3 DEF Listed, Present
  <2>2. NodesOf({})' = {} /\ AllLinks({})' = {}
    BY DEF NodesOf, AllLinks
  <2> QED
    BY <1>1, <1>3, <2>1, <2>2 DEF ReadInv, HashedInv, NodesOf, AllLinks
<1>6. gbuilds' \in 0..MaxGraphBuilds
  BY DEF DiscoverFiles, GraphBuildInv, GraphBuildTypeOK
<1> QED
  BY <1>1, <1>3, <1>4, <1>5, <1>6, BuilderGoes DEF DiscoverFiles

LEMMA ReadNodeKeeps ==
    ASSUME GraphBuildInv, NEW n \in Names, ReadNode(n)
    PROVE  GraphBuildInv'
<1> DEFINE id == NodeOf[n][content[Base][n]]
           new == LinksOf(n, content[Base][n])
           g == [gjob.graph EXCEPT !.ids = gjob.graph.ids \cup {id},
                                   !.links = gjob.graph.links \cup new]
<1>1. n \in gjob.todo /\ gjob.pc = "read" /\ content[Base][n] \in 1..MaxClock
  BY GraphContent DEF ReadNode, Reading, Present, Listing
<1>2. new \subseteq Pairs /\ id \in Names
  BY <1>1, LinksTyped
<1>3. gjob' = [gjob EXCEPT !.todo = gjob.todo \ {n}, !.graph = g]
  BY GraphContent DEF ReadNode, GraphJob
<1>4. /\ g \in CachedGraph /\ g.listed = gjob.graph.listed
      /\ g.ids = gjob.graph.ids \cup {id} /\ g.links = gjob.graph.links \cup new
      /\ g.errors = gjob.graph.errors
  <2> HIDE DEF new, id
  <2> QED
    BY <1>2, GraphContent, JobParts DEF CachedGraph
<1> HIDE DEF g
<1>5. /\ gjob' \in GraphJob /\ gjob'.pc = "read" /\ gjob'.graph = g
      /\ gjob'.todo = gjob.todo \ {n}
  BY <1>1, <1>3, <1>4, GraphContent DEF GraphJob
<1>6. content' = content
  BY DEF ReadNode, contentVars
<1>7. /\ Listed' = Listed /\ StoodStill' = StoodStill
      /\ \A files : NodesOf(files)' = NodesOf(files) /\ AllLinks(files)' = AllLinks(files)
  BY <1>4, <1>5, <1>6 DEF Listed, StoodStill, AsListed, NodesOf, AllLinks
<1>8. ReadInv'
  <2>1. gjob.todo \subseteq Listed /\ n \in Listed
    BY <1>1 DEF GraphBuildInv, ReadInv
  <2>2. Listed \ (gjob.todo \ {n}) = (Listed \ gjob.todo) \cup {n}
    BY <1>1, <2>1
  <2>3. ASSUME StoodStill
        PROVE  /\ g.ids = NodesOf((Listed \ gjob.todo) \cup {n})
               /\ g.links = AllLinks((Listed \ gjob.todo) \cup {n})
    <3>1. content[Base][n] = gjob.graph.listed[n]
      BY <2>1, <2>3 DEF StoodStill, AsListed
    <3>2. /\ gjob.graph.ids = NodesOf(Listed \ gjob.todo)
          /\ gjob.graph.links = AllLinks(Listed \ gjob.todo)
      BY <1>1, <2>3 DEF GraphBuildInv, ReadInv
    <3> QED
      BY <1>4, <3>1, <3>2 DEF NodesOf, AllLinks
  <2>4. gjob'.todo \subseteq Listed'
    BY <1>5, <1>7, <2>1
  <2>5. Listed' \ gjob'.todo = (Listed \ gjob.todo) \cup {n}
    BY <1>5, <1>7, <2>2
  <2>6. StoodStill' => /\ gjob'.graph.ids = NodesOf(Listed' \ gjob'.todo)
                        /\ gjob'.graph.links = AllLinks(Listed' \ gjob'.todo)
    BY <1>5, <1>7, <2>3, <2>5
  <2> QED
    BY <1>7, <2>4, <2>6 DEF ReadInv
<1>9. HashedInv'
  BY <1>5 DEF HashedInv
<1> QED
  BY <1>4, <1>5, <1>8, <1>9, BuilderGoes
     DEF ReadNode, GraphBuildInv, GraphBuildTypeOK

LEMMA ReadNodeFailsKeeps ==
    ASSUME GraphBuildInv, NEW n \in Names, ReadNodeFails(n)
    PROVE  GraphBuildInv'
<1>1. CASE StopOnError
  BY <1>1, BackToIdle DEF ReadNodeFails
<1>2. CASE ~StopOnError
  <2> DEFINE g == [gjob.graph EXCEPT !.errors = TRUE]
  <2>1. gjob' = [gjob EXCEPT !.todo = gjob.todo \ {n}, !.graph = g] /\ gjob.pc = "read"
    BY <1>2, GraphContent DEF ReadNodeFails, Reading, GraphJob
  <2>2. /\ g \in CachedGraph /\ g.listed = gjob.graph.listed
        /\ g.ids = gjob.graph.ids /\ g.links = gjob.graph.links /\ g.errors = TRUE
    BY GraphContent, JobParts DEF CachedGraph
  <2> HIDE DEF g
  <2>3. /\ gjob' \in GraphJob /\ gjob'.pc = "read" /\ gjob'.graph = g
        /\ gjob'.todo = gjob.todo \ {n}
    BY <2>1, <2>2, GraphContent DEF GraphJob
  <2>4. ReadInv' /\ HashedInv'
    BY <2>1, <2>2, <2>3 DEF GraphBuildInv, ReadInv, HashedInv, StoodStill, Listed
  <2> QED
    BY <2>2, <2>3, <2>4, BuilderGoes
       DEF ReadNodeFails, GraphBuildInv, GraphBuildTypeOK
<1> QED
  BY <1>1, <1>2

LEMMA AddLinksKeeps == ASSUME GraphBuildInv, AddLinks PROVE GraphBuildInv'
<1> DEFINE ids == gjob.graph.ids
           links == gjob.graph.links
           g == [gjob.graph EXCEPT !.links = Within(ids, links \cup manual),
                                   !.added = manual]
<1>1. gjob.pc = "read" /\ gjob.todo = {} /\ content' = content
  BY DEF AddLinks, contentVars
<1>2. /\ ids \subseteq Names /\ links \subseteq Pairs /\ manual \subseteq Pairs
      /\ Within(ids, links \cup manual) \subseteq Pairs
  BY GraphContent, JobParts DEF Within
<1>3. gjob' = [gjob EXCEPT !.pc = "hash", !.graph = g]
  BY GraphContent DEF AddLinks, GraphJob
<1>4. /\ g \in CachedGraph /\ g.listed = gjob.graph.listed /\ g.ids = ids
      /\ g.links = Within(ids, links \cup manual) /\ g.added = manual
      /\ g.errors = gjob.graph.errors
  BY <1>2, GraphContent, JobParts DEF CachedGraph
<1> HIDE DEF g
<1>5. /\ gjob' \in GraphJob /\ gjob'.pc = "hash" /\ gjob'.graph = g /\ gjob'.todo = {}
  BY <1>1, <1>3, <1>4, GraphContent DEF GraphJob
<1>6. ReadInv'
  BY <1>5 DEF ReadInv
<1>7. /\ Listed' = Listed /\ StoodStill' = StoodStill
      /\ NodesOf(Listed)' = NodesOf(Listed) /\ AllLinks(Listed)' = AllLinks(Listed)
  BY <1>1, <1>4, <1>5 DEF Listed, StoodStill, AsListed, NodesOf, AllLinks
<1>8. StoodStill => ids = NodesOf(Listed) /\ links = AllLinks(Listed)
  <2>1. Listed \ {} = Listed
    OBVIOUS
  <2> QED
    BY <1>1, <2>1 DEF GraphBuildInv, ReadInv
<1>9. HashedInv'
  <2>1. links \cup manual = manual \cup links
    OBVIOUS
  <2> HIDE DEF ids, links
  <2> QED
    BY <1>4, <1>5, <1>7, <1>8, <2>1 DEF HashedInv
<1> QED
  BY <1>4, <1>5, <1>6, <1>9, BuilderGoes
     DEF AddLinks, GraphBuildInv, GraphBuildTypeOK

LEMMA HashGraphKeeps == ASSUME GraphBuildInv, HashGraph PROVE GraphBuildInv'
<1> DEFINE g == [gjob.graph EXCEPT !.hash = content[Base]]
<1>1. gjob' = [gjob EXCEPT !.graph = g, !.pc = "save"] /\ gjob.pc = "hash"
  BY GraphContent DEF HashGraph, HashOf, GraphJob
<1>2. /\ g \in CachedGraph /\ g.hash = content[Base] /\ g.listed = gjob.graph.listed
      /\ g.ids = gjob.graph.ids /\ g.links = gjob.graph.links
      /\ g.added = gjob.graph.added /\ g.errors = gjob.graph.errors
  BY GraphContent, JobParts DEF CachedGraph
<1>3. Whole(g)
  BY <1>1, <1>2, WholeWhenHashed DEF Whole
<1> HIDE DEF g
<1>4. gjob' \in GraphJob /\ gjob'.pc = "save" /\ gjob'.graph = g
  BY <1>1, <1>2, GraphContent DEF GraphJob
<1>5. ReadInv' /\ HashedInv'
  BY <1>4 DEF ReadInv, HashedInv
<1> QED
  BY <1>2, <1>3, <1>4, <1>5, BuilderGoes
     DEF HashGraph, GraphBuildInv, GraphBuildTypeOK

(* An edit of the content: what was as listed and still is, was not edited.*)
LEMMA ContentKeeps ==
    ASSUME GraphBuildInv, ContentStep, UNCHANGED graphBuildVars
    PROVE  GraphBuildInv'
<1>1. /\ content' \in [Dirs -> Listing] /\ clock' \in 1..MaxClock /\ clock <= clock'
      /\ \A n \in Names :
            \/ content'[Base][n] = content[Base][n]
            \/ content'[Base][n] = 0
            \/ content'[Base][n] = clock' /\ clock' > clock
  BY ContentTyped, ContentAssumption DEF GraphBuildInv
<1>2. /\ clock' \in Nat /\ clock \in Nat
      /\ \A n \in Names : content[Base][n] \in Nat /\ gjob.graph.listed[n] \in Nat
  BY <1>1, GraphContent, JobParts DEF Listing
<1>3. \A n \in Names : gjob.graph.listed[n] <= clock' /\ content'[Base][n] <= clock'
  BY <1>1, <1>2 DEF GraphBuildInv
<1>4. \A n \in Names :
         gjob.graph.listed[n] # 0 /\ content'[Base][n] = gjob.graph.listed[n] =>
            AsListed(n)
  BY <1>1, <1>2 DEF GraphBuildInv, AsListed
<1>5. gjob' = gjob /\ graphCache' = graphCache /\ manual' = manual /\ gbuilds' = gbuilds
  BY DEF graphBuildVars
<1>6. /\ Listed' = Listed
      /\ NodesOf(Listed \ gjob.todo)' = NodesOf(Listed \ gjob.todo)
      /\ AllLinks(Listed \ gjob.todo)' = AllLinks(Listed \ gjob.todo)
      /\ NodesOf(Listed)' = NodesOf(Listed) /\ AllLinks(Listed)' = AllLinks(Listed)
  BY <1>5 DEF Listed, NodesOf, AllLinks
<1>7. StoodStill' => StoodStill
  BY <1>4, <1>5, <1>6 DEF StoodStill, Listed, AsListed
<1>8. ReadInv'
  BY <1>5, <1>6, <1>7 DEF GraphBuildInv, ReadInv
<1>9. HashedInv'
  BY <1>5, <1>6, <1>7 DEF GraphBuildInv, HashedInv
<1> QED
  BY <1>1, <1>3, <1>5, <1>8, <1>9
     DEF GraphBuildInv, GraphBuildTypeOK, Whole

LEMMA EditManualKeeps ==
    ASSUME GraphBuildInv, NEW pairs \in ManualEdges, EditManualEdges(pairs)
    PROVE  GraphBuildInv'
<1>1. /\ clock' \in 1..MaxClock /\ clock <= clock' /\ clock' \in Nat
      /\ \A n \in Names : content[Base][n] \in Nat /\ gjob.graph.listed[n] \in Nat
  BY GraphContent, JobParts, ContentAssumption DEF EditManualEdges, GraphBuildInv, Listing
<1>2. \A n \in Names : gjob.graph.listed[n] <= clock' /\ content[Base][n] <= clock'
  BY <1>1, GraphContent DEF GraphBuildInv
<1>3. ReadInv' /\ HashedInv'
  BY DEF EditManualEdges, GraphBuildInv, ReadInv, HashedInv, StoodStill, Listed, AsListed,
         NodesOf, AllLinks
<1> QED
  BY <1>1, <1>2, <1>3 DEF EditManualEdges, GraphBuildInv, GraphBuildTypeOK, Whole

LEMMA SaveGraphKeeps == ASSUME GraphBuildInv, SaveGraphCache PROVE GraphBuildInv'
<1>1. gjob.graph \in CachedGraph /\ Whole(gjob.graph)
  BY GraphContent, JobParts DEF SaveGraphCache, GraphBuildInv
<1>2. graphCache' \subseteq graphCache \cup {gjob.graph}
  BY DEF SaveGraphCache
<1> QED
  BY <1>1, <1>2, BackToIdle DEF SaveGraphCache

LEMMA GraphBuildKeeps == GraphBuildInv /\ [GraphBuildNext]_gbVars => GraphBuildInv'
<1> SUFFICES ASSUME GraphBuildInv, [GraphBuildNext]_gbVars PROVE GraphBuildInv'
  OBVIOUS
<1>1. CASE \E skipCache \in BOOLEAN : StartGraph(skipCache)
  BY <1>1, StartGraphKeeps
<1>2. CASE GraphHit
  BY <1>2, BackToIdle DEF GraphHit
<1>3. CASE GraphMiss
  BY <1>3, GraphMissKeeps
<1>4. CASE DiscoverFiles
  BY <1>4, DiscoverKeeps
<1>5. CASE \E n \in Names : ReadNode(n) \/ ReadNodeFails(n)
  BY <1>5, ReadNodeKeeps, ReadNodeFailsKeeps
<1>6. CASE AddLinks
  BY <1>6, AddLinksKeeps
<1>7. CASE HashGraph
  BY <1>7, HashGraphKeeps
<1>8. CASE SaveGraphCache
  BY <1>8, SaveGraphKeeps
<1>9. CASE AbandonGraph
  <2>1. graphCache' \subseteq graphCache
    BY <1>9 DEF AbandonGraph
  <2> QED
    BY <1>9, <2>1, BackToIdle DEF AbandonGraph
<1>10. CASE \E pairs \in ManualEdges : EditManualEdges(pairs)
  BY <1>10, EditManualKeeps
<1>11. CASE ContentStep /\ UNCHANGED graphBuildVars
  BY <1>11, ContentKeeps
<1>12. CASE UNCHANGED gbVars
  BY <1>12 DEF gbVars, contentVars, graphBuildVars, GraphBuildInv, GraphBuildTypeOK,
               ReadInv, HashedInv, StoodStill, Listed, AsListed, NodesOf,
               AllLinks, Whole
<1> QED
  BY <1>1, <1>2, <1>3, <1>4, <1>5, <1>6, <1>7, <1>8, <1>9, <1>10, <1>11, <1>12
     DEF GraphBuildNext, GraphBuildStep

(* A graph cached under the hash of the content its files were listed from *)
(* has all of them and all the links between them, for any files, links    *)
(* and manual edges, whatever is edited while it is built and wherever     *)
(* builds are cut short (builder.rs:135-330).                              *)
THEOREM GraphWhole == GraphBuildSpec => [](GraphBuildTypeOK /\ GraphCacheIsWhole)
<1>1. ContentInit /\ GraphBuildInit => GraphBuildInv
  <2> SUFFICES ASSUME ContentInit, GraphBuildInit PROVE GraphBuildInv
    OBVIOUS
  <2> USE ContentAssumption
  <2>1. content \in [Dirs -> Listing] /\ clock \in 1..MaxClock /\ clock = 1
    <3>1. {0, 1} \subseteq 0..MaxClock
      OBVIOUS
    <3>2. [Names -> {0, 1}] \subseteq [Names -> 0..MaxClock]
      BY <3>1
    <3> QED
      BY <3>2 DEF ContentInit, Listing
  <2>2. GraphBuildTypeOK
    BY GraphBuildAssumption, IdleGraphTyped DEF GraphBuildInit, GraphBuildTypeOK
  <2>3. \A n \in Names : content[Base][n] \in {0, 1}
    BY DEF ContentInit
  <2>4. \A n \in Names : gjob.graph.listed[n] <= clock /\ content[Base][n] <= clock
    BY <2>1, <2>3, IdleGraphTyped DEF GraphBuildInit
  <2>5. ReadInv /\ HashedInv /\ gjob.pc = "idle" /\ graphCache = {}
    BY IdleGraphTyped DEF GraphBuildInit, ReadInv, HashedInv
  <2> QED
    BY <2>1, <2>2, <2>4, <2>5 DEF GraphBuildInv
<1>2. GraphBuildInv => GraphBuildTypeOK /\ GraphCacheIsWhole
  BY DEF GraphBuildInv, GraphCacheIsWhole, Whole
<1> QED
  BY <1>1, <1>2, GraphBuildKeeps, PTL DEF GraphBuildSpec, gbVars

-----------------------------------------------------------------------------
(* Keys.  Since when a key has been known to be published.                 *)

PublishedSince(kid, time) ==
    kid \in published \/ (withdrawn[kid] # -1 /\ withdrawn[kid] >= time)

(* A request that has an answer, or has stored it, is not late; what it    *)
(* asked for while it was published is in the answer, and in the cache     *)
(* until another answer overtakes it.                                      *)
CheckOK(v) ==
    LET c == check[v]
    IN  /\ c.pc \in {"answered", "again"} => c.at \in 0..now /\ now <= c.at + FetchDelay
        /\ c.steady /\ c.pc \in {"fetch", "answered", "again"} => c.kid \in published
        /\ c.pc = "answered" =>
             /\ \A kid \in c.keys : PublishedSince(kid, c.at)
             /\ c.steady => c.kid \in c.keys
        /\ c.pc = "again" /\ ~c.overtaken =>
             /\ cachedKeys.fetched_at # -1 /\ c.at <= cachedKeys.fetched_at
             /\ c.steady => c.kid \in cachedKeys.keys
        /\ online /\ c.pc = "found" =>
             c.at <= now /\ PublishedSince(c.kid, c.at - CacheTtl - FetchDelay)
        /\ online /\ c.pc = "missing" /\ c.steady => c.overtaken

CachedKeysOK ==
    /\ cachedKeys.fetched_at <= now
    /\ online /\ cachedKeys.fetched_at # -1 =>
         \A kid \in cachedKeys.keys :
            PublishedSince(kid, cachedKeys.fetched_at - FetchDelay)

WithdrawnOK ==
    \A kid \in Kids : withdrawn[kid] <= now /\ (withdrawn[kid] # -1 => kid \notin published)

KeyInv ==
    /\ KeyTypeOK /\ WithdrawnOK /\ CachedKeysOK
    /\ \A v \in Validators : CheckOK(v)

LEMMA KeyInitOK == ASSUME KeyInit PROVE KeyInv
<1> USE KeyAssumption
<1>1. KeyTypeOK
  <2>1. 0 \in 0..KeyTime /\ -1 \in -1..KeyTime /\ 0 \in -1..KeyTime
    OBVIOUS
  <2>2. check \in [Validators -> Check]
    <3> DEFINE fresh == {[pc |-> "idle", kid |-> k, keys |-> {}, at |-> -1,
                          steady |-> FALSE, overtaken |-> FALSE] : k \in Kids}
    <3>1. ASSUME NEW c \in fresh PROVE c \in Check
      <4>1. PICK k \in Kids : c = [pc |-> "idle", kid |-> k, keys |-> {}, at |-> -1,
                                   steady |-> FALSE, overtaken |-> FALSE]
        OBVIOUS
      <4>2. {} \in Keys /\ FALSE \in BOOLEAN
        BY DEF Keys
      <4>3. ASSUME NEW keys \in Keys, NEW b \in BOOLEAN, NEW at \in -1..KeyTime
            PROVE  [pc |-> "idle", kid |-> k, keys |-> keys, at |-> at,
                    steady |-> b, overtaken |-> b] \in Check
        BY DEF Check
      <4> QED BY <2>1, <4>1, <4>2, <4>3
    <3>2. check \in [Validators -> fresh]
      BY DEF KeyInit
    <3> HIDE DEF fresh
    <3> QED BY <3>1, <3>2
  <2>3. cachedKeys \in [keys: Keys, fetched_at: -1..KeyTime]
    BY <2>1 DEF KeyInit, Keys
  <2> QED BY <2>1, <2>2, <2>3 DEF KeyInit, KeyTypeOK
<1>2. WithdrawnOK /\ CachedKeysOK
  BY DEF KeyInit, WithdrawnOK, CachedKeysOK
<1>3. ASSUME NEW v \in Validators PROVE CheckOK(v)
  <2>1. check[v].pc = "idle"
    BY DEF KeyInit
  <2> QED BY <2>1 DEF CheckOK
<1> QED BY <1>1, <1>2, <1>3 DEF KeyInv

(* A step of one request leaves the keys and the other requests alone.     *)
LEMMA OneCheck ==
    ASSUME KeyInv, NEW v \in Validators, NEW c \in Check,
           check' = [check EXCEPT ![v] = c],
           UNCHANGED <<online, now, published, withdrawn, cachedKeys>>,
           CheckOK(v)'
    PROVE  KeyInv'
<1>1. check' \in [Validators -> Check]
  BY DEF KeyInv, KeyTypeOK
<1>2. ASSUME NEW w \in Validators, w # v PROVE CheckOK(w)'
  <2>1. check'[w] = check[w]
    BY <1>2 DEF KeyInv, KeyTypeOK
  <2>2. CheckOK(w)
    BY DEF KeyInv
  <2> QED BY <2>1, <2>2 DEF CheckOK, PublishedSince
<1> QED BY <1>1, <1>2 DEF KeyInv, KeyTypeOK, WithdrawnOK, CachedKeysOK, PublishedSince

LEMMA CacheAnswers ==
    ASSUME KeyInv, NEW kid \in Kids, InCache(kid), online
    PROVE  PublishedSince(kid, now - CacheTtl - FetchDelay)
<1>1. /\ cachedKeys.fetched_at # -1 /\ now - cachedKeys.fetched_at <= CacheTtl
      /\ kid \in cachedKeys.keys
  BY DEF InCache
<1>2. cachedKeys.fetched_at \in Int /\ now \in Int /\ withdrawn[kid] \in Int
  BY DEF KeyInv, KeyTypeOK
<1>3. PublishedSince(kid, cachedKeys.fetched_at - FetchDelay)
  BY <1>1 DEF KeyInv, CachedKeysOK
<1> QED BY <1>1, <1>2, <1>3, KeyAssumption DEF PublishedSince

LEMMA KeyStepOK ==
    ASSUME KeyInv, [KeyStep]_keyVars
    PROVE  KeyInv'
<1> USE KeyAssumption
<1>0. /\ now \in 0..KeyTime /\ check \in [Validators -> Check] /\ published \subseteq Kids
      /\ cachedKeys \in [keys: SUBSET Kids, fetched_at: -1..KeyTime]
      /\ withdrawn \in [Kids -> -1..KeyTime]
      /\ \A v \in Validators : CheckOK(v)
  BY DEF KeyInv, KeyTypeOK, Keys
<1>1. ASSUME NEW v \in Validators, FirstLookup(v) PROVE KeyInv'
  <2>1. /\ check[v] \in Check /\ check[v].pc = "idle"
        /\ UNCHANGED <<online, now, published, withdrawn, cachedKeys>>
    BY <1>0, <1>1 DEF FirstLookup
  <2>2. CASE InCache(check[v].kid)
    <3> DEFINE c == [check[v] EXCEPT !.pc = "found", !.at = now]
    <3>1. c \in Check /\ c.pc = "found" /\ c.at = now /\ c.kid = check[v].kid /\ c.kid \in Kids
      <4>1. now \in -1..KeyTime /\ check[v].kid \in Kids
        BY <1>0, <2>1 DEF Check
      <4> QED BY <2>1, <4>1 DEF Check
    <3>2. check' = [check EXCEPT ![v] = c]
      BY <1>1, <2>2 DEF FirstLookup
    <3>3. online => PublishedSince(c.kid, now - CacheTtl - FetchDelay)
      BY <2>2, <3>1, CacheAnswers
    <3> HIDE DEF c
    <3>4. check'[v] = c
      BY <1>0, <3>2
    <3>5. CheckOK(v)'
      BY <1>0, <2>1, <3>1, <3>3, <3>4 DEF CheckOK, PublishedSince
    <3> QED BY <2>1, <3>1, <3>2, <3>5, OneCheck
  <2>3. CASE ~InCache(check[v].kid) /\ online
    <3> DEFINE c == [check[v] EXCEPT !.pc = "fetch", !.steady = check[v].kid \in published]
    <3>1. c \in Check /\ c.pc = "fetch" /\ (c.steady => c.kid \in published)
      <4> DEFINE steady == check[v].kid \in published
      <4>1. steady \in BOOLEAN
        OBVIOUS
      <4>2. ASSUME NEW b \in BOOLEAN
            PROVE  LET d == [check[v] EXCEPT !.pc = "fetch", !.steady = b]
                   IN  d \in Check /\ d.pc = "fetch" /\ d.kid = check[v].kid /\ d.steady = b
        BY <2>1 DEF Check
      <4> HIDE DEF steady
      <4>3. LET d == [check[v] EXCEPT !.pc = "fetch", !.steady = steady]
            IN  d \in Check /\ d.pc = "fetch" /\ d.kid = check[v].kid /\ d.steady = steady
        BY <4>1, <4>2
      <4> QED BY <4>3 DEF steady
    <3>2. check' = [check EXCEPT ![v] = c]
      BY <1>1, <2>3 DEF FirstLookup
    <3> HIDE DEF c
    <3>3. check'[v] = c
      BY <1>0, <3>2
    <3>4. CheckOK(v)'
      BY <2>1, <3>1, <3>3 DEF CheckOK
    <3> QED BY <2>1, <3>1, <3>2, <3>4, OneCheck
  <2>4. CASE ~InCache(check[v].kid) /\ ~online
    <3> DEFINE c == [check[v] EXCEPT !.pc = "missing", !.at = now]
    <3>1. c \in Check /\ c.pc = "missing"
      <4>1. now \in -1..KeyTime
        BY <1>0
      <4> QED BY <2>1, <4>1 DEF Check
    <3>2. check' = [check EXCEPT ![v] = c]
      BY <1>1, <2>4 DEF FirstLookup
    <3> HIDE DEF c
    <3>3. check'[v] = c
      BY <1>0, <3>2
    <3>4. CheckOK(v)'
      BY <2>1, <2>4, <3>1, <3>3 DEF CheckOK
    <3> QED BY <2>1, <3>1, <3>2, <3>4, OneCheck
  <2> QED BY <1>0, <2>2, <2>3, <2>4 DEF KeyInv, KeyTypeOK
<1>2. ASSUME NEW v \in Validators, Answer(v) PROVE KeyInv'
  <2> DEFINE d == [check[v] EXCEPT !.pc = "answered", !.at = now]
             c == [check[v] EXCEPT !.pc = "answered", !.keys = published, !.at = now]
  <2>0. /\ d \in Check /\ d.pc = "answered" /\ d.at = now
        /\ d.kid = check[v].kid /\ d.steady = check[v].steady
    <3>1. now \in -1..KeyTime /\ check[v] \in Check
      BY <1>0
    <3> QED BY <3>1 DEF Check
  <2>1. /\ c \in Check /\ c.pc = "answered" /\ c.keys = published /\ c.at = now
        /\ c.kid = check[v].kid /\ c.steady = check[v].steady
    <3>1. c = [d EXCEPT !.keys = published] /\ published \in Keys
      BY <1>0 DEF Check, Keys
    <3> HIDE DEF c, d
    <3> QED BY <2>0, <3>1 DEF Check
  <2>2. /\ check' = [check EXCEPT ![v] = c] /\ check[v].pc = "fetch"
        /\ UNCHANGED <<online, now, published, withdrawn, cachedKeys>>
    BY <1>2 DEF Answer
  <2>3. check[v].steady => check[v].kid \in published
    BY <1>0, <2>2 DEF CheckOK
  <2> HIDE DEF c, d
  <2>4. check'[v] = c
    BY <1>0, <2>2
  <2>5. CheckOK(v)'
    BY <1>0, <2>1, <2>2, <2>3, <2>4 DEF CheckOK, PublishedSince
  <2> QED BY <2>1, <2>2, <2>5, OneCheck
<1>3. ASSUME NEW v \in Validators, FetchFails(v) PROVE KeyInv'
  <2> DEFINE c == [check[v] EXCEPT !.pc = "error", !.steady = FALSE]
  <2>1. c \in Check /\ c.pc = "error"
    BY <1>0 DEF Check
  <2>2. /\ check' = [check EXCEPT ![v] = c]
        /\ UNCHANGED <<online, now, published, withdrawn, cachedKeys>>
    BY <1>3 DEF FetchFails
  <2> HIDE DEF c
  <2>3. check'[v] = c
    BY <1>0, <2>2
  <2>4. CheckOK(v)'
    BY <2>1, <2>3 DEF CheckOK
  <2> QED BY <2>1, <2>2, <2>4, OneCheck
<1>4. ASSUME NEW v \in Validators, StoreKeys(v) PROVE KeyInv'
  <2>1. /\ check[v].pc = "answered" /\ check[v] \in Check
        /\ cachedKeys' = [keys |-> check[v].keys, fetched_at |-> now]
        /\ UNCHANGED <<online, now, published, withdrawn>>
    BY <1>0, <1>4 DEF StoreKeys
  <2>2. /\ check[v].at \in 0..now /\ now <= check[v].at + FetchDelay
        /\ check[v].steady => check[v].kid \in published /\ check[v].kid \in check[v].keys
        /\ \A kid \in check[v].keys : PublishedSince(kid, check[v].at)
    BY <1>0, <2>1 DEF CheckOK
  <2>3. cachedKeys' \in [keys: Keys, fetched_at: -1..KeyTime]
    BY <1>0, <2>1 DEF Check
  <2>4. CachedKeysOK'
    <3>1. \A kid \in check[v].keys : withdrawn[kid] \in Int
      BY <1>0, <2>1 DEF Check, Keys
    <3> QED BY <1>0, <2>1, <2>2, <3>1 DEF CachedKeysOK, PublishedSince
  <2>5. ASSUME NEW w \in Validators PROVE check'[w] \in Check /\ CheckOK(w)'
    <3>1. check[w] \in Check /\ CheckOK(w)
      BY <1>0
    <3>2. CASE w = v
      <4>1. check'[w] = [check[v] EXCEPT !.pc = "again", !.keys = {}]
        BY <1>4, <3>2 DEF StoreKeys
      <4>2. /\ check'[w] \in Check /\ check'[w].pc = "again" /\ check'[w].at = check[v].at
            /\ check'[w].steady = check[v].steady /\ check'[w].kid = check[v].kid
        BY <2>1, <4>1 DEF Check, Keys
      <4> QED BY <1>0, <2>1, <2>2, <4>2 DEF CheckOK
    <3>3. CASE w # v /\ check[w].pc = "again"
      <4>1. check'[w] = [check[w] EXCEPT !.overtaken = TRUE]
        BY <1>4, <3>3 DEF StoreKeys
      <4>2. /\ check'[w] \in Check /\ check'[w].pc = "again" /\ check'[w].at = check[w].at
            /\ check'[w].steady = check[w].steady /\ check'[w].kid = check[w].kid
            /\ check'[w].overtaken
        BY <3>1, <3>3, <4>1 DEF Check
      <4> QED BY <2>1, <3>1, <3>3, <4>2 DEF CheckOK
    <3>4. CASE w # v /\ check[w].pc # "again"
      <4>1. check'[w] = check[w]
        BY <1>4, <3>4 DEF StoreKeys
      <4> QED BY <2>1, <3>1, <3>4, <4>1 DEF CheckOK, PublishedSince
    <3> QED BY <3>2, <3>3, <3>4
  <2>6. check' \in [Validators -> Check]
    BY <1>4, <2>5 DEF StoreKeys
  <2>7. WithdrawnOK'
    BY <2>1 DEF KeyInv, WithdrawnOK
  <2> QED BY <2>1, <2>3, <2>4, <2>5, <2>6, <2>7 DEF KeyInv, KeyTypeOK
<1>5. ASSUME NEW v \in Validators, SecondLookup(v) PROVE KeyInv'
  <2>1. /\ check[v] \in Check /\ check[v].pc = "again"
        /\ UNCHANGED <<online, now, published, withdrawn, cachedKeys>>
    BY <1>0, <1>5 DEF SecondLookup
  <2>2. CASE InCache(check[v].kid)
    <3> DEFINE c == [check[v] EXCEPT !.pc = "found", !.at = now]
    <3>1. c \in Check /\ c.pc = "found" /\ c.at = now /\ c.kid = check[v].kid /\ c.kid \in Kids
      <4>1. now \in -1..KeyTime /\ check[v].kid \in Kids
        BY <1>0, <2>1 DEF Check
      <4> QED BY <2>1, <4>1 DEF Check
    <3>2. check' = [check EXCEPT ![v] = c]
      BY <1>5, <2>2 DEF SecondLookup
    <3>3. online => PublishedSince(c.kid, now - CacheTtl - FetchDelay)
      BY <2>2, <3>1, CacheAnswers
    <3> HIDE DEF c
    <3>4. check'[v] = c
      BY <1>0, <3>2
    <3>5. CheckOK(v)'
      BY <1>0, <2>1, <3>1, <3>3, <3>4 DEF CheckOK, PublishedSince
    <3> QED BY <2>1, <3>1, <3>2, <3>5, OneCheck
  <2>3. CASE ~InCache(check[v].kid)
    <3> DEFINE c == [check[v] EXCEPT !.pc = "missing", !.at = now]
    <3>1. /\ c \in Check /\ c.pc = "missing" /\ c.steady = check[v].steady
          /\ c.overtaken = check[v].overtaken
      <4>1. now \in -1..KeyTime
        BY <1>0
      <4> QED BY <2>1, <4>1 DEF Check
    <3>2. check' = [check EXCEPT ![v] = c]
      BY <1>5, <2>3 DEF SecondLookup
    <3>3. check[v].steady => check[v].overtaken
      <4>1. CheckOK(v)
        BY <1>0
      <4>2. check[v].at \in 0..now /\ now <= check[v].at + FetchDelay
        BY <2>1, <4>1 DEF CheckOK
      <4>3. ASSUME check[v].steady, ~check[v].overtaken PROVE FALSE
        <5>1. /\ cachedKeys.fetched_at # -1 /\ check[v].at <= cachedKeys.fetched_at
              /\ check[v].kid \in cachedKeys.keys
          BY <2>1, <4>1, <4>3 DEF CheckOK
        <5>2. now - cachedKeys.fetched_at <= CacheTtl
          BY <1>0, <4>2, <5>1
        <5> QED BY <2>3, <5>1, <5>2 DEF InCache
      <4> QED BY <4>3
    <3> HIDE DEF c
    <3>4. check'[v] = c
      BY <1>0, <3>2
    <3>5. CheckOK(v)'
      BY <2>1, <3>1, <3>3, <3>4 DEF CheckOK
    <3> QED BY <2>1, <3>1, <3>2, <3>5, OneCheck
  <2> QED BY <2>2, <2>3
<1>6. ASSUME NEW keys \in Keys, Rotate(keys) PROVE KeyInv'
  <2>1. /\ published' = keys /\ keys \subseteq Kids /\ \A k \in keys : withdrawn[k] = -1
        /\ withdrawn' = [k \in Kids |-> IF k \in published \ keys THEN now ELSE withdrawn[k]]
        /\ UNCHANGED <<online, now, cachedKeys>>
    BY <1>6 DEF Rotate, Keys
  <2>2. ASSUME NEW kid \in Kids, NEW time \in Int, time <= now, PublishedSince(kid, time)
        PROVE  kid \in published' \/ (withdrawn'[kid] # -1 /\ withdrawn'[kid] >= time)
    BY <1>0, <2>1, <2>2 DEF PublishedSince
  <2>3. WithdrawnOK' /\ withdrawn' \in [Kids -> -1..KeyTime]
    BY <1>0, <2>1 DEF KeyInv, WithdrawnOK
  <2>4. CachedKeysOK'
    <3>1. ASSUME online, cachedKeys.fetched_at # -1, NEW kid \in cachedKeys.keys
          PROVE  \/ kid \in published'
                 \/ /\ withdrawn'[kid] # -1
                    /\ withdrawn'[kid] >= cachedKeys.fetched_at - FetchDelay
      <4>1. kid \in Kids /\ cachedKeys.fetched_at - FetchDelay \in Int
            /\ cachedKeys.fetched_at - FetchDelay <= now
        BY <1>0 DEF KeyInv, CachedKeysOK
      <4>2. PublishedSince(kid, cachedKeys.fetched_at - FetchDelay)
        BY <3>1 DEF KeyInv, CachedKeysOK
      <4> DEFINE time == cachedKeys.fetched_at - FetchDelay
      <4> HIDE DEF time
      <4>3. time \in Int /\ time <= now /\ PublishedSince(kid, time)
        BY <4>1, <4>2 DEF time
      <4>4. kid \in published' \/ (withdrawn'[kid] # -1 /\ withdrawn'[kid] >= time)
        BY <2>2, <4>1, <4>3
      <4> QED BY <4>4 DEF time
    <3> QED BY <2>1, <3>1 DEF KeyInv, CachedKeysOK, PublishedSince
  <2>5. ASSUME NEW v \in Validators PROVE check'[v] \in Check /\ CheckOK(v)'
    <3>1. check[v] \in Check /\ CheckOK(v)
      BY <1>0
    <3>2. check'[v] = [check[v] EXCEPT !.steady = @ /\
             (check[v].kid \in keys \/ check[v].pc \notin {"fetch", "answered", "again"})]
      BY <1>6 DEF Rotate
    <3>3. /\ check'[v] \in Check
          /\ check'[v].pc = check[v].pc /\ check'[v].kid = check[v].kid
          /\ check'[v].keys = check[v].keys /\ check'[v].at = check[v].at
          /\ check'[v].overtaken = check[v].overtaken
          /\ check'[v].steady => check[v].steady
          /\ check'[v].steady /\ check[v].pc \in {"fetch", "answered", "again"} =>
                check[v].kid \in keys
      BY <3>1, <3>2 DEF Check
    <3>4. check[v].kid \in Kids /\ check[v].keys \subseteq Kids /\ check[v].at \in Int
      BY <3>1 DEF Check, Keys
    <3>5. check[v].pc = "answered" =>
             \A kid \in check[v].keys :
                kid \in published' \/ (withdrawn'[kid] # -1 /\ withdrawn'[kid] >= check[v].at)
      BY <1>0, <2>2, <3>1, <3>4 DEF CheckOK
    <3>6. online /\ check[v].pc = "found" =>
             \/ check[v].kid \in published'
             \/ /\ withdrawn'[check[v].kid] # -1
                /\ withdrawn'[check[v].kid] >= check[v].at - CacheTtl - FetchDelay
      BY <1>0, <2>2, <3>1, <3>4 DEF CheckOK
    <3> QED BY <2>1, <3>1, <3>3, <3>5, <3>6 DEF CheckOK, PublishedSince
  <2>6. check' \in [Validators -> Check]
    BY <1>6, <2>5 DEF Rotate
  <2> QED BY <2>1, <2>3, <2>4, <2>5, <2>6 DEF KeyInv, KeyTypeOK, Keys
<1>7. CASE PassTime
  <2>1. /\ now' = now + 1 /\ now' \in 0..KeyTime
        /\ UNCHANGED <<online, published, withdrawn, cachedKeys, check>>
        /\ \A v \in Validators : check[v].pc \in {"answered", "again"} =>
              now < check[v].at + FetchDelay
    BY <1>0, <1>7 DEF PassTime
  <2>2. WithdrawnOK' /\ CachedKeysOK'
    BY <1>0, <2>1 DEF KeyInv, WithdrawnOK, CachedKeysOK, PublishedSince
  <2>3. ASSUME NEW v \in Validators PROVE CheckOK(v)'
    <3>1. check[v] \in Check /\ CheckOK(v)
      BY <1>0
    <3>2. check[v].at \in Int
      BY <3>1 DEF Check
    <3> QED BY <1>0, <2>1, <3>1, <3>2 DEF CheckOK, PublishedSince
  <2> QED BY <2>1, <2>2, <2>3 DEF KeyInv, KeyTypeOK
<1>8. CASE UNCHANGED keyVars
  BY <1>8 DEF keyVars, KeyInv, KeyTypeOK, WithdrawnOK, CachedKeysOK, CheckOK, PublishedSince
<1> QED
  BY <1>1, <1>2, <1>3, <1>4, <1>5, <1>6, <1>7, <1>8 DEF KeyStep

(* Whatever requests fetch at once and in whatever order their answers are *)
(* stored, no key is trusted for longer after it was withdrawn than the    *)
(* cache lives and an answer takes, and a key that is published all the    *)
(* while is only missed when another answer overtook (lib.rs:226-283).     *)
THEOREM KeysStayCurrent == KeySpec => [](KeyTypeOK /\ KeysAreCurrent)
<1>1. KeyInit => KeyInv
  BY KeyInitOK
<1>2. KeyInv /\ [KeyStep]_keyVars => KeyInv'
  BY KeyStepOK
<1>3. KeyInv => KeysAreCurrent
  <2> SUFFICES ASSUME KeyInv, NEW v \in Validators
               PROVE  /\ online /\ check[v].pc = "found" =>
                           \/ check[v].kid \in published
                           \/ check[v].at <= withdrawn[check[v].kid] + CacheTtl + FetchDelay
                      /\ online /\ check[v].pc = "missing" /\ check[v].steady =>
                           check[v].overtaken
    BY DEF KeysAreCurrent, FoundWasPublished, MissingForAReason
  <2>1. CheckOK(v) /\ check[v].at \in Int /\ withdrawn[check[v].kid] \in Int
    BY DEF KeyInv, KeyTypeOK, Check
  <2> QED BY <2>1, KeyAssumption DEF CheckOK, PublishedSince
<1>4. KeyInv => KeyTypeOK
  BY DEF KeyInv
<1> QED BY <1>1, <1>2, <1>3, <1>4, PTL DEF KeySpec

-----------------------------------------------------------------------------
(* What a server answers from.  Its parts share the content and nothing    *)
(* else, which no builder writes; but an edit of the manual edges takes    *)
(* from the same bound on the edits.                                       *)

Tick == content' = content /\ clock' = clock + 1 /\ clock < MaxClock

LEMMA BuildersLeaveContent ==
    /\ FtsStep \/ VectorStep => UNCHANGED contentVars
    /\ GraphBuildStep => UNCHANGED contentVars \/ Tick
<1>1. FtsStep => UNCHANGED contentVars
  BY DEF FtsStep, BuilderStep, StartBuilder, Skip, OpenWriter, Locked, FindFiles,
         Rehash, ReadFile, FileFails, FinalCommit, SaveMetadata, SaveAppend, Abandon
<1>2. VectorStep => UNCHANGED contentVars
  BY DEF VectorStep, StartVector, CacheHit, CacheMiss, Discover, ExtractFile,
         ExtractFails, EmbedAndHash, SaveCache, AbandonVector
<1>3. GraphBuildStep => UNCHANGED contentVars \/ Tick
  <2>1. (\E skipCache \in BOOLEAN : StartGraph(skipCache)) \/ GraphHit \/ GraphMiss
        \/ DiscoverFiles => UNCHANGED contentVars
    BY DEF StartGraph, GraphHit, GraphMiss, DiscoverFiles
  <2>2. (\E n \in Names : ReadNode(n) \/ ReadNodeFails(n)) => UNCHANGED contentVars
    BY DEF ReadNode, ReadNodeFails
  <2>3. AddLinks \/ HashGraph \/ SaveGraphCache \/ AbandonGraph => UNCHANGED contentVars
    BY DEF AddLinks, HashGraph, SaveGraphCache, AbandonGraph
  <2>4. (\E pairs \in ManualEdges : EditManualEdges(pairs)) => Tick
    BY DEF EditManualEdges, Tick
  <2> QED BY <2>1, <2>2, <2>3, <2>4 DEF GraphBuildStep
<1> QED BY <1>1, <1>2, <1>3

LEMMA FtsTick == FtsInv /\ Tick /\ UNCHANGED ftsVars => FtsInv'
<1> SUFFICES ASSUME FtsInv, Tick, UNCHANGED ftsVars PROVE FtsInv'
  OBVIOUS
<1>1. FtsTypeOK'
  BY ContentAssumption DEF FtsInv, FtsTypeOK, Tick, ftsVars
<1>2. LockInv'
  BY DEF FtsInv, LockInv, Working, IsBuild, ftsVars
<1>3. HashInv'
  <2>1. clock \in Nat /\ clock' = clock + 1
    BY ContentAssumption DEF FtsInv, FtsTypeOK, Tick
  <2>2. \A k \in Nat : k <= clock => k <= clock'
    BY <2>1
  <2>3. /\ \A d \in Dirs, n \in Names : content[d][n] \in Nat
        /\ \A b \in Builders, n \in Names : job[b].hash[n] \in Nat
        /\ \A m \in meta, n \in Names : m.hash[n] \in Nat
    BY DEF FtsInv, FtsTypeOK, Listing, Job
  <2> QED BY <2>2, <2>3 DEF FtsInv, HashInv, Tick, ftsVars
<1>4. IndexInv'
  <2>1. \A c \in Builders : \A d \in job[c].staged :
           job'[c] = job[c] /\ Building(c)' => d \in Doc /\ d.dir = Base
    BY DEF FtsInv, FtsTypeOK, LockInv, Job, Building, Working, IsBuild, ftsVars
  <2> QED BY <2>1, Undisturbed DEF FtsInv, Tick, ftsVars
<1> QED BY <1>1, <1>2, <1>3, <1>4 DEF FtsInv

LEMMA VectorTick == VectorInv /\ Tick /\ UNCHANGED vectorVars => VectorInv'
<1> SUFFICES ASSUME VectorInv, Tick, UNCHANGED vectorVars PROVE VectorInv'
  OBVIOUS
<1>1. clock' \in 1..MaxClock /\ clock \in Nat /\ clock' = clock + 1
  BY ContentAssumption DEF VectorInv, Tick
<1>2. \A n \in Names : vjob.listed[n] \in Nat /\ content[Base][n] \in Nat
  BY ContentAssumption DEF VectorInv, VectorTypeOK, VectorJob, Listing
<1>3. \A n \in Names : vjob.listed[n] <= clock' /\ content[Base][n] <= clock'
  BY <1>1, <1>2 DEF VectorInv
<1> QED
  BY <1>1, <1>3
  DEF VectorInv, VectorTypeOK, ExtractInv, CacheIsWhole, Tick, vectorVars

LEMMA ServedSteps ==
    [Next]_allVars =>
       /\ [FtsNext]_indexVars \/ (Tick /\ UNCHANGED ftsVars)
       /\ [VectorNext]_vecVars \/ (Tick /\ UNCHANGED vectorVars)
       /\ [GraphBuildNext]_gbVars
       /\ [GraphStep]_graphVars
       /\ [KeyStep]_keyVars
BY BuildersLeaveContent
DEF Next, allVars, buildVars, indexVars, vecVars, gbVars, FtsNext, VectorNext,
    GraphBuildNext

(* Whatever of them a server is asked for, everything that it keeps has    *)
(* its type, and every part keeps all its promises (fabryk-fts, -vector,   *)
(* -graph and -auth-google).                                               *)
THEOREM ServedIsRight ==
    Spec => [](/\ TypeOK
               /\ BaseIndexedOnce /\ FreshIndexIsWhole /\ CacheIsWhole
               /\ GraphCacheIsWhole /\ ViewsAgree /\ PathCanBeFollowed
               /\ AnswersAreRight /\ KeysAreCurrent)
<1>1. Init => ContentInit /\ FtsInit /\ VectorInit /\ GraphBuildInit /\ GraphInit /\ KeyInit
  BY DEF Init
<1>2. Spec => [](FtsInv /\ VectorInv)
  <2>1. FtsInv /\ [Next]_allVars => FtsInv'
    BY ServedSteps, FtsKeeps, FtsTick
  <2>2. VectorInv /\ [Next]_allVars => VectorInv'
    BY ServedSteps, VectorStepKeeps, VectorTick
  <2> QED BY <1>1, <2>1, <2>2, FtsStarts, VectorStarts, PTL DEF Spec
<1>3. FtsInv /\ VectorInv => /\ FtsTypeOK /\ BaseIndexedOnce /\ FreshIndexIsWhole
                             /\ VectorTypeOK /\ CacheIsWhole
  BY FtsPromises DEF FtsInv, VectorInv
<1>4. Spec => GraphBuildSpec /\ GraphSpec /\ KeySpec
  BY <1>1, ServedSteps, PTL DEF Spec, GraphBuildSpec, GraphSpec, KeySpec, gbVars
<1> QED
  BY <1>2, <1>3, <1>4, GraphWhole, GraphViewsAgree, PathsCanBeFollowed, AnswersRight,
     KeysStayCurrent, PTL
  DEF TypeOK
=============================================================================
