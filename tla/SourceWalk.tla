------------------------------- MODULE SourceWalk -------------------------------
(***************************************************************************)
(* How the source adapters enumerate (ecl-adapter-gdrive, -fs, -gcs,       *)
(* -sftp, -slack) while others move, add and remove entries: folder by     *)
(* folder, page by page, under one token, the first error ending it all.   *)
(* A folder is a Drive folder, a directory, a bucket's prefix or a channel.*)
(***************************************************************************)
EXTENDS Naturals, Sequences, FiniteSets

CONSTANTS
    Folders, Files,
    Adapters,       \* the kinds of adapter to look at
    Roots,          \* the sequence of configured folders
    Rules,          \* the filter rules in their order
    PageSize,       \* most entries in one answer
    MaxMoved        \* bound on the entries that others move

Nowhere == "nowhere"

(* A rule matches some files, and includes or excludes them.               *)
Rule == [matches: SUBSET Files, include: BOOLEAN]

ASSUME WalkAssumption ==
    /\ IsFiniteSet(Folders) /\ IsFiniteSet(Files) /\ Folders \cap Files = {}
    /\ Nowhere \notin Folders \cup Files
    /\ Adapters \subseteq {"google_drive", "filesystem", "gcs", "sftp", "slack"}
    /\ Roots \in Seq(Folders) \ {<<>>} /\ Rules \in Seq(Rule)
    /\ PageSize \in Nat \ {0} /\ MaxMoved \in Nat

VARIABLES
    adapter,    \* which adapter enumerates
    place,      \* the folder an entry is in, if in any
    moved,      \* history: the entries moved since the enumeration began
    walk,       \* enumerate: the folder being listed, and those to come
    listed      \* how often a file is in the list of items

walkVars == <<adapter, place, moved, walk, listed>>

Entries == Folders \cup Files

Inside(folder) == {e \in Entries : place[e] = folder}

(* Whether folders met on the way are listed too.                          *)
Recursive == adapter \in {"google_drive", "filesystem"}

(* The last rule that matches a file decides; a file no rule matches is    *)
(* included.  With gcs and sftp there is one pattern, with slack none.     *)
Included(f) ==
    LET matching == {i \in 1..Len(Rules) : f \in Rules[i].matches}
    IN  matching # {} =>
          Rules[CHOOSE i \in matching : \A j \in matching : j <= i].include

(* Listing a folder: what was in it then, and what answers have held.      *)
Walk == [pc: {"take", "list", "done", "failed"}, queue: [Folders -> Nat],
         folder: Folders \cup {Nowhere}, present: SUBSET Entries, seen: SUBSET Entries]

(* The other adapters are configured with one folder.                      *)
RootSet == IF adapter \in {"google_drive", "slack"} THEN 1..Len(Roots) ELSE {1}
TimesRoot(folder) == Cardinality({i \in RootSet : Roots[i] = folder})

(* The entry, and the folders it is in: the least set that has it and the  *)
(* folder that any of its members is in.                                   *)
Closed(S) == \A x \in S : place[x] \in S \cup {Nowhere}
Chain(e) == {x \in Entries : \A S \in SUBSET Entries : e \in S /\ Closed(S) => x \in S}

(* The sources form a tree.                                                *)
Tree == \A d \in Folders : place[d] # Nowhere => d \notin Chain(place[d])

WalkInit ==
    /\ adapter \in Adapters
    /\ place \in [Entries -> Folders \cup {Nowhere}] /\ Tree
    /\ moved = {}
    /\ walk = [pc |-> "take", queue |-> [d \in Folders |-> TimesRoot(d)],
               folder |-> Nowhere, present |-> {}, seen |-> {}]
    /\ listed = [f \in Files |-> 0]

(* The queue is first in, first out; any folder of it may be next here.    *)
TakeFolder(d) ==
    /\ walk.pc = "take" /\ walk.queue[d] > 0
    /\ walk' = [walk EXCEPT !.pc = "list", !.queue[d] = @ - 1, !.folder = d,
                            !.present = Inside(d), !.seen = {}]
    /\ UNCHANGED <<adapter, place, moved, listed>>

(* What an answer adds: folders to the queue, the other entries that the   *)
(* filters let through to the items.                                       *)
Queued(page) ==
    [d \in Folders |-> walk.queue[d] + (IF Recursive /\ d \in page THEN 1 ELSE 0)]
Accepted(page) ==
    [f \in Files |-> listed[f] + (IF f \in page /\ Included(f) THEN 1 ELSE 0)]

(* An answer holds entries that are in the folder and in no earlier answer;*)
(* it is the last one, without a token for the next page, only when every  *)
(* entry was listed that has been in the folder since the first request.   *)
(* Only Drive and GCS have pages.                                          *)
Pages == {page \in SUBSET (Inside(walk.folder) \ walk.seen) :
            adapter \in {"google_drive", "gcs"} => Cardinality(page) <= PageSize}
IsLast(page) == walk.present \cap Inside(walk.folder) \subseteq walk.seen \cup page

MutOnePage(page) ==
    /\ walk.pc = "list" /\ page \in Pages
    /\ listed' = Accepted(page)
    /\ walk' = [walk EXCEPT !.pc = "take", !.queue = Queued(page)]
    /\ UNCHANGED <<adapter, place, moved>>
NextPage(page) ==
    /\ walk.pc = "list" /\ page \in Pages
    /\ listed' = Accepted(page)
    /\ \/ walk' = [walk EXCEPT !.queue = Queued(page), !.seen = @ \cup page]
          /\ adapter \in {"google_drive", "gcs"} /\ page # {}
       \/ walk' = [walk EXCEPT !.queue = Queued(page), !.pc = "take"]
          /\ IsLast(page)
    /\ UNCHANGED <<adapter, place, moved>>

(* No answer, a refused token (it was fetched once, before the first       *)
(* request), a rate limit, or an entry that is gone when its metadata are  *)
(* read: no request is repeated, and no item is returned.                  *)
WalkFails ==
    /\ walk.pc = "list"
    /\ walk' = [walk EXCEPT !.pc = "failed"]
    /\ listed' = [f \in Files |-> 0]
    /\ UNCHANGED <<adapter, place, moved>>

WalkEnds ==
    /\ walk.pc = "take" /\ \A d \in Folders : walk.queue[d] = 0
    /\ walk' = [walk EXCEPT !.pc = "done"]
    /\ UNCHANGED <<adapter, place, moved, listed>>

(* Someone moves, adds or removes an entry.                                *)
MoveEntry(e, d) ==
    /\ walk.pc \in {"take", "list"}
    /\ Cardinality(moved) < MaxMoved /\ place[e] # d
    /\ d \in Folders => e \notin Chain(d)
    /\ place' = [place EXCEPT ![e] = d]
    /\ moved' = moved \cup {e}
    /\ UNCHANGED <<adapter, walk, listed>>

AdapterStep ==
    \/ \E d \in Folders : TakeFolder(d)
    \/ walk.pc = "list" /\ \E page \in Pages : NextPage(page)
    \/ WalkFails \/ WalkEnds
WalkStep ==
    \/ AdapterStep
    \/ \E e \in Entries, d \in Folders \cup {Nowhere} : MoveEntry(e, d)
WalkSpec == WalkInit /\ [][WalkStep]_walkVars
-----------------------------------------------------------------------------
WalkTypeOK ==
    /\ adapter \in Adapters
    /\ place \in [Entries -> Folders \cup {Nowhere}]
    /\ moved \subseteq Entries
    /\ walk \in Walk
    /\ listed \in [Files -> Nat]

(* The configured folders a file is found through.                         *)
Reached(f) ==
    {i \in RootSet :
        IF Recursive THEN Roots[i] \in Chain(f) ELSE Roots[i] = place[f]}

(* A file that nobody moved, nor any folder above it, is in the list once  *)
(* for each configured folder it lies in, whatever happens beside it: not  *)
(* once, if the folders overlap.  It is missing only if it is excluded.    *)
UndisturbedListed ==
    walk.pc = "done" =>
        \A f \in Files :
            Chain(f) \cap moved = {} =>
                listed[f] = IF Included(f) THEN Cardinality(Reached(f)) ELSE 0
=============================================================================
