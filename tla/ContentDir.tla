------------------------------ MODULE ContentDir ------------------------------
(***************************************************************************)
(* The content directories that Fabryk indexes, edited by anyone at any    *)
(* time.  A file is its version: the second it was modified in, in which   *)
(* it is not modified twice.                                               *)
(***************************************************************************)
EXTENDS Naturals, FiniteSets

CONSTANTS
    Dirs,       \* content directories
    Base,       \* the one the index is built from; the others are appended
    Names,      \* relative file paths with a supported extension
    MaxClock    \* bound: versions are 1..MaxClock

ASSUME ContentAssumption ==
    Base \in Dirs /\ IsFiniteSet(Names) /\ MaxClock \in Nat \ {0}

VARIABLES
    content,    \* the version of each file, 0 where there is none
    clock

contentVars == <<content, clock>>

Listing == [Names -> 0..MaxClock]
Doc == [dir: Dirs, name: Names, version: 1..MaxClock]
DocOf(d, n, listing) == [dir |-> d, name |-> n, version |-> listing[n]]

Present(d) == {n \in Names : content[d][n] # 0}

(* compute_hash and compute_content_hash: what they hash.                  *)
HashOf(d) == content[d]

ContentInit ==
    /\ clock = 1
    /\ content \in [Dirs -> [Names -> {0, 1}]]

(* A file is created or modified.                                          *)
Edit(d, n) ==
    /\ clock < MaxClock
    /\ clock' = clock + 1
    /\ content' = [content EXCEPT ![d][n] = clock + 1]

Remove(d, n) ==
    /\ n \in Present(d)
    /\ content' = [content EXCEPT ![d][n] = 0]
    /\ UNCHANGED clock

ContentStep == \E d \in Dirs, n \in Names : Edit(d, n) \/ Remove(d, n)
=============================================================================
