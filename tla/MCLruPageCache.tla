--------------------------- MODULE MCLruPageCache ----------------------------
(***************************************************************************)
(* Instances of the page cache for TLC.  The main run has two parts, of    *)
(* which each behaviour shows one: "shard", the threads that read, and     *)
(* "ids", the table of file ids.                                           *)
(***************************************************************************)
EXTENDS LruPageCache, PermanentId

VARIABLE part

MCInit == /\ Init /\ IdInit
          /\ \/ part = "shard"
             \/ part = "ids" /\ conf = CHOOSE x \in Caches : TRUE

MCNext == /\ \/ part = "shard" /\ Next /\ UNCHANGED idVars
             \/ part = "ids" /\ IdNext /\ UNCHANGED vars
          /\ UNCHANGED part

\* A thread inside pread keeps running: it reads, or polls with yield.
MCSpec ==
    /\ MCInit /\ [][MCNext]_<<vars, idVars, part>>
    /\ \A t \in Thread : WF_vars(part = "shard" /\ ReadStep(t) /\ UNCHANGED <<idVars, part>>)

\* The page n of file f.
K(f, n) == <<f, n>>

MainCaches ==
    { \* Overlapping reads across pages of file 1, and reads within a page of files
      \* 1, 2 and 3: two threads pin at most three pages at a time.
      [m_page_num |-> 3, MayClose |-> {1, 2},
       Reads |-> {<<K(1, 0), K(1, 1)>>, <<K(1, 1)>>, <<K(2, 0)>>, <<K(3, 0)>>}],
      \* Reads across pages that overlap in both directions.
      [m_page_num |-> 3, MayClose |-> {},
       Reads |-> {<<K(1, 0), K(1, 1)>>, <<K(1, 1), K(1, 2)>>, <<K(1, 1)>>,
                  <<K(1, 0), K(1, 1), K(1, 2)>>}],
      \* Reads that need more pages than the cache has.
      [m_page_num |-> 2, MayClose |-> {},
       Reads |-> {<<K(1, 0)>>, <<K(1, 0), K(1, 1)>>, <<K(2, 0)>>, <<K(2, 0), K(2, 1)>>}] }

SmallCache == {[m_page_num |-> 2, MayClose |-> {}, Reads |-> {<<K(1, 0), K(1, 1)>>}]}
=============================================================================
