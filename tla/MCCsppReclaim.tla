--------------------------- MODULE MCCsppReclaim ---------------------------
(***************************************************************************)
(* Instances of CsppReclaim for TLC.  One run has three parts, of which    *)
(* each behaviour shows one: "queue", all tokens in the queue of CsppToken *)
(* without nodes; "nodes", the tokens of Busy, which replace nodes; and    *)
(* "list", the ring that a lazy free list is made of.                      *)
(***************************************************************************)
EXTENDS CsppReclaim, AutoGrowCircularQueueMatrix, TLC

CONSTANTS t1, t2, t3, n1, n2, n3, Parts, Busy,
          NodesVerseq   \* bound on the versions in the second part

VARIABLE part

MCInit == RInit /\ MatrixInit /\ part \in Parts

MCNext ==
    /\ \/ part = "queue" /\ Next /\ UNCHANGED <<nodeVars, held, matrixVars>>
       \/ /\ part = "nodes" /\ RNext
          /\ \A t \in Token \ Busy : pc'[t] = pc[t]
          /\ dummy_verseq' <= NodesVerseq
          /\ UNCHANGED matrixVars
       \/ part = "list" /\ MatrixNext /\ UNCHANGED reclaimVars
    /\ UNCHANGED part

MCSpec == MCInit /\ [][MCNext]_<<reclaimVars, matrixVars, part>>

\* Tokens of one kind are interchangeable, and so are nodes that are free at first.
NodeSymmetry == Permutations(Node \ InitLive)
PairSymmetry == NodeSymmetry \cup Permutations(Writer)
ReaderSymmetry == NodeSymmetry \cup Permutations(Token \ Writer)
=============================================================================
