------------------------ MODULE MCMempoolThreadCache -------------------------
(* Instances of MempoolThreadCache for TLC.  The variable part, chosen in   *)
(* the initial state, says which one a behaviour belongs to:                *)
(*   "ids"      owners come and go, and their ids are used again, while     *)
(*              threads end; memory is not used;                            *)
(*   "threads"  all threads end around the destruction of one owner;        *)
(*   "memory"   one thread allocates and frees as often as it likes;        *)
(*   "share"    two threads do, and call sync_frag_size, MaxCall times.     *)
EXTENDS MempoolThreadCache, TLC

CONSTANTS Parts,        \* the instances
          Pair,         \* the threads of "ids" and "share"
          MaxCall       \* bound: calls in part "share"

VARIABLES part,
          left          \* the calls that are still to come

mcvars == <<vars, part, left>>

MCInit ==
    /\ part \in Parts
    /\ left = IF part = "share" THEN MaxCall ELSE 0
    /\ Init

Calling == \E th \in Thread : pc[th] = "idle" /\ pc'[th] \in {"tc", "hot", "sync_batch"}

\* The threads that run.
Active == CASE part = "threads" -> Thread
            [] part \in {"ids", "share"} -> Pair
            [] OTHER -> Maker

InPart ==
    /\ \A th \in Thread \ Active : pc'[th] = pc[th] /\ linked' \subseteq Active
    /\ part # "ids" => \A o \in Owner \ {1} : owner'[o] = owner[o]
    /\ part \in {"ids", "threads"} => UNCHANGED poolVars
    /\ part \in {"memory", "share"} => owner'[1].life # "dying"
    /\ part = "share" /\ Calling => left > 0
    /\ left' = IF part = "share" /\ Calling THEN left - 1 ELSE left

MCNext == Next /\ InPart /\ UNCHANGED part

\* Fairness of MempoolThreadCache, in the parts in which owners are destroyed.
MCFairness == \A th \in Thread :
    WF_mcvars(part \in {"ids", "threads"} /\ pc[th] \in Ending /\ TlsStep(th)
              /\ InPart /\ UNCHANGED part)

MCSpec == MCInit /\ [][MCNext]_mcvars /\ MCFairness

=============================================================================
