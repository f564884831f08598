----------------------------- MODULE CsppReclaim -----------------------------
(***************************************************************************)
(* Reclamation of trie nodes on top of the token queue (CsppToken).        *)
(*                                                                         *)
(* A writer never changes a node in place: it links a changed copy and     *)
(* appends the old node to its lazy free list, with the version of its own *)
(* token as the age.  revoke_expired_nodes, at the start of every later    *)
(* insertion, frees the items at the front whose age is below the minimal  *)
(* version.  What the nodes contain is the subject of module CsppInsert.   *)
(***************************************************************************)
EXTENDS CsppToken, FiniteSets

CONSTANTS Node,          \* the nodes the pool can hold
          InitLive,      \* the nodes that are linked at the start
          BULK_FREE_NUM,
          LazyLimit,     \* the length that stands for 32 KiB of lazy nodes
          None

ASSUME NodeAssumption == InitLive \subseteq Node /\ None \notin Node
ASSUME LimitAssumption == BULK_FREE_NUM \in Nat /\ LazyLimit \in Nat

VARIABLES
    live,            \* the nodes reachable from the root
    lazy_free_list,  \* items (age, node) of each writer token; the one
                     \* list for one writer
    held,            \* the nodes the thread of each token has pointers to
    upd              \* inside insert: the step ("search", "alloc", "update"),
                     \* curr and its copy newCurr

nodeVars == <<live, lazy_free_list, upd>>
reclaimVars == <<vars, nodeVars, held>>

NoUpdate == [step |-> "search", curr |-> None, newCurr |-> None]

RInit ==
    /\ Init
    /\ live = InitLive
    /\ lazy_free_list = [t \in Writer |-> <<>>]
    /\ held = [t \in Token |-> {}]
    /\ upd = [t \in Writer |-> NoUpdate]

LazyOf(w) == {lazy_free_list[w][i].node : i \in 1..Len(lazy_free_list[w])}
Lazy == UNION {LazyOf(w) : w \in Writer}
Free == Node \ (live \cup Lazy \cup {upd[w].newCurr : w \in Writer})

-----------------------------------------------------------------------------
(* The token operations.  idle and release end the use of the pointers.    *)

KeepPointers(t) ==
    /\ \/ acquire(t) \/ mt_acquire_released(t) \/ mt_acquire_idle(t)
       \/ rotate_acquire(t) \/ maybe_rotate_idle(t) \/ rotate_idle(t)
       \/ idle_locked(t) \/ mt_release(t)
    /\ UNCHANGED <<nodeVars, held>>

DropPointers(t) ==
    /\ idle(t) \/ release(t)
    /\ held' = [held EXCEPT ![t] = {}]
    /\ UNCHANGED nodeVars

\* lookup or an iterator step reaches a node.
reach(t) ==
    /\ pc[t] = "ready"
    /\ state[t] = "AcquireDone"
    /\ \E n \in live : held' = [held EXCEPT ![t] = @ \cup {n}]
    /\ UNCHANGED <<vars, nodeVars>>

-----------------------------------------------------------------------------
(* insert                                                                  *)

\* insert forgets the value position of the token.  A head token rotates
\* first if its list is long; the counters m_revoke_fail_cnt and
\* m_revoke_probe_cnt that thin this out are left open.
insert_enter(t) ==
    /\ insert(t)
    /\ pc'[t] = "rotate_insert" => Len(lazy_free_list[t]) > LazyLimit
    /\ held' = [held EXCEPT ![t] = {}]
    /\ UNCHANGED nodeVars

insert_rotate(t) ==
    /\ rotate_insert(t)
    /\ UNCHANGED <<nodeVars, held>>

(* Operators named Slip... are wrong variants of the definition after them, *)
(* used to see that the properties notice.                                  *)

Expired(lzf, min_verseq) ==
    LET n == IF Len(lzf) < BULK_FREE_NUM THEN Len(lzf) ELSE BULK_FREE_NUM
    IN  CHOOSE k \in 0..n : /\ \A i \in 1..k : lzf[i].age < min_verseq
                            /\ k < n => lzf[k + 1].age >= min_verseq

\* The minimal version that decides: a token of a multi writer trie uses its
\* cached copy (cheap to read).
SlipRevokeMin(t) == m_verseq[t]
RevokeMin(t) == IF MultiWrite THEN m_min_verseq[t] ELSE dummy_min_verseq

DropFront(s, k) == [i \in 1..(Len(s) - k) |-> s[i + k]]

\* The search has found curr; insert revokes expired nodes before it
\* allocates the copy of curr.
revoke_expired_nodes(t) ==
    /\ pc[t] = "insert" /\ upd[t].step = "search"
    /\ lazy_free_list' = [lazy_free_list EXCEPT
          ![t] = DropFront(@, Expired(@, RevokeMin(t)))]
    /\ \E curr \in live :
          /\ upd' = [upd EXCEPT ![t] = [step |-> "alloc", curr |-> curr,
                                       newCurr |-> None]]
          /\ held' = [held EXCEPT ![t] = {curr}]
    /\ UNCHANGED <<vars, live>>

\* Out of memory: insert returns with m_valpos = -1.
alloc_node(t) ==
    /\ upd[t].step = "alloc"
    /\ \/ /\ \E newCurr \in Free :
               upd' = [upd EXCEPT ![t].step = "update", ![t].newCurr = newCurr]
          /\ UNCHANGED <<vars, held>>
       \/ /\ Free = {}
          /\ insert_return(t)
          /\ upd' = [upd EXCEPT ![t] = NoUpdate]
          /\ held' = [held EXCEPT ![t] = {}]
    /\ UNCHANGED <<live, lazy_free_list>>

\* The item of curr goes to the back of the list with the token's version.
Retire(t) == Append(lazy_free_list[t], [age |-> m_verseq[t], node |-> upd[t].curr])

\* The locks and the compare-and-swap of update_curr_ptr succeed only if curr
\* is still the parent's child.
StillLinked(t) == upd[t].curr \in live

\* update_curr_ptr: the parent's child becomes newCurr and curr is retired.
update_curr_ptr(t) ==
    /\ upd[t].step = "update" /\ StillLinked(t)
    /\ insert_return(t)
    /\ live' = (live \ {upd[t].curr}) \cup {upd[t].newCurr}
    /\ lazy_free_list' = [lazy_free_list EXCEPT ![t] = Retire(t)]
    /\ held' = [held EXCEPT ![t] = {upd[t].newCurr}]
    /\ upd' = [upd EXCEPT ![t] = NoUpdate]

\* Another writer has replaced curr: newCurr is freed, insert searches again.
update_retry(t) ==
    /\ upd[t].step = "update" /\ ~StillLinked(t)
    /\ held' = [held EXCEPT ![t] = {}]
    /\ upd' = [upd EXCEPT ![t] = NoUpdate]
    /\ UNCHANGED <<vars, live, lazy_free_list>>

RNext ==
    \/ \E t \in Token : KeepPointers(t) \/ DropPointers(t) \/ reach(t)
    \/ \E t \in Writer :
          \/ insert_enter(t) \/ insert_rotate(t)
          \/ revoke_expired_nodes(t) \/ alloc_node(t)
          \/ update_curr_ptr(t) \/ update_retry(t)
    \/ set_readonly /\ UNCHANGED <<nodeVars, held>>

RSpec == RInit /\ [][RNext]_reclaimVars

-----------------------------------------------------------------------------
(* Properties.                                                             *)

\* revoke_expired_nodes frees an item only when its age is below the version
\* of every token in the list: a token whose version is not above the version
\* the writer had protects the node.
FreedOlderThanQueue ==
    [][\A w \in Writer : \A i \in 1..Len(lazy_free_list[w]) :
          lazy_free_list[w][i].node \notin Lazy' =>
             \A j \in 1..Len(queue) :
                lazy_free_list[w][i].age < m_verseq[queue[j]]]_reclaimVars

\* What the comment on SingleThreadShared promises (iterator with token will
\* keep valid): no thread has a pointer to a node that is back in the pool.
HeldNodesValid == \A t \in Token : held[t] \cap Free = {}
=============================================================================
