------------------------------- MODULE LruMap -------------------------------
(***************************************************************************)
(* lru_map_impl: a map of bounded size that threads fill on a miss.  A     *)
(* node in use is pinned by m_lru_refcnt and off the lru list.  lru_add    *)
(* puts the node into the hash table before the caller's solve() has made  *)
(* its value, without the lock; whoever finds it there sleeps on a futex   *)
(* until it is solved.  When the map is full, lru_add takes the least      *)
(* recent node out and calls lru_evict, again without the lock.  The code  *)
(* between lock and unlock is one step.                                    *)
(***************************************************************************)
EXTENDS Integers, Sequences, FiniteSets, SequencesExt

CONSTANTS Thread, Key,
          Slot,    \* the nodes of the map; it is full when all are in use
          None

ASSUME SlotAssumption ==
    /\ Slot # {} /\ None \notin Key \cup Slot
    /\ Cardinality(Thread) <= Cardinality(Slot)     \* a caller pins one node at most

VARIABLES
    node,    \* m_lru_next (a link is "lru"), m_lru_refcnt, key and value of each slot
    bucket,  \* the slots of each key in the hash chain, newest first
    lru,     \* the lru list, head first
    th,      \* what each thread is in
    early,   \* a solver read m_lru_refcnt before its m_lru_next was visible
    died     \* where TERARK_DIE was called

vars == <<node, bucket, lru, th, early, died>>

Unused == [next |-> "free", refcnt |-> 0, key |-> None, val |-> None]
idle == [pc |-> "idle", key |-> None, slot |-> None, ok |-> FALSE]

Init ==
    /\ node = [s \in Slot |-> Unused]
    /\ bucket = [k \in Key |-> << >>]
    /\ lru = << >>
    /\ th = [t \in Thread |-> idle]
    /\ early = FALSE /\ died = "no"

Free == {s \in Slot : node[s].next = "free"}
Found(k) == bucket[k] # << >>
Goto(t, pc) == th' = [th EXCEPT ![t].pc = pc]

-----------------------------------------------------------------------------
(* lru_get, and lru_add of a key that is there.  Operators named Slip...    *)
(* are wrong variants of the definition after them, used to see that the    *)
(* properties notice.                                                       *)

Pin(s) == [node EXCEPT ![s].refcnt = @ + 1,
                       ![s].next = IF @ = "lru" THEN "solve_done" ELSE @]

\* The node is solved: pin it, out of the lru list if it was there.
get_done(t, k) ==
    LET s == Head(bucket[k])
    IN  /\ th[t].pc = "idle" /\ Found(k)
        /\ node[s].next \in {"lru", "solve_done"}
        /\ node' = Pin(s)
        /\ lru' = IF node[s].refcnt = 0 THEN Remove(lru, s) ELSE lru
        /\ th' = [th EXCEPT ![t] = [idle EXCEPT !.pc = "hold", !.key = k, !.slot = s]]
        /\ UNCHANGED <<bucket, early, died>>

\* It is being solved: pin it and wait, without the lock.  (If solving has
\* failed and the failed node is still there, the call returns -1.)
SlipGetWait(t, k) ==
    LET s == Head(bucket[k])
    IN  /\ th[t].pc = "idle" /\ Found(k)
        /\ node[s].next = "inprogress"
        /\ th' = [th EXCEPT ![t] = [idle EXCEPT !.pc = "wait", !.key = k, !.slot = s]]
        /\ UNCHANGED <<node, bucket, lru, early, died>>
get_wait(t, k) ==
    LET s == Head(bucket[k])
    IN  /\ th[t].pc = "idle" /\ Found(k)
        /\ node[s].next = "inprogress"
        /\ node' = [node EXCEPT ![s].refcnt = @ + 1]
        /\ th' = [th EXCEPT ![t] = [idle EXCEPT !.pc = "wait", !.key = k, !.slot = s]]
        /\ UNCHANGED <<bucket, lru, early, died>>

\* wait_solve reads m_lru_next once before its loop; the loop is not entered,
\* and TERARK_DIE reached, if that is not inprogress any more.
wait_solve(t) ==
    /\ th[t].pc = "wait"
    /\ \/ node[th[t].slot].next = "inprogress" /\ Goto(t, "futex") /\ UNCHANGED died
       \/ node[th[t].slot].next # "inprogress" /\ died' = "wait_solve" /\ UNCHANGED th
    /\ UNCHANGED <<node, bucket, lru, early>>

\* FUTEX_WAIT sleeps only if m_lru_next is still inprogress.
futex_wait(t) ==
    /\ th[t].pc = "futex"
    /\ Goto(t, IF node[th[t].slot].next = "inprogress" THEN "sleep" ELSE "check")
    /\ UNCHANGED <<node, bucket, lru, early, died>>

wait_check(t) ==
    /\ th[t].pc = "check"
    /\ Goto(t, CASE node[th[t].slot].next = "solve_done" -> "hold"
                 [] node[th[t].slot].next = "solve_fail" -> "failed"
                 [] OTHER -> "futex")
    /\ UNCHANGED <<node, bucket, lru, early, died>>

\* The value could not be made: the last reference erases the node.
SlipSolveFailed(t) ==
    /\ th[t].pc = "failed"
    /\ node' = [node EXCEPT ![th[t].slot].refcnt = @ - 1]
    /\ th' = [th EXCEPT ![t] = idle]
    /\ UNCHANGED <<bucket, lru, early, died>>
SolveFailed(t) ==
    LET s == th[t].slot
        last == node[s].refcnt = 1
    IN  /\ th[t].pc = "failed"
        /\ node' = [node EXCEPT ![s] = IF last THEN Unused
                                       ELSE [@ EXCEPT !.refcnt = @ - 1]]
        /\ bucket' = IF last THEN [bucket EXCEPT ![th[t].key] = Remove(@, s)] ELSE bucket
        /\ th' = [th EXCEPT ![t] = idle]
        /\ UNCHANGED <<lru, early, died>>

SlipRelease(t) ==
    LET s == th[t].slot
    IN  /\ th[t].pc = "hold"
        /\ node' = [node EXCEPT ![s].refcnt = @ - 1, ![s].next = "lru"]
        /\ lru' = <<s>> \o lru
        /\ th' = [th EXCEPT ![t] = idle]
        /\ UNCHANGED <<bucket, early, died>>
lru_release(t) ==
    LET s == th[t].slot
        last == node[s].refcnt = 1
    IN  /\ th[t].pc = "hold"
        /\ node' = [node EXCEPT ![s].refcnt = @ - 1, ![s].next = IF last THEN "lru" ELSE @]
        /\ lru' = IF last THEN <<s>> \o lru ELSE lru
        /\ th' = [th EXCEPT ![t] = idle]
        /\ UNCHANGED <<bucket, early, died>>

-----------------------------------------------------------------------------
(* lru_add of a new key.                                                    *)

\* A node for key k in slot s, pinned by its solver, first in the hash chain.
Insert(t, k, s) ==
    /\ node' = [node EXCEPT ![s] = [next |-> "inprogress", refcnt |-> 1, key |-> k,
                                    val |-> None]]
    /\ bucket' = [bucket EXCEPT ![k] = <<s>> \o @]
    /\ th' = [th EXCEPT ![t] = [idle EXCEPT !.pc = "solve", !.key = k, !.slot = s]]

add_new(t, k) ==
    /\ th[t].pc = "idle" /\ ~Found(k)
    /\ \E s \in Free : Insert(t, k, s)
    /\ UNCHANGED <<lru, early, died>>

\* evict_least_recent up to its unlock.
evict_least_recent(t, k) ==
    /\ th[t].pc = "idle" /\ ~Found(k) /\ Free = {}
    /\ IF lru = << >>
       THEN died' = "evict" /\ UNCHANGED <<node, bucket, lru, th>>
       ELSE LET s == Last(lru)
            IN  /\ lru' = Front(lru)
                /\ node' = [node EXCEPT ![s].next = "solve_done"]
                /\ bucket' = [bucket EXCEPT ![node[s].key] = Remove(@, s)]
                /\ th' = [th EXCEPT ![t] = [idle EXCEPT !.pc = "evict", !.key = k, !.slot = s]]
                /\ UNCHANGED died
    /\ UNCHANGED early

\* After lru_evict and lock the victim is free; the key is not looked up again.
evict_done(t) ==
    /\ th[t].pc = "evict"
    /\ \E s \in Free \cup {th[t].slot} :
          /\ node' = [node EXCEPT ![th[t].slot] = Unused,
                                  ![s] = [next |-> "inprogress", refcnt |-> 1,
                                          key |-> th[t].key, val |-> None]]
          /\ bucket' = [bucket EXCEPT ![th[t].key] = <<s>> \o @]
          /\ th' = [th EXCEPT ![t].pc = "solve", ![t].slot = s]
    /\ UNCHANGED <<lru, early, died>>

\* solve() makes the value or fails.
solve(t) ==
    /\ th[t].pc = "solve"
    /\ \E ok \in BOOLEAN :
          /\ th' = [th EXCEPT ![t].pc = "store", ![t].ok = ok]
          /\ node' = [node EXCEPT ![th[t].slot].val = IF ok THEN th[t].key ELSE None]
    /\ UNCHANGED <<bucket, lru, early, died>>

\* wake_solve stores m_lru_next, then reads m_lru_refcnt and wakes the sleepers if
\* it is at least 2.  Nothing keeps the read after the store: it may come first.
Solved(t) == IF th[t].ok THEN "solve_done" ELSE "solve_fail"
Shared(s) == node[s].refcnt >= 2
After(t) == IF th[t].ok THEN "hold" ELSE "failed"

wake_store(t) ==
    /\ th[t].pc = "store"
    /\ node' = [node EXCEPT ![th[t].slot].next = Solved(t)]
    /\ Goto(t, "wake")
    /\ UNCHANGED <<bucket, lru, early, died>>

\* FUTEX_WAKE of all (INT_MAX) sleepers on node s.
SlipWoken(t, s) ==
    LET Sleepers == {u \in Thread : th[u].pc = "sleep" /\ th[u].slot = s}
        one == IF Sleepers = {} THEN None ELSE CHOOSE u \in Sleepers : TRUE
    IN  [u \in Thread |->
            CASE u = t -> [th[t] EXCEPT !.pc = After(t)]
              [] u # t /\ u = one -> [th[u] EXCEPT !.pc = "check"]
              [] OTHER -> th[u]]
Woken(t, s) ==
    [u \in Thread |->
        CASE u = t -> [th[t] EXCEPT !.pc = After(t)]
          [] u # t /\ th[u].pc = "sleep" /\ th[u].slot = s -> [th[u] EXCEPT !.pc = "check"]
          [] OTHER -> th[u]]

wake_solve(t) ==
    /\ th[t].pc = "wake"
    /\ IF Shared(th[t].slot) THEN th' = Woken(t, th[t].slot) ELSE Goto(t, After(t))
    /\ UNCHANGED <<node, bucket, lru, early, died>>

wake_early(t) ==
    /\ th[t].pc = "store" /\ ~Shared(th[t].slot)
    /\ early' = TRUE
    /\ Goto(t, "late_store")
    /\ UNCHANGED <<node, bucket, lru, died>>

late_store(t) ==
    /\ th[t].pc = "late_store"
    /\ node' = [node EXCEPT ![th[t].slot].next = Solved(t)]
    /\ Goto(t, After(t))
    /\ UNCHANGED <<bucket, lru, early, died>>

-----------------------------------------------------------------------------
CallStep(t) ==
    \/ wait_solve(t) \/ futex_wait(t) \/ wait_check(t) \/ SolveFailed(t)
    \/ evict_done(t) \/ solve(t) \/ wake_store(t) \/ wake_solve(t)
    \/ wake_early(t) \/ late_store(t)

Next ==
    /\ died = "no"
    /\ \E t \in Thread :
         \/ CallStep(t) \/ lru_release(t)
         \/ \E k \in Key : get_done(t, k)
         \/ \E k \in Key : get_wait(t, k)
         \/ \E k \in Key : add_new(t, k)
         \/ \E k \in Key : evict_least_recent(t, k)

Spec == Init /\ [][Next]_vars

-----------------------------------------------------------------------------
(* Properties.                                                             *)

\* Who lru_get or lru_add returned a slot to has the node of its key, with its
\* value, until lru_release: it is not evicted, erased or used for another key
\* though eviction, solving and failing go on without the lock.
HeldIsSolved ==
    \A t \in Thread : th[t].pc = "hold" =>
        LET n == node[th[t].slot]
        IN  n.key = th[t].key /\ n.val = th[t].key /\ n.next = "solve_done"

\* m_lru_refcnt counts the threads that are in a call with the node or hold it; a
\* node is on the lru list, once, iff it is linked there, and then nobody has it;
\* a node is in the chain of its key iff it is in use and not being evicted.
Has(t, s) == th[t].slot = s /\ th[t].pc # "evict"
Evicting == {th[t].slot : t \in {u \in Thread : th[u].pc = "evict"}}
RefsCounted ==
    /\ \A s \in Slot : node[s].refcnt = Cardinality({t \in Thread : Has(t, s)})
    /\ IsInjective(lru)
    /\ ToSet(lru) = {s \in Slot : node[s].next = "lru"}
    /\ \A s \in ToSet(lru) : node[s].refcnt = 0
    /\ \A k \in Key :
          /\ IsInjective(bucket[k])
          /\ ToSet(bucket[k]) = {s \in Slot \ (Free \cup Evicting) : node[s].key = k}

\* "LruList is empty but size == cap ... may be some leak" (evict_least_recent)
\* never happens as long as each thread pins one node at most: no path through
\* lru_add, failures and evictions included, forgets a reference or a slot.
EvictFinds == died # "evict"

\* A thread asleep in wait_solve will be woken: the solver of its node has not yet
\* read m_lru_refcnt, and will see at least 2 there (unless some solver has read
\* it before its store to m_lru_next was visible).
SleeperHasWaker ==
    \A t \in Thread : th[t].pc = "sleep" =>
        \/ early
        \/ Shared(th[t].slot) /\ \E u \in Thread : /\ th[u].slot = th[t].slot
                                                  /\ th[u].pc \in {"solve", "store", "wake"}

\* The TERARK_DIE at the end of wait_solve is not reached: a thread that found a
\* node in progress gets its value or the failure, however fast the solver is.
WaitSolveReturns == died # "wait_solve"
=============================================================================
