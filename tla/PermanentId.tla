----------------------------- MODULE PermanentId -----------------------------
(***************************************************************************)
(* CircularPermanentID: the table that gives files of the page cache ids   *)
(* that are never used again.  The objects from m_min_id up to the last    *)
(* pushed one are kept in a ring of m_cap slots, object id in slot         *)
(* id % m_cap; a bitmap tells which of them were dropped.  When the ring   *)
(* is full and its first object is in use, push doubles it and moves the   *)
(* part that belongs into the other half.                                  *)
(***************************************************************************)
EXTENDS Integers, FiniteSets

CONSTANTS TERARK_WORD_BITS,  \* bits of a word of the bitmap, a power of two
          InitialCap,        \* a multiple of it and a power of two
          MaxPush            \* bound: the number of objects pushed

ASSUME CapAssumption == /\ TERARK_WORD_BITS \in Nat \ {0}
                        /\ InitialCap % TERARK_WORD_BITS = 0 /\ InitialCap > 1
                        /\ MaxPush \in Nat

VARIABLES m_cap, m_tail, m_min_id, m_num_free,
          m_objects, m_dropped,  \* the slots; an object is its push number
          pushed,                \* how many objects were pushed
          live,                  \* the ids the caller has and did not drop
          aligned                \* the ring grew with m_min_id at an odd
                                 \* multiple of m_cap (grow_all below)

idVars == <<m_cap, m_tail, m_min_id, m_num_free, m_objects, m_dropped,
          pushed, live, aligned>>

IdInit ==
    /\ m_cap = InitialCap
    /\ m_tail = 0 /\ m_min_id = 0 /\ m_num_free = 0
    /\ m_objects = [s \in 0..(InitialCap - 1) |-> -1]
    /\ m_dropped = [s \in 0..(InitialCap - 1) |-> FALSE]
    /\ pushed = 0 /\ live = {} /\ aligned = FALSE

head == m_min_id % m_cap
virt_tail == (m_tail - head) % m_cap
Full == virt_tail = m_cap - 1
OddLap == (m_min_id \div m_cap) % 2 = 1          \* m_min_id & cap

\* Stores the next object in slot tail of the given ring and returns id.
DoPush(objects, dropped, tail, cap, id) ==
    /\ m_objects' = [objects EXCEPT ![tail] = pushed]
    /\ m_dropped' = [dropped EXCEPT ![tail] = FALSE]
    /\ m_tail' = (tail + 1) % cap
    /\ m_cap' = cap
    /\ live' = live \cup {id}
    /\ pushed' = pushed + 1

push_room ==
    /\ pushed < MaxPush /\ ~Full
    /\ DoPush(m_objects, m_dropped, m_tail, m_cap, m_min_id + virt_tail)
    /\ UNCHANGED <<m_min_id, m_num_free, aligned>>

\* The ring is full of objects, but the first one is dropped.
push_reuse ==
    /\ pushed < MaxPush /\ Full /\ m_dropped[head]
    /\ m_min_id' = m_min_id + 1
    /\ m_num_free' = m_num_free - 1
    /\ DoPush(m_objects, m_dropped, m_tail, m_cap,
              m_min_id + 1 + ((m_tail - (m_min_id + 1)) % m_cap))
    /\ UNCHANGED aligned

(* Operators named Slip... are wrong variants of the definition after them, *)
(* used to see that the properties notice.                                  *)

\* The doubled ring f, in which slot s of the old one went to slot s + cap if
\* s is in moved.  Slots nothing is moved to hold what the allocator left in them.
SlipGrown(f, moved) ==
    [s \in 0..(2 * m_cap - 1) |-> IF s < m_cap THEN f[s] ELSE f[0]]
Grown(f, moved) ==
    [s \in 0..(2 * m_cap - 1) |->
        IF s < m_cap THEN f[s]
        ELSE IF s - m_cap \in moved THEN f[s - m_cap] ELSE f[0]]

\* The slots whose objects, and whose bitmap words, move to the upper half.
Slot == 0..(m_cap - 1)
WordOf(s) == s \div TERARK_WORD_BITS

grow_head ==           \* tail < head, the objects at the head move
    LET Obj == {s \in Slot : s >= head}
        Bit == {s \in Slot : WordOf(s) >= WordOf(head)}
    IN  /\ m_tail < head /\ OddLap
        /\ DoPush(Grown(m_objects, Obj), Grown(m_dropped, Bit), m_tail, 2 * m_cap,
                  m_min_id + ((m_tail - (head + m_cap)) % (2 * m_cap)))
        /\ UNCHANGED aligned

grow_tail ==           \* tail < head, the objects at the tail move
    LET Obj == {s \in Slot : s < m_tail}
        Bit == {s \in Slot : WordOf(s) < WordOf(m_tail + TERARK_WORD_BITS - 1)}
    IN  /\ m_tail < head /\ ~OddLap
        /\ DoPush(Grown(m_objects, Obj), Grown(m_dropped, Bit), m_tail + m_cap,
                  2 * m_cap, m_min_id + m_tail + m_cap - head)
        /\ UNCHANGED aligned

grow_all ==            \* head = 0, all objects move
    LET Obj == {s \in Slot : s < m_cap - 1}
        Bit == Slot
    IN  /\ m_tail >= head /\ OddLap
        /\ aligned' = TRUE
        /\ DoPush(Grown(m_objects, Obj), Grown(m_dropped, Bit), m_tail + m_cap,
                  2 * m_cap, m_min_id + m_tail + m_cap)

grow_none ==           \* head = 0, everything is where it belongs
    /\ m_tail >= head /\ ~OddLap
    /\ DoPush(Grown(m_objects, {}), Grown(m_dropped, {}), m_tail, 2 * m_cap,
              m_min_id + virt_tail)
    /\ UNCHANGED aligned

push_grow ==
    /\ pushed < MaxPush /\ Full /\ ~m_dropped[head]
    /\ grow_head \/ grow_tail \/ grow_all \/ grow_none
    /\ UNCHANGED <<m_min_id, m_num_free>>

drop(id) ==
    /\ id \in live
    /\ live' = live \ {id}
    /\ IF id # m_min_id
       THEN /\ m_num_free' = m_num_free + 1
            /\ m_dropped' = [m_dropped EXCEPT ![id % m_cap] = TRUE]
            /\ UNCHANGED m_min_id
       ELSE /\ m_min_id' = m_min_id + 1
            /\ UNCHANGED <<m_num_free, m_dropped>>
    /\ UNCHANGED <<m_cap, m_tail, m_objects, pushed, aligned>>

IdNext == push_room \/ push_reuse \/ push_grow \/ \E id \in live : drop(id)

IdSpec == IdInit /\ [][IdNext]_idVars

-----------------------------------------------------------------------------
(* Properties.                                                             *)

\* operator[] finds the object of every id in use, and its assertions hold: the
\* id is between min_id() and max_id() and not dropped, whatever growth moved.
LookupRight ==
    \A id \in live :
        /\ id >= m_min_id
        /\ id - m_min_id < virt_tail
        /\ ~m_dropped[id % m_cap]
        /\ m_objects[id % m_cap] = id

\* The same, up to the first growth with m_min_id at an odd multiple of m_cap:
\* that growth returns an id too large by the old capacity.  Until then ids are
\* consecutive (an object is its push number), so the shards of a
\* MultiLruReadonlyCache, which drop files at different times, agree on the id of
\* a file (TERARK_RT_assert in open).
LookupRightUnlessAligned == aligned \/ LookupRight
=============================================================================
