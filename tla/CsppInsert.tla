------------------------------ MODULE CsppInsert ------------------------------
(***************************************************************************)
(* insert_multi_writer and insert_one_writer of the CSPP trie, and lookup  *)
(* beside them.                                                            *)
(*                                                                         *)
(* A writer searches the node where its key leaves the trie, prepares a    *)
(* changed copy of it, and puts the copy in its place: it locks the parent *)
(* (b_lock), marks the node (b_lazy_free), compares the children with a    *)
(* backup taken before the copy, and swings the parent's child.  A fast    *)
(* node (the root, or a node with many children) is changed in place.  At  *)
(* the level of one writer the copy is linked without further ado.         *)
(*                                                                         *)
(* Nodes that were linked once are not reused here: that they are not      *)
(* freed while somebody can reach them is the subject of CsppReclaim.      *)
(***************************************************************************)
EXTENDS Integers, Sequences, FiniteSets, SequencesExt

CONSTANTS Writer, Reader,
          PT_MAX_ZPATH,   \* the longest zpath of a node
          MAX_DYNA_NUM,   \* a node with that many children becomes a fast one
          Scenarios,      \* bound: what is done to the trie, records with the fields
                          \* of sc below
          None

ASSUME InsertAssumption ==
    /\ PT_MAX_ZPATH \in Nat \ {0} /\ MAX_DYNA_NUM \in Nat
    /\ \A x \in Scenarios : x.MaxNode \in Nat /\ x.InitFails \subseteq Writer
    /\ None \notin Writer

\* A key is a sequence of labels.
Key == UNION {Range(x.keys[w]) : x \in Scenarios, w \in Writer}
Root == 0

VARIABLES
    a,          \* the nodes that are allocated, with their contents
    pc,         \* where each writer is in insert_multi_writer
    ins,        \* its local variables
    result,     \* what its last insert returned
    lzf,        \* the nodes in its lazy free list
    prog,       \* the keys that it will insert, in order
    m_n_words,  \* its count of inserted words
    rd,         \* lookup: key, curr and pos of each reader
    sc,         \* the scenario: keys of each writer, keys that are looked up, MaxNode
                \* nodes in the pool, InitFails whose init_value may return false,
                \* seeks and moves of the iterators, and one: one writer at a time
    leaked,     \* the nodes that fast_cas forgets
    store       \* the keys inserted so far, with their values

vars == <<a, pc, ins, result, lzf, m_n_words, rd, prog, sc, leaked, store>>

Node == 0..sc.MaxNode

-----------------------------------------------------------------------------
(* Nodes.  The flags, the counts and the labels of a node are one word,    *)
(* which a compare-and-swap covers; the children are words of their own.   *)

NewNode(zpath, child, final, val) ==
    [fast |-> FALSE, zpath |-> zpath, child |-> child, final |-> final,
     set_final |-> FALSE, lock |-> FALSE, lazy_free |-> FALSE, val |-> val]

NoChild == << >>
Edge(ch, n) == [c \in {ch} |-> n]
AddEdge(child, ch, n) == [c \in DOMAIN child \cup {ch} |-> IF c = ch THEN n ELSE child[c]]

Prefix(s, n) == SubSeq(s, 1, n)
After(s, n) == SubSeq(s, n + 1, Len(s))     \* s without its first n elements

CommonLen(s, t) ==
    LET m == IF Len(s) < Len(t) THEN Len(s) ELSE Len(t)
    IN  CHOOSE n \in 0..m : /\ Prefix(s, n) = Prefix(t, n)
                            /\ n < m => s[n + 1] # t[n + 1]

\* How the search for key goes on at node p, when it has matched pos labels
\* before: to a child, or it ends where the key is or should be.
Verdict(key, pos, p) ==
    LET rest == After(key, pos)
    IN  CASE IsStrictPrefix(p.zpath, rest) ->
                IF rest[Len(p.zpath) + 1] \in DOMAIN p.child THEN "move" ELSE "add"
          [] rest = p.zpath -> IF p.final THEN "found" ELSE "mark"
          [] IsStrictPrefix(rest, p.zpath) -> "split"
          [] OTHER -> "fork"

\* new_suffix_chain: the nodes ids hold the labels of suffix; all but the last
\* have the longest zpath and one child.
ChainLen(suffix) == Len(suffix) \div (PT_MAX_ZPATH + 1) + 1

new_suffix_chain(suffix, ids, val) ==
    [i \in 1..ChainLen(suffix) |->
        LET s == After(suffix, (i - 1) * (PT_MAX_ZPATH + 1))
        IN  IF i < ChainLen(suffix)
            THEN NewNode(Prefix(s, PT_MAX_ZPATH),
                         Edge(s[PT_MAX_ZPATH + 1], ids[i + 1]), FALSE, None)
            ELSE NewNode(s, NoChild, TRUE, val)]

-----------------------------------------------------------------------------
(* The trie as a whole.                                                    *)

\* The node at which the search for key k ends, None if k is not in the trie.
Locate(k) ==
    LET at[n \in DOMAIN a, pos \in 0..Len(k)] ==
            LET v == Verdict(k, pos, a[n])
                next == pos + Len(a[n].zpath) + 1
            IN  IF v = "move" THEN at[a[n].child[k[next]], next]
                ELSE IF v = "found" THEN n ELSE None
    IN  at[Root, 0]

Linked(k) == Locate(k) # None

Reachable ==
    LET below[n \in DOMAIN a] == {n} \cup UNION {below[c] : c \in Range(a[n].child)}
    IN  below[Root]

-----------------------------------------------------------------------------
(* The steps of insert.                                                    *)

Blank == NewNode(<< >>, NoChild, FALSE, None)

NoInsert == [key |-> << >>, curr |-> Root, pos |-> 0, parent |-> Root,
             new |-> << >>, backup |-> NoChild, clean |-> TRUE,
             parent_unlock |-> [final |-> FALSE, set_final |-> FALSE],
             is_value_inited |-> FALSE]

Init ==
    /\ a = [n \in {Root} |-> [Blank EXCEPT !.fast = TRUE]]
    /\ pc = [w \in Writer |-> "ready"]
    /\ ins = [w \in Writer |-> NoInsert]
    /\ result = [w \in Writer |-> "none"]
    /\ lzf = [w \in Writer |-> {}]
    /\ sc \in Scenarios /\ prog = sc.keys /\ leaked = {} /\ store = << >>
    /\ m_n_words = [w \in Writer |-> 0]
    /\ rd = [r \in Reader |-> [key |-> << >>, curr |-> Root, pos |-> 0,
                               found |-> "none", must |-> FALSE]]

Goto(w, from, to) == pc[w] = from /\ pc' = [pc EXCEPT ![w] = to]

Return(w, res) ==
    /\ pc' = [pc EXCEPT ![w] = "ready"]
    /\ result' = [result EXCEPT ![w] = res]

Rest(i) == After(i.key, i.pos)
Zidx(i) == CommonLen(Rest(i), a[i.curr].zpath)
Kind(i) == Verdict(i.key, i.pos, a[i.curr])
Slot(i) == i.key[i.pos]                 \* the label of curr in its parent

\* The end of insert: nothing is under way any more.
Ended(w) == ins' = [ins EXCEPT ![w] = NoInsert]

\* The moment at which the insertion of w takes effect.
Inserted(w) == store' = [k \in DOMAIN store \cup {ins[w].key} |->
                            IF k = ins[w].key THEN w ELSE store[k]]

insert(w) ==
    /\ Goto(w, "ready", "search")
    /\ prog[w] # << >> /\ prog' = [prog EXCEPT ![w] = Tail(@)]
    /\ ins' = [ins EXCEPT ![w] = [NoInsert EXCEPT !.key = Head(prog[w])]]
    /\ result' = [result EXCEPT ![w] = "pending"]
    /\ UNCHANGED <<a, lzf, m_n_words, rd, sc, leaked, store>>

\* The search from the root goes to a child ...
search_move(w) ==
    LET i == ins[w]
        pos == i.pos + Len(a[i.curr].zpath) + 1
    IN  /\ Goto(w, "search", "search")
        /\ Kind(i) = "move"
        /\ ins' = [ins EXCEPT ![w].pos = pos, ![w].parent = i.curr,
                              ![w].curr = a[i.curr].child[i.key[pos]]]
        /\ UNCHANGED <<a, result, lzf, m_n_words, rd, prog, sc, leaked, store>>

\* ... or finds the key (HandleDupKey; a value that was made is destroyed) ...
search_found(w) ==
    /\ pc[w] = "search" /\ Kind(ins[w]) = "found"
    /\ Return(w, "duplicate")
    /\ Ended(w)
    /\ UNCHANGED <<a, lzf, m_n_words, rd, prog, sc, leaked, store>>

\* The search starts again; the nodes in freed go back to the pool, those in lost
\* are forgotten.
retry(w, freed, nodes, lost) ==
    /\ a' = Restrict(nodes, DOMAIN nodes \ freed)
    /\ pc' = [pc EXCEPT ![w] = "search"]
    /\ ins' = [ins EXCEPT ![w] = [NoInsert EXCEPT !.key = ins[w].key,
                                   !.is_value_inited = ins[w].is_value_inited]]
    /\ leaked' = leaked \cup lost
    /\ UNCHANGED <<result, lzf, m_n_words, rd, prog, sc, store>>

(* Operators named Slip... are wrong variants of the definition after them, *)
(* used to see that the properties notice.                                  *)

\* What a failed update frees: newCurr, oldSuffixNode and the new chain.
SlipUpdateNodes(i) == {i.new[1]}
UpdateNodes(i) == Range(i.new)

\* How many nodes the change needs, and their contents: the copy newCurr comes
\* first (not for a fast node), then oldSuffixNode, then the suffix chain.
NodesNeeded(i) ==
    LET chain == ChainLen(After(Rest(i), Zidx(i) + 1))
    IN  CASE Kind(i) = "add"   -> chain + IF a[i.curr].fast THEN 0 ELSE 1
          [] Kind(i) = "fork"  -> chain + 2
          [] Kind(i) = "split" -> 2
          [] Kind(i) = "mark"  -> 1

\* add_state_move: a node without zpath becomes fast when it has many children.
add_state_move(copy, ch, n) ==
    [copy EXCEPT !.child = AddEdge(@, ch, n),
                 !.fast = Cardinality(DOMAIN copy.child) >= MAX_DYNA_NUM
                          /\ copy.zpath = << >>]

\* fork and split_zpath: the rest of the node below the branch at zidx, and the
\* new node above it.
SlipSuffixNode(copy, zidx) == [copy EXCEPT !.zpath = After(@, zidx)]
SuffixNode(copy, zidx) == [copy EXCEPT !.zpath = After(@, zidx + 1)]

fork(copy, zidx, ids, newChar) ==
    NewNode(Prefix(copy.zpath, zidx),
            AddEdge(Edge(copy.zpath[zidx + 1], ids[2]), newChar, ids[3]), FALSE, None)

split_zpath(copy, zidx, ids, val) ==
    NewNode(Prefix(copy.zpath, zidx), Edge(copy.zpath[zidx + 1], ids[2]), TRUE, val)

Prepared(w, copy) ==
    LET i == ins[w]
        rest == Rest(i)
        zidx == Zidx(i)
        suffix == After(rest, zidx + 1)
        Chain(from) == new_suffix_chain(suffix, After(i.new, from), w)
    IN  CASE Kind(i) = "add" ->
                <<add_state_move(copy, rest[zidx + 1], i.new[2])>> \o Chain(1)
          [] Kind(i) = "fork" ->
                <<fork(copy, zidx, i.new, rest[zidx + 1]), SuffixNode(copy, zidx)>>
                    \o Chain(2)
          [] Kind(i) = "split" ->
                <<split_zpath(copy, zidx, i.new, w), SuffixNode(copy, zidx)>>
          [] Kind(i) = "mark" -> <<[copy EXCEPT !.final = TRUE, !.val = w]>>

\* Writes contents into the nodes ids of the pool.
Fill(ids, contents) ==
    [n \in DOMAIN a \cup Range(ids) |->
        IF n \in Range(ids)
        THEN contents[CHOOSE j \in 1..Len(ids) : ids[j] = n] ELSE a[n]]

FreeNodes == Node \ DOMAIN a
\* The first n free nodes, in ascending order.
Alloc(n) == [j \in 1..n |-> CHOOSE x \in FreeNodes :
                               Cardinality({y \in FreeNodes : y < x}) = j - 1]

\* The search ends at a node that has to change by a copy.  The first failing
\* alloc_node gives back the ones before; has_value() is false then.
SearchEnds(w) ==
    /\ pc[w] = "search" /\ Kind(ins[w]) \notin {"move", "found"}
    /\ ~(Kind(ins[w]) = "mark" /\ a[ins[w].curr].fast)

alloc_fail(w) ==
    /\ SearchEnds(w) /\ Cardinality(FreeNodes) < NodesNeeded(ins[w])
    /\ Return(w, "no_value")
    /\ Ended(w)
    /\ UNCHANGED <<a, lzf, m_n_words, rd, prog, sc, leaked, store>>

\* The nodes are allocated and, if others write, the children of curr saved.
alloc_node(w) ==
    LET curr == a[ins[w].curr]
        ids == Alloc(NodesNeeded(ins[w]))
    IN  /\ SearchEnds(w) /\ ~curr.fast
        /\ Cardinality(FreeNodes) >= NodesNeeded(ins[w])
        /\ a' = Fill(ids, [j \in 1..Len(ids) |-> Blank])
        /\ ins' = [ins EXCEPT ![w].new = ids, ![w].backup = IF sc.one THEN NoChild ELSE curr.child]
        /\ Goto(w, "search", "flags")
        /\ UNCHANGED <<result, lzf, m_n_words, rd, prog, sc, leaked, store>>

\* Copying curr: first its flags, then its children.  A copy of a node that was
\* locked or marked is thrown away.
copy_flags(w) ==
    LET p == a[ins[w].curr]
    IN  /\ ~sc.one
        /\ Goto(w, "flags", "childs")
        /\ ins' = [ins EXCEPT ![w].clean = ~p.lock /\ ~p.lazy_free]
        /\ UNCHANGED <<a, result, lzf, m_n_words, rd, prog, sc, leaked, store>>

copy_conflict(w) ==
    /\ pc[w] = "childs" /\ ~ins[w].clean
    /\ retry(w, UpdateNodes(ins[w]), a, {})

\* init_token_value_mw: the value is made at most once for an insert.
init_value_fail(w) ==
    /\ w \in sc.InitFails /\ ~ins[w].is_value_inited
    /\ \/ pc[w] = "flags" /\ sc.one
       \/ pc[w] = "childs" /\ ins[w].clean
       \/ pc[w] = "fast_value"
    /\ a' = Restrict(a, DOMAIN a \ UpdateNodes(ins[w]))
    /\ Return(w, "no_value")
    /\ Ended(w)
    /\ UNCHANGED <<lzf, m_n_words, rd, prog, sc, leaked, store>>

copy_childs(w) ==
    LET i == ins[w]
        copy == [a[i.curr] EXCEPT !.lock = FALSE, !.lazy_free = FALSE]
    IN  /\ Goto(w, "childs", "lock_parent")
        /\ i.clean
        /\ a' = Fill(i.new, Prepared(w, copy))
        /\ ins' = [ins EXCEPT ![w].is_value_inited = TRUE]
        /\ UNCHANGED <<result, lzf, m_n_words, rd, prog, sc, leaked, store>>

-----------------------------------------------------------------------------
(* update_curr_ptr_concurrent.                                             *)

Unlocked(p) == ~p.lock /\ ~p.lazy_free

\* The load and the compare-and-swap of a word are one step: a change between
\* them only makes the swap fail.
lock_parent(w) ==
    LET p == a[ins[w].parent]
    IN  \/ /\ Goto(w, "lock_parent", "lock_curr")
           /\ Unlocked(p)
           /\ a' = [a EXCEPT ![ins[w].parent].lock = TRUE]
           /\ ins' = [ins EXCEPT ![w].parent_unlock =
                          [final |-> p.final, set_final |-> p.set_final]]
           /\ UNCHANGED <<result, lzf, m_n_words, rd, prog, sc, leaked, store>>
        \/ /\ pc[w] = "lock_parent" /\ ~Unlocked(p)
           /\ retry(w, UpdateNodes(ins[w]), a, {})

\* May curr be marked as lazy free?
SlipMayMarkLazy(p) == ~p.lock
SlipMayMark(p) == ~p.lazy_free
MayMark(p) == Unlocked(p)

lock_curr(w) ==
    LET p == a[ins[w].curr]
    IN  /\ Goto(w, "lock_curr", IF MayMark(p) THEN "compare" ELSE "race1")
        /\ a' = IF MayMark(p) THEN [a EXCEPT ![ins[w].curr].lazy_free = TRUE] ELSE a
        /\ UNCHANGED <<ins, result, lzf, m_n_words, rd, prog, sc, leaked, store>>

\* Are the children of curr still the ones that were saved?
SlipSameChildren(w) == TRUE
SameChildren(w) == a[ins[w].curr].child = ins[w].backup

compare_backup(w) ==
    /\ Goto(w, "compare", IF SameChildren(w) THEN "cas_child" ELSE "race0")
    /\ UNCHANGED <<a, ins, result, lzf, m_n_words, rd, prog, sc, leaked, store>>

cas_child(w) ==
    LET i == ins[w]
    IN  /\ Goto(w, "cas_child", "unlock")
        /\ a[i.parent].child[Slot(i)] = i.curr
        /\ a' = [a EXCEPT ![i.parent].child[Slot(i)] = i.new[1]]
        /\ Inserted(w)
        /\ UNCHANGED <<ins, result, lzf, m_n_words, rd, prog, sc, leaked>>

\* The store of parent_unlock writes the whole word back as it was when the
\* lock was taken.
SlipUnlockParent(i) == a
UnlockParent(i) ==
    [a EXCEPT ![i.parent].lock = FALSE,
              ![i.parent].lazy_free = FALSE,
              ![i.parent].final = i.parent_unlock.final,
              ![i.parent].set_final = i.parent_unlock.set_final]

\* Success: curr is retired and the word counted.
update_done(w) ==
    /\ pc[w] = "unlock"
    /\ a' = UnlockParent(ins[w])
    /\ lzf' = [lzf EXCEPT ![w] = @ \cup {ins[w].curr}]
    /\ m_n_words' = [m_n_words EXCEPT ![w] = @ + 1]
    /\ Return(w, "inserted")
    /\ Ended(w)
    /\ UNCHANGED <<rd, prog, sc, leaked, store>>

\* RaceCondition0 stores curr_unlock, without the mark, into curr.
race0(w) ==
    /\ Goto(w, "race0", "race1")
    /\ a' = [a EXCEPT ![ins[w].curr].lazy_free = FALSE, ![ins[w].curr].lock = FALSE]
    /\ UNCHANGED <<ins, result, lzf, m_n_words, rd, prog, sc, leaked, store>>

\* RaceCondition1 unlocks the parent, RaceCondition2 frees the new nodes.
race1(w) ==
    /\ pc[w] = "race1"
    /\ retry(w, UpdateNodes(ins[w]), UnlockParent(ins[w]), {})

-----------------------------------------------------------------------------
(* Fast nodes.                                                             *)

\* The slot is nil_state: the chain for the rest of the key is written, then
\* the value made.
fast_chain(w) ==
    LET i == ins[w]
        ids == Alloc(NodesNeeded(i))
    IN  /\ SearchEnds(w) /\ a[i.curr].fast
        /\ Cardinality(FreeNodes) >= NodesNeeded(i)
        /\ a' = Fill(ids, new_suffix_chain(After(Rest(i), 1), ids, w))
        /\ ins' = [ins EXCEPT ![w].new = ids]
        /\ Goto(w, "search", "fast_value")
        /\ UNCHANGED <<result, lzf, m_n_words, rd, prog, sc, leaked, store>>

fast_value(w) ==
    /\ Goto(w, "fast_value", "fast_cas")
    /\ ins' = [ins EXCEPT ![w].is_value_inited = TRUE]
    /\ UNCHANGED <<a, result, lzf, m_n_words, rd, prog, sc, leaked, store>>

\* The slot of the label must still be nil_state.
SlipSlotIsNil(i) == TRUE
SlotIsNil(i) == Rest(i)[1] \notin DOMAIN a[i.curr].child

fast_cas(w) ==
    LET i == ins[w]
    IN  \/ /\ pc[w] = "fast_cas" /\ SlotIsNil(i)
           /\ a' = [a EXCEPT ![i.curr].child = AddEdge(@, Rest(i)[1], i.new[1])]
           /\ m_n_words' = [m_n_words EXCEPT ![w] = @ + 1]
           /\ Return(w, "inserted")
           /\ Ended(w)
           /\ Inserted(w)
           /\ UNCHANGED <<lzf, rd, prog, sc, leaked>>
        \/ /\ pc[w] = "fast_cas" /\ ~SlotIsNil(i)
           \* Only the head of the chain is freed.
           /\ retry(w, {i.new[1]}, a, Range(Tail(i.new)))

\* MarkFinalStateOnFastNode: fetch_or of FLAG_set_final decides who makes the
\* value, the others wait for FLAG_final.
mark_fast(w) ==
    /\ pc[w] = "search" /\ Kind(ins[w]) = "mark" /\ a[ins[w].curr].fast
    /\ Goto(w, "search", IF sc.one THEN "set_value" ELSE "set_final")
    /\ UNCHANGED <<a, ins, result, lzf, m_n_words, rd, prog, sc, leaked, store>>

set_final(w) ==
    LET i == ins[w]
    IN  /\ Goto(w, "set_final", IF a[i.curr].set_final THEN "wait_final" ELSE "set_value")
        /\ a' = [a EXCEPT ![i.curr].set_final = TRUE]
        /\ UNCHANGED <<ins, result, lzf, m_n_words, rd, prog, sc, leaked, store>>

wait_final(w) ==
    /\ pc[w] = "wait_final"
    /\ a[ins[w].curr].final
    /\ Return(w, "duplicate")
    /\ Ended(w)
    /\ UNCHANGED <<a, lzf, m_n_words, rd, prog, sc, leaked, store>>

set_value(w) ==
    \/ /\ Goto(w, "set_value", "or_final")
       /\ a' = [a EXCEPT ![ins[w].curr].val = w]
       /\ ins' = [ins EXCEPT ![w].is_value_inited = TRUE]
       /\ UNCHANGED <<result, lzf, m_n_words, rd, prog, sc, leaked, store>>
    \/ /\ pc[w] = "set_value"
       /\ w \in sc.InitFails /\ ~ins[w].is_value_inited
       /\ Return(w, "no_value")
       /\ Ended(w)
       /\ UNCHANGED <<a, lzf, m_n_words, rd, prog, sc, leaked, store>>

or_final(w) ==
    /\ pc[w] = "or_final"
    /\ a' = [a EXCEPT ![ins[w].curr].final = TRUE]
    /\ m_n_words' = [m_n_words EXCEPT ![w] = @ + 1]
    /\ Return(w, "inserted")
    /\ Ended(w)
    /\ Inserted(w)
    /\ UNCHANGED <<lzf, rd, prog, sc, leaked>>

-----------------------------------------------------------------------------
(* One writer: insert_one_writer<OneWriteMultiRead>.  What it does with a  *)
(* fast node differs from the above only in that nobody interferes.        *)

one_copy(w) ==
    /\ sc.one /\ Goto(w, "flags", "one_retire")
    /\ a' = Fill(ins[w].new, Prepared(w, a[ins[w].curr]))
    /\ ins' = [ins EXCEPT ![w].is_value_inited = TRUE]
    /\ UNCHANGED <<result, lzf, m_n_words, rd, prog, sc, leaked, store>>

\* update_curr_ptr retires curr before it is replaced.
one_retire(w) ==
    /\ Goto(w, "one_retire", "one_link")
    /\ lzf' = [lzf EXCEPT ![w] = @ \cup {ins[w].curr}]
    /\ m_n_words' = [m_n_words EXCEPT ![w] = @ + 1]
    /\ UNCHANGED <<a, ins, result, rd, prog, sc, leaked, store>>

one_link(w) ==
    /\ pc[w] = "one_link"
    /\ a' = [a EXCEPT ![ins[w].parent].child[Slot(ins[w])] = ins[w].new[1]]
    /\ Return(w, "inserted")
    /\ Ended(w)
    /\ Inserted(w)
    /\ UNCHANGED <<lzf, m_n_words, rd, prog, sc, leaked>>

-----------------------------------------------------------------------------
(* lookup                                                                  *)

\* One lookup for each reader: it may start at any time.
lookup(r, k) ==
    /\ rd[r].found = "none"
    /\ rd' = [rd EXCEPT ![r] = [key |-> k, curr |-> Root, pos |-> 0,
                                found |-> "searching", must |-> Linked(k)]]
    /\ UNCHANGED <<a, pc, ins, result, lzf, m_n_words, prog, sc, leaked, store>>

lookup_step(r) ==
    LET p == a[rd[r].curr]
        pos == rd[r].pos + Len(p.zpath) + 1
        v == Verdict(rd[r].key, rd[r].pos, p)
    IN  /\ rd[r].found = "searching"
        /\ rd' = [rd EXCEPT ![r] =
              IF v = "move"
              THEN [@ EXCEPT !.pos = pos, !.curr = p.child[rd[r].key[pos]]]
              ELSE [@ EXCEPT !.found = IF v = "found" THEN "yes" ELSE "no"]]
        /\ UNCHANGED <<a, pc, ins, result, lzf, m_n_words, prog, sc, leaked, store>>

-----------------------------------------------------------------------------
InsertStep(w) ==
    \/ search_move(w) \/ search_found(w)
    \/ alloc_fail(w) \/ alloc_node(w)
    \/ copy_flags(w) \/ copy_conflict(w) \/ init_value_fail(w) \/ copy_childs(w)
    \/ lock_parent(w) \/ lock_curr(w) \/ compare_backup(w) \/ cas_child(w)
    \/ update_done(w) \/ race0(w) \/ race1(w)
    \/ fast_chain(w) \/ fast_value(w) \/ fast_cas(w)
    \/ mark_fast(w) \/ set_final(w) \/ wait_final(w) \/ set_value(w) \/ or_final(w)
    \/ one_copy(w) \/ one_retire(w) \/ one_link(w)

Next ==
    \/ \E w \in Writer : insert(w) \/ InsertStep(w)
    \/ \E r \in Reader : lookup_step(r) \/ \E k \in sc.lookups : lookup(r, k)

Spec == Init /\ [][Next]_vars

-----------------------------------------------------------------------------
(* Properties.                                                             *)

HoldsLock(w, n) ==
    /\ pc[w] \in {"lock_curr", "compare", "cas_child", "unlock", "race0", "race1"}
    /\ ins[w].parent = n
HoldsMark(w, n) ==
    /\ pc[w] \in {"compare", "cas_child", "unlock", "race0"}
    /\ ins[w].curr = n

\* b_lock is set exactly while one writer is between locking and unlocking that
\* parent, and b_lazy_free exactly on the nodes that are retired or that one
\* writer is about to replace: no store of parent_unlock or curr_unlock undoes
\* what another writer did, and no return leaves a node locked.
LockProtocol ==
    ~sc.one => \A n \in DOMAIN a :
        LET holders == {w \in Writer : HoldsLock(w, n)}
            markers == {w \in Writer : HoldsMark(w, n)} \cup {w \in Writer : n \in lzf[w]}
        IN  /\ Cardinality(holders) = IF a[n].lock THEN 1 ELSE 0
            /\ Cardinality(markers) = IF a[n].lazy_free THEN 1 ELSE 0
            /\ holders = {} \/ markers = {}

\* With the parent locked and curr marked, curr is still the child of the
\* parent: the branch "parent has been lazy freed or updated by other threads"
\* after the last compare-and-swap is never taken.
CasChildSucceeds ==
    \A w \in Writer : pc[w] = "cas_child" =>
        /\ Slot(ins[w]) \in DOMAIN a[ins[w].parent].child
        /\ a[ins[w].parent].child[Slot(ins[w])] = ins[w].curr

\* A node in a lazy free list is in one list only and no longer reachable from
\* the root when its writer calls revoke_expired_nodes the next time: that will
\* not free a node of the trie.
RetiredIsUnlinked ==
    /\ \A w \in Writer : pc[w] # "one_link" => lzf[w] \cap Reachable = {}
    /\ \A w, x \in Writer : w # x => lzf[w] \cap lzf[x] = {}

\* Every allocated node is reachable, retired, or held by one insert that is
\* under way: every early exit and retry of insert_multi_writer gives its
\* nodes back, but for the tail of a chain of several nodes that lost the race
\* for a slot of a fast node.
NoNodeLost ==
    DOMAIN a = Reachable \cup leaked
        \cup UNION {lzf[w] \cup Range(ins[w].new) : w \in Writer}
        \cup {ins[w].curr : w \in {x \in Writer : pc[x] = "unlock"}}

\* The trie holds exactly the keys that were inserted, each with the value of the
\* insert that returned true: no writer undoes what another one has linked.
TrieIsStore ==
    \A k \in UNION {Range(sc.keys[w]) : w \in Writer} :
        LET n == Locate(k)
        IN  IF k \in DOMAIN store THEN n # None /\ a[n].val = store[k] ELSE n = None

\* insert_multi_writer behaves like an atomic insertion into a map: inserted
\* keys stay, with the value of the insert that returned true.
Abstract == INSTANCE CsppSet WITH
    op <- [w \in Writer |->
              IF pc[w] = "unlock" THEN [key |-> << >>, result |-> "inserted"]
              ELSE [key |-> ins[w].key, result |-> result[w]]]
Implements == Abstract!SSpec

\* A lookup that starts when the key is in the trie finds it, whatever writers
\* do to the nodes on its way; and what it finds is there.
LookupSeesInserted ==
    \A r \in Reader : /\ rd[r].found = "no" => ~rd[r].must
                      /\ rd[r].found = "yes" => Linked(rd[r].key)


\* "FLAG_set_final is permanent for FastNode: once set, never clear", as
\* MarkFinalStateOnFastNode assumes.
SetFinalPermanent ==
    \A w \in Writer : pc[w] \in {"set_value", "or_final", "wait_final"} =>
        a[ins[w].curr].set_final

=============================================================================
