------------------------------ MODULE CsppScan ------------------------------
(***************************************************************************)
(* The iterator of the CSPP trie beside the writers of CsppInsert.          *)
(*                                                                         *)
(* An iterator keeps the path to its word: for every node on it an entry   *)
(* with the number of children the node had and the child that was taken.  *)
(* Writers replace the nodes of the path at any time; the iterator goes on *)
(* in the nodes it has, old or not, and reads their children again.  One   *)
(* step reads one node; of a fast node, whose slots and final flag change  *)
(* in place, one step reads one slot or the flag.                          *)
(***************************************************************************)
EXTENDS CsppInsert

CONSTANT Slots      \* labels are 0..Slots-1, and a fast node has that many slots

VARIABLE it         \* the iterator of each reader

scanVars == <<vars, it>>

-----------------------------------------------------------------------------
(* Children in the order of their labels.                                  *)

Ordered(n) == Cardinality(DOMAIN a[n].child)
Rank(n, ch) == Cardinality({c \in DOMAIN a[n].child : c < ch})
nth_label(n, nth) == CHOOSE c \in DOMAIN a[n].child : Rank(n, c) = nth
n_children(n) == IF a[n].fast THEN Slots ELSE Ordered(n)

has_next(e) == e.nth + 1 < e.n

\* The order of words.
Less(s, t) ==
    LET n == CommonLen(s, t)
    IN  n < Len(t) /\ (n = Len(s) \/ s[n + 1] < t[n + 1])

-----------------------------------------------------------------------------
(* The state of an iterator: op, the call, and at, where it is in it; key, *)
(* the argument of a seek or the word that a move leaves; curr, the node   *)
(* it reads next; pos, the matched length of key; m_word, m_iter and       *)
(* m_valpos, the last as the node that holds the value; ich, the slot it   *)
(* reads next, and child, the one it found; match, last_stack_top and      *)
(* last_match_len; must, the keys in the trie when the seek began.  During *)
(* a call m_word ends with the label of the child taken in the last entry. *)

NoScan == [at |-> "none", op |-> "none", key |-> << >>, curr |-> Root, pos |-> 0,
           m_word |-> << >>, m_iter |-> << >>, m_valpos |-> None, ich |-> 0,
           child |-> Root, match |-> [top |-> 0, len |-> 0], must |-> {}, moves |-> 0]

Top(i) == i.m_iter[Len(i.m_iter)]
Pop(s, n) == SubSeq(s, 1, Len(s) - n)
SetLast(s, x) == Append(Pop(s, 1), x)

reset1(i) == [i EXCEPT !.m_word = << >>, !.m_iter = << >>, !.m_valpos = None]

\* The call returns false, or true with the word and the value at the last node.
Fails(i) == [reset1(i) EXCEPT !.at = "end"]
Succeeds(i) == [i EXCEPT !.at = "ready", !.m_valpos = Top(i).state]

\* An entry for node n, which takes its nth child, is pushed with the labels
\* of its zpath; then the label of that child.
Push(i, n, nth) ==
    [i EXCEPT !.m_iter = Append(@, [state |-> n, n |-> n_children(n), nth |-> nth,
                                    zlen |-> Len(a[n].zpath)]),
              !.m_word = @ \o a[n].zpath]
Descend(i, ch, child, at) ==
    [i EXCEPT !.m_word = Append(@, ch), !.curr = child, !.at = at]

\* The slots of a fast node are read from ich on; then how goes on.
ReadSlots(i, n, ich, how) == [i EXCEPT !.curr = n, !.ich = ich, !.at = how]

StackPop(i) == [i EXCEPT !.m_word = Pop(@, Top(i).zlen + 1), !.m_iter = Pop(@, 1)]

\* The search goes up to the next entry, unless the last one was the root.
PopOrFail(i, at) == IF Len(i.m_iter) = 1 THEN Fails(i)
                    ELSE [StackPop(i) EXCEPT !.at = at]

\* first_child of the node curr, for the smallest word below it.
first_child(i, how) ==
    IF a[i.curr].fast THEN ReadSlots(i, i.curr, 0, how)
    ELSE Descend(i, nth_label(i.curr, 0), a[i.curr].child[nth_label(i.curr, 0)], "min")

-----------------------------------------------------------------------------
(* seek_lower_bound                                                        *)

\* The word of node curr, or the smallest one below it, is the answer ...
CurrMinSuffix(i) ==
    LET here == Push(i, i.curr, 0)
    IN  IF a[i.curr].final THEN Succeeds(here)
        ELSE first_child(here, "first")

\* ... or the child at the first label that is not smaller than the key's ...
SeekChild(i, ch) ==
    LET lo == Rank(i.curr, ch)
        c == nth_label(i.curr, lo)
    IN  IF lo = Ordered(i.curr) THEN [i EXCEPT !.at = "rewind"]
        ELSE [Descend(Push(i, i.curr, lo), c, a[i.curr].child[c],
                      IF c = ch THEN "seek" ELSE "min")
                 EXCEPT !.pos = i.pos + Len(a[i.curr].zpath) + 1]

\* ... or the word is after all that is below curr.
seek_lower_bound_impl(i) ==
    LET p == a[i.curr]
        rest == After(i.key, i.pos)
        zidx == CommonLen(rest, p.zpath)
    IN  CASE zidx = Len(rest) -> CurrMinSuffix(i)
          [] zidx < Len(rest) /\ zidx < Len(p.zpath) ->
                IF rest[zidx + 1] < p.zpath[zidx + 1] THEN CurrMinSuffix(i)
                ELSE [i EXCEPT !.at = "rewind"]
          [] zidx < Len(rest) /\ zidx = Len(p.zpath) ->
                IF p.fast THEN ReadSlots(i, i.curr, rest[1], "seek_slots")
                ELSE SeekChild(i, rest[zidx + 1])

-----------------------------------------------------------------------------
(* append_lex_min_suffix, append_lex_max_suffix, incr and decr.            *)

append_lex_min_suffix(i) ==
    LET here == Push(i, i.curr, 0)
    IN  IF a[i.curr].fast THEN ReadSlots(here, i.curr, 0, "min_slots")
        ELSE IF a[i.curr].final \/ Ordered(i.curr) = 0 THEN Succeeds(here)
        ELSE first_child(here, "min_slots")

\* Of a fast node the first child is found before the final flag is read.
MinFinal(i) ==
    IF a[i.curr].final THEN Succeeds(i) ELSE Descend(i, i.ich, i.child, "min")

append_lex_max_suffix(i) ==
    LET last == Ordered(i.curr) - 1
        c == nth_label(i.curr, last)
    IN  IF a[i.curr].fast
        THEN ReadSlots(Push(i, i.curr, Slots - 1), i.curr, Slots - 1, "max_slots")
        ELSE IF last < 0 THEN Succeeds(Push(i, i.curr, 0))
        ELSE Descend(Push(i, i.curr, last), c, a[i.curr].child[c], "max")

\* No child follows at m_curr: the next one of the nodes above it.  '\0' is where
\* the label of its child would be.
GoUp(i) == [i EXCEPT !.m_word = Append(@, 0), !.at = "rewind"]

incr(i) ==
    LET at == [i EXCEPT !.curr = Top(i).state, !.key = i.m_word, !.op = "incr"]
    IN  IF a[at.curr].fast \/ Ordered(at.curr) > 0 THEN first_child(at, "incr_slots")
        ELSE GoUp(at)

\* The child that was taken in the last entry becomes the next one, or the one before.
SlipTakeSibling(i, nth, at) ==
    LET n == Top(i).state
        c == nth_label(n, nth)
    IN  [i EXCEPT !.m_word = SetLast(@, c), !.curr = a[n].child[c], !.at = at]
TakeSibling(i, nth, at) ==
    LET n == Top(i).state
        c == nth_label(n, nth)
    IN  [i EXCEPT !.m_iter[Len(i.m_iter)].nth = nth, !.m_word = SetLast(@, c),
                  !.curr = a[n].child[c], !.at = at]

\* The loops over the stack of incr and of seek_lower_bound.
rewind_stack_for_next(i) ==
    LET label == i.m_word[Len(i.m_word)]
    IN  IF i.m_iter = << >> THEN Fails(i)
        ELSE IF ~has_next(Top(i)) THEN PopOrFail(i, "rewind")
        ELSE IF a[Top(i).state].fast
             THEN ReadSlots(i, Top(i).state, label + 1, "next_slots")
             ELSE TakeSibling(i, Top(i).nth + 1, "min")

\* decr leaves m_curr; the word of a node comes before those of its children.
decr(i) ==
    LET here == [i EXCEPT !.key = i.m_word, !.op = "decr"]
    IN  IF Len(i.m_iter) = 1 THEN Fails(here)
        ELSE [here EXCEPT !.at = "decr", !.m_iter = Pop(@, 1),
                          !.m_word = Pop(@, Top(i).zlen)]

WordOfTop(i) ==
    Succeeds([i EXCEPT !.m_word = Pop(@, 1), !.m_iter[Len(i.m_iter)].nth = 0])

decr_stack(i) ==
    LET label == i.m_word[Len(i.m_word)]
    IN  IF Top(i).nth = 0
        THEN IF a[Top(i).state].final THEN WordOfTop(i) ELSE PopOrFail(i, "decr")
        ELSE IF a[Top(i).state].fast
             THEN ReadSlots(i, Top(i).state, label - 1, "prev_slots")
             ELSE TakeSibling(i, Top(i).nth - 1, "max")

-----------------------------------------------------------------------------
(* Fast nodes: a loop over the slots.                                      *)

Up == {"first", "seek_slots", "min_slots", "incr_slots", "next_slots"}
Down == {"max_slots", "prev_slots"}

Taken(i, at) ==
    [i EXCEPT !.m_iter[Len(i.m_iter)].nth = i.ich, !.m_word = SetLast(@, i.ich),
              !.curr = a[i.curr].child[i.ich], !.at = at]

SlotTaken(i) ==
    LET child == a[i.curr].child[i.ich]
    IN  CASE i.at \in {"first", "incr_slots"} -> Descend(i, i.ich, child, "min")
          [] i.at = "seek_slots" ->
                [Descend(Push(i, i.curr, i.ich), i.ich, child,
                         IF i.ich = i.key[i.pos + 1] THEN "seek" ELSE "min")
                    EXCEPT !.pos = @ + 1]
          [] i.at = "min_slots" -> [i EXCEPT !.child = child, !.at = "min_final"]
          [] i.at = "max_slots" -> Descend(i, i.ich, child, "max")
          [] i.at = "next_slots" -> Taken(i, "min")
          [] i.at = "prev_slots" -> Taken(i, "max")

NoSlot(i) ==
    CASE i.at = "first" -> Fails(i)
      [] i.at = "seek_slots" ->
            IF i.m_word = << >> THEN Fails(i) ELSE [i EXCEPT !.at = "rewind"]
      [] i.at = "min_slots" -> Succeeds(i)
      [] i.at = "incr_slots" -> GoUp(i)
      [] i.at = "next_slots" -> PopOrFail(i, "rewind")
      [] i.at = "max_slots" ->
            LET here == [i EXCEPT !.m_iter[Len(i.m_iter)].nth = 0]
            IN  IF i.op = "end" /\ ~a[i.curr].final THEN [here EXCEPT !.at = "end"]
                ELSE Succeeds(here)
      [] i.at = "prev_slots" ->
            IF a[i.curr].final THEN WordOfTop(i) ELSE PopOrFail(i, "decr")

ReadSlot(i) ==
    IF i.ich \notin 0..(Slots - 1) THEN NoSlot(i)
    ELSE IF i.ich \in DOMAIN a[i.curr].child THEN SlotTaken(i)
    ELSE [i EXCEPT !.ich = IF i.at \in Up THEN @ + 1 ELSE @ - 1]

-----------------------------------------------------------------------------
(* seek_max_prefix: the longest word of the trie that key begins with.     *)

RestoreLastMatch(i) ==
    LET top == i.match.top
    IN  IF top = 0 THEN [i EXCEPT !.at = "end", !.m_iter = << >>, !.m_word = << >>]
        ELSE [i EXCEPT !.at = "ready", !.m_word = Prefix(i.key, i.match.len),
                       !.m_iter = [Prefix(@, top) EXCEPT ![top].nth = 0]]

PrefixChild(i, ch, nth) ==
    [Descend(i, ch, a[i.curr].child[ch], "prefix")
        EXCEPT !.pos = @ + 1, !.m_iter[Len(i.m_iter)].nth = nth]

\* A key that is longer than the word of a leaf gets to TERARK_DIE("0 == cnt_type").
seek_max_prefix(i) ==
    LET p == a[i.curr]
        zidx == CommonLen(After(i.key, i.pos), p.zpath)
        here == [Push(i, i.curr, 0) EXCEPT !.pos = @ + zidx]
        ch == i.key[here.pos + 1]
    IN  IF zidx < Len(p.zpath) THEN RestoreLastMatch(here)
        ELSE LET seen == [here EXCEPT !.match = IF p.final
                             THEN [top |-> Len(here.m_iter), len |-> here.pos] ELSE @]
             IN  CASE here.pos = Len(i.key) -> RestoreLastMatch(seen)
                   [] here.pos < Len(i.key) /\ p.fast -> [seen EXCEPT !.at = "prefix_slot"]
                   [] here.pos < Len(i.key) /\ ~p.fast ->
                        IF Ordered(i.curr) = 0 THEN [seen EXCEPT !.at = "die"]
                        ELSE IF ch \in DOMAIN p.child
                        THEN PrefixChild(seen, ch, Rank(i.curr, ch))
                        ELSE RestoreLastMatch(seen)

PrefixSlot(i) ==
    LET ch == i.key[i.pos + 1]
    IN  IF ch \in DOMAIN a[i.curr].child THEN PrefixChild(i, ch, ch) ELSE RestoreLastMatch(i)

-----------------------------------------------------------------------------
ScanInit == Init /\ it = [r \in Reader |-> NoScan]

Scanned(r, i) == it' = [it EXCEPT ![r] = i] /\ UNCHANGED vars

\* A call that starts at the root.
Starts(r, op, at, k) ==
    /\ it[r].at = "none"
    /\ Scanned(r, [NoScan EXCEPT !.op = op, !.at = at, !.key = k, !.must = DOMAIN store])

seek_lower_bound(r) == \E k \in sc.seeks : Starts(r, "lower", "seek", k)
seek_end(r) == sc.seeks # {} /\ Starts(r, "end", "max", << >>)
seek_max_prefix_call(r) == \E k \in sc.seeks : Starts(r, "prefix", "prefix", k)

\* A call that moves a positioned iterator.
move(r) ==
    /\ it[r].at = "ready" /\ it[r].moves < sc.moves
    /\ \E i \in {incr(it[r]), decr(it[r])} : Scanned(r, [i EXCEPT !.moves = @ + 1])

\* The next read of the call that is under way.
scan_step(r) ==
    LET i == it[r]
    IN  \/ i.at = "seek" /\ Scanned(r, seek_lower_bound_impl(i))
        \/ i.at = "min" /\ Scanned(r, append_lex_min_suffix(i))
        \/ i.at = "min_final" /\ Scanned(r, MinFinal(i))
        \/ i.at = "max" /\ Scanned(r, append_lex_max_suffix(i))
        \/ i.at = "rewind" /\ Scanned(r, rewind_stack_for_next(i))
        \/ i.at = "decr" /\ Scanned(r, decr_stack(i))
        \/ i.at \in Up \cup Down /\ Scanned(r, ReadSlot(i))
        \/ i.at = "prefix" /\ Scanned(r, seek_max_prefix(i))
        \/ i.at = "prefix_slot" /\ Scanned(r, PrefixSlot(i))

ScanNext ==
    \/ Next /\ UNCHANGED it
    \/ \E r \in Reader : \/ seek_lower_bound(r) \/ seek_end(r) \/ seek_max_prefix_call(r)
                         \/ move(r) \/ scan_step(r)

\* Every thread that is inside insert goes on: nothing in the code blocks.
ScanSpec ==
    /\ ScanInit /\ [][ScanNext]_scanVars
    /\ \A w \in Writer : WF_scanVars(sc.seeks = {} /\ InsertStep(w) /\ UNCHANGED it)

-----------------------------------------------------------------------------
(* Properties.                                                             *)

\* The words that a call may return, as far as key tells, and of two of them the
\* one that it should prefer.
Answer(op, key, k) ==
    CASE op = "lower" -> ~Less(k, key)
      [] op = "incr" -> Less(key, k)
      [] op = "decr" -> Less(k, key)
      [] op = "end" -> TRUE
      [] op = "prefix" -> CommonLen(k, key) = Len(k)
Better(op, k, l) == IF op \in {"lower", "incr"} THEN Less(k, l) ELSE Less(l, k)

\* A seek or a move that returns true is at a word that was inserted, with its value
\* (but seek_max_prefix leaves m_valpos unset), and that is on the right side of
\* where it started; it skips no word that was in the trie when
\* the seek began, and returns false only if there is none of them left: however
\* many nodes of its path the writers have replaced since.  The length that
\* seek_max_prefix returns is at least what key has in common with each of them.
ScanRight ==
    \A r \in Reader :
        LET i == it[r]
            left == {k \in i.must : Answer(i.op, i.key, k)}
        IN  /\ i.at = "end" => left = {}
            /\ i.op = "prefix" /\ i.at \in {"end", "ready"} =>
                   \A k \in i.must : CommonLen(i.key, k) <= i.pos
            /\ i.at = "ready" => /\ i.m_word \in DOMAIN store
                                 /\ Answer(i.op, i.key, i.m_word)
                                 /\ \A k \in left : ~Better(i.op, k, i.m_word)
                                 /\ i.op # "prefix" => a[i.m_valpos].val = store[i.m_word]
=============================================================================
