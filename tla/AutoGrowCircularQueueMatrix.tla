-------------------- MODULE AutoGrowCircularQueueMatrix --------------------
(***************************************************************************)
(* The queue behind the lazy free lists of the CSPP trie: a ring of        *)
(* m_rows rows of Cols cells each.  A row is allocated when the tail comes *)
(* to it and freed when the head leaves it; when the ring is full the      *)
(* table of rows is doubled, and the rows of one end move to its upper     *)
(* half.  CsppReclaim takes this queue for a sequence.                     *)
(***************************************************************************)
EXTENDS Integers, Sequences, FiniteSets, Functions

CONSTANTS Rows,      \* the rows at first, and
          Cols,      \* m_cols: powers of two greater than one
          MaxPush    \* bound: elements that are pushed

ASSUME MatrixAssumption ==
    /\ {Rows, Cols} \subseteq {2^k : k \in 1..16}
    /\ MaxPush \in Nat

VARIABLES m_mtrx, m_rows, m_head, m_tail,
          heap,      \* the rows that malloc returned and nobody freed
          pushed,    \* how many elements were pushed; an element is its number
          popped,
          at_one     \* the ring grew with m_head = 1 (grow_low below)

matrixVars == <<m_mtrx, m_rows, m_head, m_tail, heap, pushed, popped, at_one>>

Null == 0
Garbage == [c \in 0..(Cols - 1) |-> -1]      \* what malloc leaves in a row

MatrixInit ==
    /\ m_rows = Rows /\ m_mtrx = [r \in 0..(Rows - 1) |-> Null]
    /\ m_head = 0 /\ m_tail = 0
    /\ heap = << >>
    /\ pushed = 0 /\ popped = 0 /\ at_one = FALSE

m_capa == m_rows * Cols
RowOf(pos) == pos \div Cols
ColOf(pos) == pos % Cols
remain == (m_head - m_tail) % m_capa
size == (m_tail - m_head) % m_capa

malloc(h) == CHOOSE id \in 1..(Cardinality(DOMAIN h) + 1) : id \notin DOMAIN h
With(h, id, row) == [i \in DOMAIN h \cup {id} |-> IF i = id THEN row ELSE h[i]]

-----------------------------------------------------------------------------
(* Operators named Slip... are wrong variants of the definition after them, *)
(* used to see that the properties notice.                                  *)

\* The head leaves its row, in which the tail is not beyond the first cell.
SlipRowIsFree == ColOf(m_head + 1) = 0
RowIsFree == ColOf(m_head + 1) = 0 /\ remain >= Cols - 1

pop_front ==
    LET row == RowOf(m_head)
    IN  /\ m_head # m_tail
        /\ IF RowIsFree
           THEN /\ heap' = Restrict(heap, DOMAIN heap \ {m_mtrx[row]})
                /\ m_mtrx' = [m_mtrx EXCEPT ![row] = Null]
           ELSE UNCHANGED <<heap, m_mtrx>>
        /\ m_head' = (m_head + 1) % m_capa
        /\ popped' = popped + 1
        /\ UNCHANGED <<m_rows, m_tail, pushed, at_one>>

-----------------------------------------------------------------------------
(* emplace_back                                                            *)

\* The element is put at tail of the given table.  A row that is not there is
\* allocated, when the tail comes to its first cell (TERARK_VERIFY_EZ(tail_col)).
emplace_back_fast_path(mtrx, rows, h, tail) ==
    LET old == mtrx[RowOf(tail)]
        id == IF old = Null THEN malloc(h) ELSE old
        cells == IF old = Null THEN Garbage ELSE h[old]
    IN  /\ old = Null => ColOf(tail) = 0
        /\ m_mtrx' = [mtrx EXCEPT ![RowOf(tail)] = id]
        /\ heap' = With(h, id, [cells EXCEPT ![ColOf(tail)] = pushed])
        /\ m_rows' = rows
        /\ m_tail' = (tail + 1) % (rows * Cols)
        /\ pushed' = pushed + 1
        /\ UNCHANGED popped

emplace_room ==
    /\ pushed < MaxPush /\ remain # 1
    /\ emplace_back_fast_path(m_mtrx, m_rows, heap, m_tail)
    /\ UNCHANGED <<m_head, at_one>>

\* double_cap: the places of the doubled table, and a copy of row old of which the
\* cells in kept are initialised.
Doubled == 0..(2 * m_rows - 1)
CopyOf(old, kept) ==
    With(heap, malloc(heap),
         [c \in DOMAIN Garbage |-> IF c \in kept THEN heap[old][c] ELSE Garbage[c]])

\* The rows from the head on move up; the row of the head is split, unless the
\* head is at its start.
grow_head ==
    LET head_row == RowOf(m_head)
        head_col == ColOf(m_head)
        old == m_mtrx[head_row]
        table == [r \in Doubled |->
                     CASE r < head_row -> m_mtrx[r]
                       [] r = head_row -> IF head_col # 0 THEN old ELSE malloc(heap)
                       [] head_row < r /\ r < m_rows + head_row -> Null
                       [] r = m_rows + head_row ->
                              IF head_col # 0 THEN malloc(heap) ELSE old
                       [] r > m_rows + head_row -> m_mtrx[r - m_rows]]
        kept == IF head_col # 0 THEN head_col..(Cols - 1) ELSE {}
    IN  /\ head_row > m_rows \div 2
        /\ emplace_back_fast_path(table, 2 * m_rows, CopyOf(old, kept), m_tail)
        /\ m_head' = m_head + m_capa
        /\ UNCHANGED at_one

\* Nothing moves.  With m_head = 1 the tail becomes m_rows, not m_capa.
grow_low ==
    LET table == [r \in Doubled |-> IF r < m_rows THEN m_mtrx[r] ELSE Null]
    IN  /\ RowOf(m_head) <= m_rows \div 2 /\ m_head <= 1
        /\ emplace_back_fast_path(table, 2 * m_rows, heap,
                                  IF m_head = 0 THEN m_tail ELSE m_rows)
        /\ at_one' = (at_one \/ m_head = 1)
        /\ UNCHANGED m_head

\* The rows up to the tail move up; the row of the tail is split.
grow_tail ==
    LET tail_row == RowOf(m_tail)
        table == [r \in Doubled |->
                     CASE r < tail_row -> Null
                       [] tail_row <= r /\ r < m_rows -> m_mtrx[r]
                       [] m_rows <= r /\ r < m_rows + tail_row -> m_mtrx[r - m_rows]
                       [] r = m_rows + tail_row -> malloc(heap)
                       [] r > m_rows + tail_row -> Null]
        kept == 0..(ColOf(m_tail) - 1)
    IN  /\ RowOf(m_head) <= m_rows \div 2 /\ m_head > 1
        /\ emplace_back_fast_path(table, 2 * m_rows,
                                  CopyOf(m_mtrx[tail_row], kept), m_tail + m_capa)
        /\ UNCHANGED <<m_head, at_one>>

emplace_grow ==
    /\ pushed < MaxPush /\ remain = 1
    /\ grow_head \/ grow_low \/ grow_tail

MatrixNext == emplace_room \/ emplace_grow \/ pop_front

MatrixSpec == MatrixInit /\ [][MatrixNext]_matrixVars

-----------------------------------------------------------------------------
(* Properties.                                                             *)

Cell(pos) ==
    LET id == m_mtrx[RowOf(pos)]
    IN  IF id \in DOMAIN heap THEN heap[id][ColOf(pos)] ELSE -1

\* The queue holds the elements that were pushed and not popped, in that order;
\* each allocated row is in one place of the table and each place holds an
\* allocated row or none, so that every row is freed once; and the row at the tail
\* is there unless the tail is at its start, as emplace_back demands.
QueueRight ==
    /\ [i \in 1..size |-> Cell((m_head + i - 1) % m_capa)]
           = [i \in 1..(pushed - popped) |-> popped + i - 1]
    /\ \A id \in DOMAIN heap : Cardinality({r \in DOMAIN m_mtrx : m_mtrx[r] = id}) = 1
    /\ Range(m_mtrx) \subseteq DOMAIN heap \cup {Null}
    /\ m_mtrx[RowOf(m_tail)] = Null => ColOf(m_tail) = 0

\* The same, up to the first growth with m_head = 1, which forgets most of the
\* elements.
QueueRightUnlessAtOne == at_one \/ QueueRight
=============================================================================
