-------------------------- MODULE CsppToken_proofs --------------------------
(***************************************************************************)
(* Proofs about the token queue: for every set of tokens and every number  *)
(* of operations the list is in version order, is_head marks its first     *)
(* element, and cached minimal versions are safe.                          *)
(***************************************************************************)
EXTENDS CsppToken, TLAPS

(***************************************************************************)
(* The inductive invariant.  VersionOrder alone is not inductive: rotate   *)
(* stores the version of a token it takes for the head (HeadFlag, and that *)
(* the flag read before taking the mutex is still set), and mt_acquire     *)
(* gives a new version to a token that must not stand in the list.         *)
(***************************************************************************)
Rotating == {"rotate_acquire", "rotate_idle", "rotate_insert"}

ReadsStillTrue ==
    \A t \in Token : /\ pc[t] \in Rotating => is_head[t]
                     /\ pc[t] = "idle_locked" => level = "readonly"
                     /\ state[t] = "ReleaseDone" => ~Queued(t)

QueueInv == TypeOK /\ VersionOrder /\ HeadFlag /\ StaleMinIsSafe /\ ReadsStillTrue

-----------------------------------------------------------------------------
\* What removing an element does to a list without duplicates.
LEMMA RemoveSelfLemma ==
    ASSUME NEW q \in Seq(Token), NEW t \in Token,
           \E k \in 1..Len(q) : q[k] = t
    PROVE  /\ remove_self(q, t) \in Seq(Token)
           /\ Len(remove_self(q, t)) = Len(q) - 1
           /\ \E k \in 1..Len(q) :
                /\ q[k] = t
                /\ \A i \in 1..(Len(q) - 1) :
                      remove_self(q, t)[i] = IF i < k THEN q[i] ELSE q[i + 1]
<1> DEFINE k == CHOOSE k \in 1..Len(q) : q[k] = t
           r == [i \in 1..(Len(q) - 1) |-> IF i < k THEN q[i] ELSE q[i + 1]]
<1>1. k \in 1..Len(q) /\ q[k] = t
  OBVIOUS
<1>2. remove_self(q, t) = r
  BY DEF remove_self
<1> HIDE DEF k
<1>3. Len(q) - 1 \in Nat
  BY <1>1
<1>4. \A i \in 1..(Len(q) - 1) : r[i] \in Token
  BY <1>1
<1>5. r \in Seq(Token) /\ Len(r) = Len(q) - 1
  BY <1>3, <1>4
<1> QED
  BY <1>1, <1>2, <1>5

THEOREM InitQueueInv == Init => QueueInv
<1> SUFFICES ASSUME Init PROVE QueueInv
  OBVIOUS
<1> USE DEF Init
<1>1. TypeOK
  BY DEF TypeOK, TokenState, Control
<1>2. VersionOrder /\ HeadFlag
  BY DEF VersionOrder, HeadFlag, IsFirst
<1>3. StaleMinIsSafe /\ ReadsStillTrue
  BY DEF StaleMinIsSafe, ReadsStillTrue, Rotating, Queued
<1> QED
  BY <1>1, <1>2, <1>3 DEF QueueInv

\* The tests, the own-state changes and the returns of an operation.
UnlockedStep(t) ==
    \/ acquire(t) \/ mt_acquire_idle(t) \/ idle(t) \/ maybe_rotate_idle(t)
    \/ release(t) \/ insert(t) \/ insert_return(t)

\* A step outside the mutex preserves the invariant: it only changes the
\* thread's own control point and state.
LEMMA UnlockedStepInv ==
    ASSUME QueueInv, NEW t \in Token, UnlockedStep(t)
    PROVE  QueueInv'
<1> USE DEF QueueInv
<1>1. UNCHANGED <<level, tokenVars>>
  BY DEF UnlockedStep, acquire, mt_acquire_idle, idle, maybe_rotate_idle,
         release, insert, insert_return
<1>2. /\ pc' \in [Token -> Control] /\ state' \in [Token -> TokenState]
      /\ \A u \in Token : u # t => pc'[u] = pc[u] /\ state'[u] = state[u]
  BY DEF UnlockedStep, acquire, mt_acquire_idle, idle, maybe_rotate_idle,
         release, insert, insert_return, maybe_rotate, Goto, TypeOK, Control,
         TokenState
<1>3. /\ pc'[t] \in Rotating => is_head[t]
      /\ pc'[t] = "idle_locked" => level = "readonly"
      /\ state'[t] = "ReleaseDone" => ~Queued(t)
  <2>1. CASE acquire(t)
    BY <2>1 DEF acquire, Goto, TypeOK, Rotating, ReadsStillTrue
  <2>2. CASE mt_acquire_idle(t)
    BY <2>2 DEF mt_acquire_idle, maybe_rotate, MayRotate, Goto, TypeOK, Rotating
  <2>3. CASE idle(t)
    BY <2>3 DEF idle, Goto, TypeOK, Rotating
  <2>4. CASE maybe_rotate_idle(t)
    BY <2>4 DEF maybe_rotate_idle, maybe_rotate, MayRotate, Goto, TypeOK,
                Rotating, ReadsStillTrue
  <2>5. CASE release(t)
    BY <2>5 DEF release, Goto, TypeOK, Rotating, Queued, VersionOrder
  <2>6. CASE insert(t)
    BY <2>6 DEF insert, Goto, TypeOK, Rotating
  <2>7. CASE insert_return(t)
    BY <2>7 DEF insert_return, Goto, TypeOK, Rotating, ReadsStillTrue
  <2> QED
    BY <2>1, <2>2, <2>3, <2>4, <2>5, <2>6, <2>7 DEF UnlockedStep
<1>4. TypeOK' /\ VersionOrder' /\ HeadFlag' /\ StaleMinIsSafe'
  BY <1>1, <1>2 DEF tokenVars, TypeOK, VersionOrder, HeadFlag, IsFirst,
                    StaleMinIsSafe
<1>5. ReadsStillTrue'
  BY <1>1, <1>2, <1>3 DEF ReadsStillTrue, tokenVars, Queued
<1> QED
  BY <1>4, <1>5

-----------------------------------------------------------------------------
\* rotate preserves the invariant because the rotating token is the first of
\* the list: its version is the smallest, and it becomes the minimum.
LEMMA RotateInv ==
    ASSUME QueueInv, NEW t \in Token, pc[t] \in Rotating,
           NEW target \in {"AcquireDone", "AcquireIdle"}, rotate(t, target),
           NEW to \in {"ready", "insert"}, pc' = [pc EXCEPT ![t] = to],
           UNCHANGED level
    PROVE  QueueInv'
<1> USE DEF QueueInv
<1> DEFINE r == remove_self(queue, t)
           n == Len(queue)
<1>1. n > 0 /\ n \in Nat /\ queue[1] = t /\ is_head[t]
  BY DEF ReadsStillTrue, HeadFlag, IsFirst, TypeOK
<1>2. \A i \in 1..n : queue[i] = t => i = 1
  <2> SUFFICES ASSUME NEW i \in 1..n, queue[i] = t, i # 1
               PROVE  FALSE
    OBVIOUS
  <2>1. 1 \in 1..n /\ 1 < i
    BY <1>1
  <2>2. m_verseq[queue[1]] < m_verseq[queue[i]]
    BY <2>1 DEF VersionOrder
  <2>3. m_verseq[t] \in Nat
    BY DEF TypeOK
  <2> QED
    BY <1>1, <2>2, <2>3
<1>3. /\ r \in Seq(Token) /\ Len(r) = n - 1
      /\ \A i \in 1..(n - 1) : r[i] = queue[i + 1]
  <2>1. \E k \in 1..n : queue[k] = t
    BY <1>1
  <2>2. queue \in Seq(Token)
    BY DEF TypeOK
  <2>3. r \in Seq(Token) /\ Len(r) = n - 1
    BY <2>1, <2>2, RemoveSelfLemma
  <2>4. PICK k \in 1..n :
           /\ queue[k] = t
           /\ \A i \in 1..(n - 1) : r[i] = IF i < k THEN queue[i] ELSE queue[i + 1]
    BY <2>1, <2>2, RemoveSelfLemma
  <2>5. k = 1
    BY <1>2, <2>4
  <2> QED
    BY <2>3, <2>4, <2>5
<1> HIDE DEF r
<1>4. /\ queue' = Append(r, t) /\ queue' \in Seq(Token) /\ Len(queue') = n
      /\ queue'[n] = t
      /\ \A i \in 1..(n - 1) : queue'[i] = queue[i + 1]
  BY <1>1, <1>3 DEF rotate, r
<1>5. /\ m_verseq' = [m_verseq EXCEPT ![t] = dummy_verseq]
      /\ dummy_verseq' = dummy_verseq + 1
      /\ dummy_min_verseq' = m_verseq[t]
      /\ m_min_verseq' = [m_min_verseq EXCEPT ![t] = m_verseq[t]]
      /\ m_token_qlen' = m_token_qlen
      /\ state' = [state EXCEPT ![t] = target]
      /\ is_head' = [[is_head EXCEPT ![t] = FALSE] EXCEPT ![queue'[1]] = TRUE]
  BY DEF rotate, NextVerseq
<1>6. TypeOK'
  <2>1. pc' \in [Token -> Control] /\ state' \in [Token -> TokenState]
    BY <1>5 DEF TypeOK, Control, TokenState
  <2>2. is_head' \in [Token -> BOOLEAN]
    BY <1>5 DEF TypeOK
  <2>3. dummy_verseq' \in Nat /\ dummy_min_verseq' \in Nat
    BY <1>5 DEF TypeOK
  <2>4. m_verseq' \in [Token -> Nat] /\ m_min_verseq' \in [Token -> Nat]
    BY <1>5 DEF TypeOK
  <2> QED
    BY <1>4, <1>5, <2>1, <2>2, <2>3, <2>4 DEF TypeOK
<1>7. VersionOrder'
  <2>1. \A i \in 1..(n - 1) : /\ queue'[i] # t
                              /\ m_verseq'[queue'[i]] = m_verseq[queue[i + 1]]
                              /\ queue[i + 1] \in Token
    <3> TAKE i \in 1..(n - 1)
    <3>1. i + 1 \in 1..n /\ i + 1 # 1
      BY <1>1
    <3>2. queue[i + 1] \in Token /\ queue[i + 1] # t
      BY <1>2, <3>1 DEF TypeOK
    <3> QED
      BY <1>4, <1>5, <3>2 DEF TypeOK
  <2>2. m_verseq'[queue'[n]] = dummy_verseq
    BY <1>4, <1>5 DEF TypeOK
  <2>3. \A i \in 1..(n - 1) : /\ m_verseq[t] < m_verseq[queue[i + 1]]
                              /\ m_verseq[queue[i + 1]] < dummy_verseq
    BY <1>1 DEF VersionOrder
  <2>4. \A i, j \in 1..n : i < j => m_verseq'[queue'[i]] < m_verseq'[queue'[j]]
    <3> TAKE i, j \in 1..n
    <3> HAVE i < j
    <3>1. i \in 1..(n - 1)
      BY <1>1
    <3>2. CASE j = n
      BY <2>1, <2>2, <2>3, <3>1, <3>2
    <3>3. CASE j # n
      <4>1. j \in 1..(n - 1) /\ i + 1 \in 1..n /\ j + 1 \in 1..n /\ i + 1 < j + 1
        BY <1>1, <3>1, <3>3
      <4> QED
        BY <2>1, <3>1, <4>1 DEF VersionOrder
    <3> QED
      BY <3>2, <3>3
  <2>5. \A i \in 1..n : /\ m_verseq[t] <= m_verseq'[queue'[i]]
                        /\ m_verseq'[queue'[i]] < dummy_verseq + 1
    <3> TAKE i \in 1..n
    <3>0. m_verseq[t] < dummy_verseq /\ m_verseq[t] \in Nat /\ dummy_verseq \in Nat
      <4>1. 1 \in 1..n
        BY <1>1
      <4>2. m_verseq[queue[1]] < dummy_verseq
        BY <4>1 DEF VersionOrder
      <4> QED
        BY <1>1, <4>2 DEF TypeOK
    <3>1. CASE i = n
      BY <2>2, <3>0, <3>1
    <3>2. CASE i # n
      <4>1. i \in 1..(n - 1) /\ m_verseq[queue[i + 1]] \in Nat
        BY <1>1, <2>1, <3>2 DEF TypeOK
      <4> QED
        BY <2>1, <2>3, <3>0, <4>1
    <3> QED
      BY <3>1, <3>2
  <2>6. m_verseq[t] <= dummy_verseq + 1
    <3>1. 1 \in 1..n
      BY <1>1
    <3>2. m_verseq[queue[1]] < dummy_verseq
      BY <3>1 DEF VersionOrder
    <3> QED
      BY <1>1, <3>2 DEF TypeOK
  <2> QED
    BY <1>4, <1>5, <2>4, <2>5, <2>6 DEF VersionOrder
<1>8. HeadFlag'
  <2>1. \A u \in Token : is_head'[u] => u = queue'[1]
    <3> TAKE u \in Token
    <3>1. is_head[u] => u = t
      BY <1>1 DEF HeadFlag, IsFirst
    <3> QED
      BY <1>5, <3>1 DEF TypeOK
  <2>2. queue'[1] \in Token
    BY <1>1, <1>4 DEF TypeOK
  <2>3. is_head'[queue'[1]]
    BY <1>5, <2>2 DEF TypeOK
  <2> QED
    BY <1>1, <1>4, <2>1, <2>3 DEF HeadFlag, IsFirst
<1>9. StaleMinIsSafe'
  <2>1. dummy_min_verseq <= m_verseq[t]
    BY <1>1 DEF VersionOrder
  <2> QED
    BY <1>5, <2>1 DEF StaleMinIsSafe, TypeOK
<1>10. ReadsStillTrue'
  <2> SUFFICES ASSUME NEW u \in Token
               PROVE  /\ pc'[u] \in Rotating => is_head'[u]
                      /\ pc'[u] = "idle_locked" => level' = "readonly"
                      /\ state'[u] = "ReleaseDone" => ~Queued(u)'
    BY DEF ReadsStillTrue
  <2>1. CASE u = t
    BY <1>5, <2>1 DEF TypeOK, Rotating
  <2>2. CASE u # t
    <3>1. pc'[u] = pc[u] /\ state'[u] = state[u]
      BY <1>5, <2>2 DEF TypeOK
    <3>2. ~is_head[u]
      BY <1>1, <2>2 DEF HeadFlag, IsFirst
    <3>3. Queued(u)' => Queued(u)
      BY <1>1, <1>4, <2>2 DEF Queued
    <3> QED
      BY <3>1, <3>2, <3>3 DEF ReadsStillTrue
  <2> QED
    BY <2>1, <2>2
<1> QED
  BY <1>6, <1>7, <1>8, <1>9, <1>10

-----------------------------------------------------------------------------
\* mt_acquire of a released token: it enters at the back with the next
\* version.
LEMMA AcquireInv ==
    ASSUME QueueInv, NEW t \in Token, mt_acquire_released(t)
    PROVE  QueueInv'
<1> USE DEF QueueInv
<1> DEFINE n == Len(queue)
<1>1. ~Queued(t) /\ n \in Nat /\ m_token_qlen = n
  BY DEF mt_acquire_released, ReadsStillTrue, VersionOrder, TypeOK
<1>2. /\ queue' = Append(queue, t)
      /\ m_verseq' = [m_verseq EXCEPT ![t] = dummy_verseq]
      /\ m_min_verseq' = [m_min_verseq EXCEPT ![t] = dummy_min_verseq]
      /\ dummy_verseq' = dummy_verseq + 1
      /\ is_head' = [is_head EXCEPT ![t] = (m_token_qlen = 0)]
      /\ m_token_qlen' = m_token_qlen + 1
      /\ state' = [state EXCEPT ![t] = "AcquireDone"]
      /\ pc' = [pc EXCEPT ![t] = "ready"]
      /\ UNCHANGED <<level, dummy_min_verseq>>
  BY DEF mt_acquire_released, Goto, NextVerseq, CachedMin
<1>3. /\ queue' \in Seq(Token) /\ Len(queue') = n + 1 /\ queue'[n + 1] = t
      /\ \A i \in 1..n : queue'[i] = queue[i]
  BY <1>2 DEF TypeOK
<1>4. TypeOK'
  <2>1. is_head' \in [Token -> BOOLEAN]
    BY <1>2 DEF TypeOK
  <2>2. pc' \in [Token -> Control] /\ state' \in [Token -> TokenState]
    BY <1>2 DEF TypeOK, Control, TokenState
  <2> QED
    BY <1>2, <1>3, <2>1, <2>2 DEF TypeOK
<1>5. \A i \in 1..n : /\ queue[i] \in Token
                      /\ m_verseq'[queue'[i]] = m_verseq[queue[i]]
                      /\ m_verseq[queue[i]] < dummy_verseq
                      /\ dummy_min_verseq <= m_verseq[queue[i]]
                      /\ m_verseq[queue[i]] \in Nat
  <2> TAKE i \in 1..n
  <2>1. queue[i] \in Token /\ queue[i] # t
    BY <1>1 DEF Queued, TypeOK
  <2> QED
    BY <1>2, <1>3, <2>1 DEF VersionOrder, TypeOK
<1>6. m_verseq'[queue'[n + 1]] = dummy_verseq
  BY <1>2, <1>3 DEF TypeOK
<1>7. VersionOrder'
  <2>1. \A i, j \in 1..(n + 1) :
           i < j => m_verseq'[queue'[i]] < m_verseq'[queue'[j]]
    <3> TAKE i, j \in 1..(n + 1)
    <3> HAVE i < j
    <3>1. i \in 1..n
      BY <1>1
    <3>2. CASE j = n + 1
      BY <1>5, <1>6, <3>1, <3>2
    <3>3. CASE j # n + 1
      <4>1. j \in 1..n
        BY <1>1, <3>3
      <4> QED
        BY <1>5, <3>1, <4>1 DEF VersionOrder
    <3> QED
      BY <3>2, <3>3
  <2>2. \A i \in 1..(n + 1) : /\ dummy_min_verseq <= m_verseq'[queue'[i]]
                              /\ m_verseq'[queue'[i]] < dummy_verseq + 1
    <3> TAKE i \in 1..(n + 1)
    <3>1. dummy_min_verseq <= dummy_verseq /\ dummy_verseq \in Nat
      BY DEF VersionOrder, TypeOK
    <3>2. CASE i = n + 1
      BY <1>6, <3>1, <3>2
    <3>3. CASE i # n + 1
      <4>1. i \in 1..n
        BY <1>1, <3>3
      <4> QED
        BY <1>5, <3>1, <4>1
    <3> QED
      BY <3>2, <3>3
  <2>3. dummy_min_verseq <= dummy_verseq + 1
    BY DEF VersionOrder, TypeOK
  <2> QED
    BY <1>1, <1>2, <1>3, <2>1, <2>2, <2>3 DEF VersionOrder
<1>8. HeadFlag'
  <2>1. CASE n = 0
    <3>1. \A u \in Token : ~is_head[u]
      BY <2>1 DEF HeadFlag, IsFirst
    <3>2. \A u \in Token : is_head'[u] => u = t
      BY <1>2, <3>1 DEF TypeOK
    <3>3. is_head'[t]
      BY <1>1, <1>2, <2>1 DEF TypeOK
    <3> QED
      BY <1>3, <2>1, <3>2, <3>3 DEF HeadFlag, IsFirst
  <2>2. CASE n # 0
    <3>1. queue'[1] = queue[1] /\ n > 0 /\ queue[1] # t
      BY <1>1, <1>3, <2>2 DEF Queued
    <3>2. ~is_head'[t] /\ \A u \in Token : u # t => is_head'[u] = is_head[u]
      BY <1>1, <1>2, <2>2 DEF TypeOK
    <3>3. queue[1] \in Token
      BY <3>1 DEF TypeOK
    <3> QED
      BY <1>2, <1>3, <3>1, <3>2, <3>3 DEF HeadFlag, IsFirst
  <2> QED
    BY <2>1, <2>2
<1>9. StaleMinIsSafe'
  BY <1>2 DEF StaleMinIsSafe, TypeOK
<1>10. ReadsStillTrue'
  <2> SUFFICES ASSUME NEW u \in Token
               PROVE  /\ pc'[u] \in Rotating => is_head'[u]
                      /\ pc'[u] = "idle_locked" => level' = "readonly"
                      /\ state'[u] = "ReleaseDone" => ~Queued(u)'
    BY DEF ReadsStillTrue
  <2>1. CASE u = t
    BY <1>2, <2>1 DEF TypeOK, Rotating
  <2>2. CASE u # t
    <3>1. pc'[u] = pc[u] /\ state'[u] = state[u] /\ is_head'[u] = is_head[u]
      BY <1>2, <2>2 DEF TypeOK
    <3>2. Queued(u)' => Queued(u)
      BY <1>1, <1>3, <2>2 DEF Queued
    <3> QED
      BY <1>2, <3>1, <3>2 DEF ReadsStillTrue
  <2> QED
    BY <2>1, <2>2
<1> QED
  BY <1>4, <1>7, <1>8, <1>9, <1>10

-----------------------------------------------------------------------------
\* A token that leaves the list, by mt_release or by idle after set_readonly.
\* Leave states what both do to the list; newMin is the minimal version after
\* it.
Leave(t) ==
    /\ queue' = remove_self(queue, t)
    /\ m_token_qlen' = m_token_qlen - 1
    /\ UNCHANGED <<dummy_verseq, m_verseq, m_min_verseq>>
    /\ \/ dummy_min_verseq' = dummy_min_verseq
       \/ IsFirst(t) /\ dummy_min_verseq' = m_verseq[t]

LEMMA LeaveOrder ==
    ASSUME QueueInv, NEW t \in Token, Queued(t), Leave(t)
    PROVE  /\ VersionOrder' /\ StaleMinIsSafe'
           /\ queue' \in Seq(Token) /\ m_token_qlen' \in Nat
           /\ dummy_min_verseq' \in Nat
           /\ dummy_min_verseq <= dummy_min_verseq'
           /\ ~Queued(t)'
           /\ \A u \in Token : Queued(u)' => Queued(u)
           /\ Len(queue') = Len(queue) - 1
           /\ ~IsFirst(t) => Len(queue') > 0 /\ queue'[1] = queue[1]
<1> USE DEF QueueInv
<1> DEFINE n == Len(queue)
<1>1. n \in Nat /\ queue \in Seq(Token) /\ \E k \in 1..n : queue[k] = t
  BY DEF Queued, TypeOK
<1>2. queue' \in Seq(Token) /\ Len(queue') = n - 1
  BY <1>1, RemoveSelfLemma DEF Leave
<1>3. PICK k \in 1..n :
         /\ queue[k] = t
         /\ \A i \in 1..(n - 1) : queue'[i] = IF i < k THEN queue[i] ELSE queue[i + 1]
  BY <1>1, RemoveSelfLemma DEF Leave
<1>4. \A i \in 1..n : m_verseq[queue[i]] \in Nat
  <2>1. m_verseq \in [Token -> Nat]
    BY DEF TypeOK
  <2>2. \A i \in 1..n : queue[i] \in Token
    BY ONLY <1>1
  <2> QED
    BY ONLY <2>1, <2>2
<1>5. \A i \in 1..n : queue[i] = t => i = k
  <2> SUFFICES ASSUME NEW i \in 1..n, queue[i] = t, i # k PROVE FALSE
    OBVIOUS
  <2>1. i < k \/ k < i
    BY <1>1
  <2>2. m_verseq[queue[i]] < m_verseq[queue[k]] \/ m_verseq[queue[k]] < m_verseq[queue[i]]
    BY <2>1 DEF VersionOrder
  <2> QED
    BY <1>3, <1>4, <2>2
\* The position in the old list of the element at i of the new one.
<1> DEFINE f(i) == IF i < k THEN i ELSE i + 1
<1>6. \A i \in 1..(n - 1) : /\ f(i) \in 1..n /\ f(i) # k
                            /\ queue'[i] = queue[f(i)]
  BY <1>1, <1>3
<1>7. \A i, j \in 1..(n - 1) : i < j => f(i) < f(j)
  BY <1>1
<1> HIDE DEF f
<1>8. \A i, j \in 1..(n - 1) : i < j => m_verseq'[queue'[i]] < m_verseq'[queue'[j]]
  BY <1>6, <1>7 DEF VersionOrder, Leave
<1>9. \A i \in 1..(n - 1) : /\ dummy_min_verseq' <= m_verseq'[queue'[i]]
                            /\ m_verseq'[queue'[i]] < dummy_verseq'
  <2> TAKE i \in 1..(n - 1)
  <2>1. f(i) \in 1..n /\ f(i) # k /\ queue'[i] = queue[f(i)]
    BY <1>6
  <2>2. dummy_min_verseq <= m_verseq[queue[f(i)]] /\ m_verseq[queue[f(i)]] < dummy_verseq
    BY <2>1 DEF VersionOrder
  <2>3. IsFirst(t) => m_verseq[t] <= m_verseq[queue[f(i)]]
    <3> HAVE IsFirst(t)
    <3>1. k = 1
      BY <1>1, <1>5 DEF IsFirst
    <3>2. 1 < f(i)
      BY <2>1, <3>1
    <3>3. m_verseq[queue[1]] < m_verseq[queue[f(i)]]
      BY <2>1, <3>1, <3>2 DEF VersionOrder
    <3> QED
      BY <1>3, <1>4, <2>1, <3>1, <3>3
  <2> QED
    BY <2>1, <2>2, <2>3 DEF Leave
<1>10. /\ dummy_min_verseq' \in Nat /\ dummy_min_verseq' <= dummy_verseq'
       /\ dummy_min_verseq <= dummy_min_verseq'
  <2>1. dummy_min_verseq <= m_verseq[t] /\ m_verseq[t] < dummy_verseq
    BY <1>3 DEF VersionOrder
  <2>2. m_verseq[t] \in Nat /\ dummy_verseq \in Nat /\ dummy_min_verseq \in Nat
    BY DEF TypeOK
  <2>3. dummy_min_verseq <= dummy_verseq
    BY DEF VersionOrder
  <2> QED
    BY <2>1, <2>2, <2>3 DEF Leave
<1>11. m_token_qlen' = n - 1 /\ n - 1 \in Nat
  BY <1>1 DEF Leave, VersionOrder
<1>12. VersionOrder'
  BY <1>2, <1>8, <1>9, <1>10, <1>11 DEF VersionOrder
<1>13. StaleMinIsSafe'
  BY <1>10 DEF StaleMinIsSafe, Leave, TypeOK
<1>14. ~Queued(t)' /\ \A u \in Token : Queued(u)' => Queued(u)
  BY <1>2, <1>5, <1>6 DEF Queued
<1>15. ~IsFirst(t) => Len(queue') > 0 /\ queue'[1] = queue[1]
  <2> HAVE ~IsFirst(t)
  <2>1. n > 1 /\ 1 < k
    BY <1>1, <1>3 DEF IsFirst
  <2> QED
    BY <1>2, <1>3, <2>1
<1> QED
  BY <1>2, <1>10, <1>11, <1>12, <1>13, <1>14, <1>15

\* idle after set_readonly preserves the invariant: the flag of a head that
\* leaves is dropped, which only a writable trie could notice.
LEMMA IdleLockedInv ==
    ASSUME QueueInv, NEW t \in Token, idle_locked(t)
    PROVE  QueueInv'
<1> USE DEF QueueInv
<1>1. /\ level' = level /\ level = "readonly"
      /\ pc' = [pc EXCEPT ![t] = "ready"]
      /\ state' = [state EXCEPT ![t] = "AcquireIdle"]
  BY DEF idle_locked, Goto, ReadsStillTrue
<1>2. /\ pc' \in [Token -> Control] /\ state' \in [Token -> TokenState]
      /\ \A u \in Token : u # t => pc'[u] = pc[u] /\ state'[u] = state[u]
      /\ pc'[t] = "ready" /\ state'[t] = "AcquireIdle"
  BY <1>1 DEF TypeOK, Control, TokenState
<1>3. CASE Queued(t)
  <2>1. Leave(t) /\ is_head' = [is_head EXCEPT ![t] = FALSE]
    BY <1>3 DEF idle_locked, Leave, LeaveQlen
  <2>2. TypeOK'
    <3>1. is_head' \in [Token -> BOOLEAN]
      BY <2>1 DEF TypeOK
    <3> QED
      BY <1>1, <1>2, <1>3, <2>1, <3>1, LeaveOrder DEF TypeOK, Leave
  <2>3. HeadFlag'
    <3> SUFFICES ASSUME NEW u \in Token, is_head'[u] PROVE IsFirst(u)'
      BY <1>1 DEF HeadFlag
    <3>1. u # t /\ is_head[u]
      BY <2>1 DEF TypeOK
    <3>2. Len(queue) > 0 /\ queue[1] = u /\ ~IsFirst(t)
      BY <3>1 DEF HeadFlag, IsFirst
    <3> QED
      BY <1>3, <2>1, <3>2, LeaveOrder DEF IsFirst
  <2>4. ReadsStillTrue'
    <3>1. \A u \in Token : u # t => is_head'[u] = is_head[u]
      BY <2>1 DEF TypeOK
    <3> QED
      BY <1>1, <1>2, <1>3, <2>1, <3>1, LeaveOrder DEF ReadsStillTrue, Rotating
  <2> QED
    BY <1>3, <2>1, <2>2, <2>3, <2>4, LeaveOrder
<1>4. CASE ~Queued(t)
  <2>1. UNCHANGED <<level, tokenVars>>
    BY <1>4 DEF idle_locked, tokenVars, LeaveQlen
  <2>2. TypeOK' /\ VersionOrder' /\ HeadFlag' /\ StaleMinIsSafe'
    BY <1>2, <2>1 DEF tokenVars, TypeOK, VersionOrder, HeadFlag, IsFirst,
                      StaleMinIsSafe
  <2>3. ReadsStillTrue'
    BY <1>2, <2>1 DEF ReadsStillTrue, tokenVars, Queued, Rotating
  <2> QED
    BY <2>2, <2>3
<1> QED
  BY <1>3, <1>4

\* mt_release preserves the invariant: a leaving head hands is_head to its
\* successor and its version to the minimum.
LEMMA ReleaseInv ==
    ASSUME QueueInv, NEW t \in Token, mt_release(t)
    PROVE  QueueInv'
<1> USE DEF QueueInv
<1>1. /\ level' = level
      /\ pc' = [pc EXCEPT ![t] = "ready"]
      /\ state' = [state EXCEPT ![t] = "ReleaseDone"]
  BY DEF mt_release, Goto
<1>2. /\ pc' \in [Token -> Control] /\ state' \in [Token -> TokenState]
      /\ \A u \in Token : u # t => pc'[u] = pc[u] /\ state'[u] = state[u]
      /\ pc'[t] = "ready" /\ state'[t] = "ReleaseDone"
  BY <1>1 DEF TypeOK, Control, TokenState
<1>3. CASE Queued(t)
  <2>1. Leave(t)
    BY <1>3 DEF mt_release, Leave, LeaveQlen, LeaveMin
  <2>2. is_head' = [u \in Token |->
           /\ u # t
           /\ is_head[u] \/ (IsFirst(t) /\ Len(queue') > 0 /\ u = queue'[1])]
    BY <1>3 DEF mt_release, LeaveHead
  <2>3. TypeOK'
    <3>1. is_head' \in [Token -> BOOLEAN]
      BY <2>2 DEF TypeOK
    <3> QED
      BY <1>1, <1>2, <1>3, <2>1, <3>1, LeaveOrder DEF TypeOK, Leave
  <2>4. HeadFlag'
    <3>1. CASE IsFirst(t)
      <4>1. \A u \in Token : is_head[u] => u = t
        BY <3>1 DEF HeadFlag, IsFirst
      <4>2. \A u \in Token : is_head'[u] => Len(queue') > 0 /\ u = queue'[1]
        BY <2>2, <4>1
      <4>3. Len(queue') > 0 => queue'[1] \in Token /\ queue'[1] # t
        <5> HAVE Len(queue') > 0
        <5>1. queue' \in Seq(Token) /\ ~Queued(t)'
          BY <1>3, <2>1, LeaveOrder
        <5>2. 1 \in 1..Len(queue')
          BY ONLY <5>1, Len(queue') > 0
        <5> QED
          BY ONLY <5>1, <5>2 DEF Queued
      <4>4. Len(queue') > 0 => is_head'[queue'[1]]
        BY <2>2, <3>1, <4>3
      <4> QED
        BY <4>2, <4>4 DEF HeadFlag, IsFirst
    <3>2. CASE ~IsFirst(t)
      <4>1. Len(queue') > 0 /\ queue'[1] = queue[1] /\ Len(queue) > 0
        BY <1>3, <2>1, <3>2, LeaveOrder DEF Queued, TypeOK
      <4>2. queue[1] \in Token /\ queue[1] # t
        BY <3>2, <4>1 DEF IsFirst, TypeOK
      <4>3. \A u \in Token : is_head'[u] = (u # t /\ is_head[u])
        BY <2>2, <3>2 DEF TypeOK
      <4>4. \A u \in Token : is_head'[u] => u = queue'[1]
        BY <4>1, <4>3 DEF HeadFlag, IsFirst
      <4>5. level = "write" => is_head'[queue'[1]]
        BY <4>1, <4>2, <4>3 DEF HeadFlag
      <4> QED
        BY <1>1, <4>1, <4>4, <4>5 DEF HeadFlag, IsFirst
    <3> QED
      BY <3>1, <3>2
  <2>5. ReadsStillTrue'
    <3>1. \A u \in Token : u # t /\ is_head[u] => is_head'[u]
      BY <2>2
    <3> QED
      BY <1>1, <1>2, <1>3, <2>1, <3>1, LeaveOrder DEF ReadsStillTrue, Rotating
  <2> QED
    BY <1>3, <2>1, <2>3, <2>4, <2>5, LeaveOrder
<1>4. CASE ~Queued(t)
  <2>1. /\ is_head' = [is_head EXCEPT ![t] = FALSE]
        /\ UNCHANGED <<level, queue, m_token_qlen, dummy_verseq,
                       dummy_min_verseq, m_verseq, m_min_verseq>>
    BY <1>4 DEF mt_release, LeaveQlen
  <2>2. ~is_head[t]
    BY <1>4 DEF HeadFlag, IsFirst, Queued, TypeOK
  <2>3. is_head' = is_head
    BY <2>1, <2>2 DEF TypeOK
  <2>4. TypeOK' /\ VersionOrder' /\ HeadFlag' /\ StaleMinIsSafe'
    BY <1>2, <2>1, <2>3 DEF TypeOK, VersionOrder, HeadFlag, IsFirst,
                            StaleMinIsSafe
  <2>5. ReadsStillTrue'
    BY <1>2, <1>4, <2>1, <2>3 DEF ReadsStillTrue, Queued, Rotating
  <2> QED
    BY <2>4, <2>5
<1> QED
  BY <1>3, <1>4

-----------------------------------------------------------------------------
\* Every step of the system preserves the invariant.
THEOREM NextQueueInv == QueueInv /\ [Next]_vars => QueueInv'
<1> SUFFICES ASSUME QueueInv, [Next]_vars PROVE QueueInv'
  OBVIOUS
<1>1. CASE \E t \in Token : UnlockedStep(t)
  BY <1>1, UnlockedStepInv
<1>2. ASSUME NEW t \in Token, mt_acquire_released(t) PROVE QueueInv'
  BY <1>2, AcquireInv
<1>3. ASSUME NEW t \in Token, rotate_acquire(t) PROVE QueueInv'
  BY <1>3, RotateInv DEF rotate_acquire, Goto, Rotating
<1>4. ASSUME NEW t \in Token, rotate_idle(t) PROVE QueueInv'
  BY <1>4, RotateInv DEF rotate_idle, Goto, Rotating
<1>5. ASSUME NEW t \in Token, rotate_insert(t) PROVE QueueInv'
  BY <1>5, RotateInv DEF rotate_insert, Goto, Rotating
<1>6. ASSUME NEW t \in Token, idle_locked(t) PROVE QueueInv'
  BY <1>6, IdleLockedInv
<1>7. ASSUME NEW t \in Token, mt_release(t) PROVE QueueInv'
  BY <1>7, ReleaseInv
<1>8. CASE set_readonly
  BY <1>8 DEF set_readonly, tokenVars, QueueInv, TypeOK, VersionOrder, HeadFlag,
              IsFirst, StaleMinIsSafe, ReadsStillTrue, Queued
<1>9. CASE UNCHANGED vars
  BY <1>9 DEF vars, tokenVars, QueueInv, TypeOK, VersionOrder, HeadFlag,
              IsFirst, StaleMinIsSafe, ReadsStillTrue, Queued
<1> QED
  BY <1>1, <1>2, <1>3, <1>4, <1>5, <1>6, <1>7, <1>8, <1>9, TokenAssumption
     DEF Next, TokenStep, WriterStep, UnlockedStep

\* The inductive invariant holds in every reachable state.
THEOREM QueueInvariant == Spec => []QueueInv
<1> QED
  BY InitQueueInv, NextQueueInv, PTL DEF Spec

\* The token list is in version order, its length counter is exact, and no
\* token in it is below the minimal version (rotate, mt_acquire, mt_release
\* and idle, for any number of threads).
THEOREM VersionOrderHolds == Spec => []VersionOrder
<1>1. QueueInv => VersionOrder
  BY DEF QueueInv
<1> QED
  BY <1>1, QueueInvariant, PTL

\* is_head marks the first token of the list and no other, so the unlocked
\* test of maybe_rotate never lets a token in the middle rotate.
THEOREM HeadFlagHolds == Spec => []HeadFlag
<1>1. QueueInv => HeadFlag
  BY DEF QueueInv
<1> QED
  BY <1>1, QueueInvariant, PTL

\* The minimal version a token cached never exceeds the current one.
THEOREM StaleMinHolds == Spec => []StaleMinIsSafe
<1>1. QueueInv => StaleMinIsSafe
  BY DEF QueueInv
<1> QED
  BY <1>1, QueueInvariant, PTL

\* Every variable keeps its type.
THEOREM TypeCorrect == Spec => []TypeOK
<1>1. QueueInv => TypeOK
  BY DEF QueueInv
<1> QED
  BY <1>1, QueueInvariant, PTL

\* rotate and mt_release overwrite the minimal version without comparing: the
\* version they store is never below the old one.
THEOREM MinNeverDecreasesHolds == Spec => MinNeverDecreases
<1>1. QueueInv /\ [Next]_vars => [dummy_min_verseq' >= dummy_min_verseq]_vars
  <2> SUFFICES ASSUME QueueInv, Next PROVE dummy_min_verseq' >= dummy_min_verseq
    BY DEF vars
  <2>1. dummy_min_verseq \in Nat
    BY DEF QueueInv, TypeOK
  <2>2. ASSUME NEW t \in Token, rotate_acquire(t) \/ rotate_idle(t) \/ rotate_insert(t)
        PROVE  dummy_min_verseq' >= dummy_min_verseq
    <3>1. is_head[t] /\ dummy_min_verseq' = m_verseq[t]
      BY <2>2 DEF rotate_acquire, rotate_idle, rotate_insert, rotate, Goto,
                  QueueInv, ReadsStillTrue, Rotating
    <3>2. 1 \in 1..Len(queue) /\ queue[1] = t
      BY <3>1 DEF QueueInv, HeadFlag, IsFirst, TypeOK
    <3>3. dummy_min_verseq <= m_verseq[queue[1]] /\ m_verseq[t] \in Nat
      BY <3>2 DEF QueueInv, VersionOrder, TypeOK
    <3> QED
      BY <2>1, <3>1, <3>2, <3>3
  <2>3. ASSUME NEW t \in Token, mt_release(t)
        PROVE  dummy_min_verseq' >= dummy_min_verseq
    <3>1. CASE Queued(t)
      <4>1. Leave(t)
        BY <2>3, <3>1 DEF mt_release, Leave, LeaveQlen, LeaveMin
      <4> QED
        BY <2>1, <3>1, <4>1, LeaveOrder
    <3>2. CASE ~Queued(t)
      BY <2>1, <2>3, <3>2 DEF mt_release
    <3> QED
      BY <3>1, <3>2
  <2>4. ASSUME NEW t \in Token,
               UnlockedStep(t) \/ mt_acquire_released(t) \/ idle_locked(t) \/ set_readonly
        PROVE  dummy_min_verseq' >= dummy_min_verseq
    <3>1. dummy_min_verseq' = dummy_min_verseq
      BY <2>4 DEF UnlockedStep, acquire, mt_acquire_idle, idle, maybe_rotate_idle,
             release, insert, insert_return, mt_acquire_released, idle_locked,
             set_readonly, tokenVars
    <3> QED
      BY <2>1, <3>1
  <2>5. CASE set_readonly
    BY <2>1, <2>5 DEF set_readonly, tokenVars
  <2> QED
    BY <2>2, <2>3, <2>4, <2>5, TokenAssumption
       DEF Next, TokenStep, WriterStep, UnlockedStep
<1> QED
  BY <1>1, QueueInvariant, PTL DEF Spec, MinNeverDecreases
=============================================================================
