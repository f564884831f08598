------------------------ MODULE ConcurrentQueue_proofs ------------------------
(***************************************************************************)
(* Proof that one notification for each element and for each free place is *)
(* enough, and by how much the batches fall short, for any number of       *)
(* producers and consumers, any m_maxSize and any sizes of batches.        *)
(* NoLostWakeup is inductive together with TypeOK; the work is in counting *)
(* the woken threads before and after a step.                              *)
(***************************************************************************)
EXTENDS ConcurrentQueue, FiniteSetTheorems, TLAPS

\* The woken threads of a finite set can be counted.
LEMMA ReadyFinite ==
    ASSUME NEW T, IsFiniteSet(T)
    PROVE  /\ IsFiniteSet(Ready(T)) /\ Cardinality(Ready(T)) \in Nat
           /\ IsFiniteSet(Ready(T)') /\ Cardinality(Ready(T)') \in Nat
PROOF
  <1>1. Ready(T) \subseteq T /\ Ready(T)' \subseteq T  BY DEF Ready
  <1>2. IsFiniteSet(Ready(T)) /\ IsFiniteSet(Ready(T)')  BY <1>1, FS_Subset
  <1> QED  BY <1>2, FS_CardinalityType

\* What the return of thread t of A, with a notification for the threads of B,
\* does to the two sets: A loses at most the woken thread t, and B has one woken
\* thread more if it still has a waiting one.
LEMMA ReturnCounts ==
    ASSUME NEW A, NEW B, A \subseteq Thread, B \subseteq Thread, A \cap B = {},
           IsFiniteSet(A), IsFiniteSet(B), NEW t \in A,
           TypeOK, st[t] # "wait", ReturnAndNotify(t, B)
    PROVE  /\ Waiting(A)' = Waiting(A)
           /\ Cardinality(Ready(A)') >= Cardinality(Ready(A)) - 1
           /\ Waiting(B)' # {} => /\ Waiting(B) # {}
                                  /\ Cardinality(Ready(B)') = Cardinality(Ready(B)) + 1
PROOF
  <1>1. st \in [Thread -> {"idle", "wait", "awake", "expired"}]  BY DEF TypeOK
  <1>2. IsFiniteSet(Ready(A)) /\ IsFiniteSet(Ready(B))
        /\ Cardinality(Ready(A)) \in Nat /\ Cardinality(Ready(B)) \in Nat
    BY ReadyFinite
  <1>3. Cardinality(Ready(A) \ {t}) >= Cardinality(Ready(A)) - 1
    <2>1. Cardinality(Ready(A) \ {t}) = IF t \in Ready(A) THEN Cardinality(Ready(A)) - 1
                                        ELSE Cardinality(Ready(A))
      BY <1>2, FS_RemoveElement
    <2> QED  BY <1>2, <2>1
  <1>4. CASE Waiting(B) = {}
    <2>1. st' = [st EXCEPT ![t] = "idle"]  BY <1>4 DEF ReturnAndNotify
    <2>2. Waiting(A)' = Waiting(A) /\ Waiting(B)' = {}
      BY <1>1, <1>4, <2>1 DEF Waiting
    <2>3. Ready(A)' = Ready(A) \ {t}  BY <1>1, <2>1 DEF Ready
    <2> QED  BY <1>3, <2>2, <2>3
  <1>5. CASE Waiting(B) # {}
    <2>1. PICK w \in Waiting(B) : st' = [st EXCEPT ![t] = "idle", ![w] = "awake"]
      BY <1>5 DEF ReturnAndNotify
    <2>2. w \in B /\ w \notin A /\ st[w] = "wait" /\ t \notin B /\ w # t
      BY DEF Waiting
    <2>3. Waiting(A)' = Waiting(A)  BY <1>1, <2>1, <2>2 DEF Waiting
    <2>4. Ready(A)' = Ready(A) \ {t}  BY <1>1, <2>1, <2>2 DEF Ready
    <2>5. Ready(B)' = Ready(B) \cup {w}  BY <1>1, <2>1, <2>2 DEF Ready
    <2>6. w \notin Ready(B)  BY <2>2 DEF Ready
    <2>7. Cardinality(Ready(A)') >= Cardinality(Ready(A)) - 1
      BY <1>3, <2>4
    <2>8. Cardinality(Ready(B)') = Cardinality(Ready(B)) + 1
      BY <1>2, <2>5, <2>6, FS_AddElement
    <2> QED  BY <1>5, <2>3, <2>7, <2>8
  <1> QED  BY <1>4, <1>5

\* A thread that stops waiting without a push or a pop only adds to the woken ones.
LEMMA WakeCounts ==
    ASSUME NEW T, T \subseteq Thread, IsFiniteSet(T), NEW t \in Thread, TypeOK,
           NEW v \in {"awake", "expired"}, st' = [st EXCEPT ![t] = v]
    PROVE  /\ Waiting(T)' \subseteq Waiting(T)
           /\ Cardinality(Ready(T)) <= Cardinality(Ready(T)')
PROOF
  <1>1. st \in [Thread -> {"idle", "wait", "awake", "expired"}]  BY DEF TypeOK
  <1>2. Waiting(T)' \subseteq Waiting(T)  BY <1>1 DEF Waiting
  <1>3. Ready(T) \subseteq Ready(T)'  BY <1>1 DEF Ready
  <1> QED  BY <1>2, <1>3, ReadyFinite, FS_Subset

\* A step of a thread outside T that wakes nobody leaves the counts of T alone.
LEMMA OtherCounts ==
    ASSUME NEW T, T \subseteq Thread, NEW t \in Thread \ T, TypeOK, NEW v,
           st' = [st EXCEPT ![t] = v]
    PROVE  Waiting(T)' = Waiting(T) /\ Ready(T)' = Ready(T)
PROOF
  BY DEF TypeOK, Waiting, Ready

\* A batch moves at least one element, and no more than fit or are there.
LEMMA BatchSizes ==
    ASSUME TypeOK, NEW n \in Batch
    PROVE  /\ ~is_full => Pushed(n) \in Nat \ {0} /\ size + Pushed(n) <= MaxSize
           /\ ~empty => Popped(n) \in Nat \ {0} /\ Popped(n) <= size
PROOF
  <1>1. n \in Nat \ {0} /\ MaxSize \in Nat \ {0} /\ size \in 0..MaxSize
    BY QueueAssumption DEF TypeOK
  <1> QED  BY <1>1 DEF is_full, empty, Pushed, Popped

\* The queue never holds more than m_maxSize elements, and the threads are only in
\* the states the model names.
THEOREM TypeCorrect == Spec => []TypeOK
PROOF
  <1>1. Init => TypeOK  BY QueueAssumption DEF Init, TypeOK
  <1>2. TypeOK /\ [Next]_vars => TypeOK'
    <2> SUFFICES ASSUME TypeOK, [Next]_vars  PROVE TypeOK'  OBVIOUS
    <2> USE QueueAssumption DEF TypeOK, Thread
    <2>1. ASSUME NEW p \in Producer, push_back(p)  PROVE TypeOK'
      BY <2>1 DEF push_back, is_full, ReturnAndNotify, Waiting, Called
    <2>7. ASSUME NEW p \in Producer, NEW n \in Batch, push_back_n(p, n)  PROVE TypeOK'
      <3>1. Pushed(n) \in Nat \ {0} /\ size + Pushed(n) <= MaxSize
        BY <2>7, BatchSizes DEF push_back_n
      <3>2. size' \in 0..MaxSize /\ calls' \in Nat  BY <2>7, <3>1 DEF push_back_n, Called
      <3>3. owed' \in [elements : Nat, places : Nat]  BY <2>7, <3>1 DEF push_back_n
      <3>4. st' \in [Thread -> {"idle", "wait", "awake", "expired"}]
        BY <2>7 DEF push_back_n, ReturnAndNotify, Waiting
      <3> QED  BY <3>2, <3>3, <3>4
    <2>2. ASSUME NEW p \in Producer, push_wait(p) \/ push_timeout(p)  PROVE TypeOK'
      BY <2>2 DEF push_wait, push_timeout, Called
    <2>3. ASSUME NEW c \in Consumer, pop_front(c)  PROVE TypeOK'
      BY <2>3 DEF pop_front, empty, ReturnAndNotify, Waiting
    <2>8. ASSUME NEW c \in Consumer, NEW n \in Batch, pop_front_n(c, n)  PROVE TypeOK'
      <3>1. Popped(n) \in Nat \ {0} /\ Popped(n) <= size
        BY <2>8, BatchSizes DEF pop_front_n
      <3>2. size' \in 0..MaxSize /\ calls' \in Nat  BY <2>8, <3>1 DEF pop_front_n
      <3>3. owed' \in [elements : Nat, places : Nat]  BY <2>8, <3>1 DEF pop_front_n
      <3>4. st' \in [Thread -> {"idle", "wait", "awake", "expired"}]
        BY <2>8 DEF pop_front_n, ReturnAndNotify, Waiting
      <3> QED  BY <3>2, <3>3, <3>4
    <2>4. ASSUME NEW c \in Consumer, pop_wait(c) \/ pop_timeout(c)  PROVE TypeOK'
      BY <2>4 DEF pop_wait, pop_timeout
    <2>5. ASSUME NEW t \in Thread, expire(t) \/ spurious(t)  PROVE TypeOK'
      BY <2>5 DEF expire, spurious
    <2>6. CASE UNCHANGED vars  BY <2>6 DEF vars
    <2> QED  BY <2>1, <2>2, <2>3, <2>4, <2>5, <2>6, <2>7, <2>8 DEF Next, Push, Pop
  <1> QED  BY <1>1, <1>2, PTL DEF Spec

\* No wake-up is lost: while a consumer waits there are as many woken consumers as
\* elements, and while a producer waits as many woken producers as free places, but
\* for those beyond the first that a batch pushed or popped.
THEOREM WakeupsEnough == Spec => []NoLostWakeup
PROOF
  <1> USE QueueAssumption
  <1>1. Init => NoLostWakeup
    <2> SUFFICES ASSUME Init PROVE NoLostWakeup  OBVIOUS
    <2>1. Waiting(Consumer) = {} /\ Waiting(Producer) = {}
      BY DEF Init, Waiting, Thread
    <2> QED  BY <2>1 DEF NoLostWakeup
  <1>2. TypeOK /\ TypeOK' /\ NoLostWakeup /\ [Next]_vars => NoLostWakeup'
    <2> SUFFICES ASSUME TypeOK, TypeOK', NoLostWakeup, [Next]_vars
                 PROVE  NoLostWakeup'
      OBVIOUS
    <2> DEFINE C == Cardinality(Ready(Consumer))
               P == Cardinality(Ready(Producer))
    <2>1. C \in Nat /\ P \in Nat /\ C' \in Nat /\ P' \in Nat  BY ReadyFinite
    <2>2. size \in Nat /\ size <= MaxSize /\ owed.elements \in Nat /\ owed.places \in Nat
      BY DEF TypeOK
    <2>3. Producer \subseteq Thread /\ Consumer \subseteq Thread  BY DEF Thread
    <2>4. ASSUME NEW p \in Producer, push_back(p)  PROVE NoLostWakeup'
      <3>1. /\ st[p] # "wait" /\ ReturnAndNotify(p, Consumer) /\ size' = size + 1
            /\ owed' = owed
        BY <2>4 DEF push_back
      <3>2. /\ Waiting(Producer)' = Waiting(Producer) /\ P' >= P - 1
            /\ Waiting(Consumer)' # {} => Waiting(Consumer) # {} /\ C' = C + 1
        BY <2>3, <3>1, ReturnCounts
      <3> QED  BY <2>1, <2>2, <3>1, <3>2 DEF NoLostWakeup
    <2>5. ASSUME NEW c \in Consumer, pop_front(c)  PROVE NoLostWakeup'
      <3>1. /\ st[c] # "wait" /\ ReturnAndNotify(c, Producer) /\ size' = size - 1
            /\ owed' = owed
        BY <2>5 DEF pop_front
      <3>2. /\ Waiting(Consumer)' = Waiting(Consumer) /\ C' >= C - 1
            /\ Waiting(Producer)' # {} => Waiting(Producer) # {} /\ P' = P + 1
        BY <2>3, <3>1, ReturnCounts
      <3> QED  BY <2>1, <2>2, <3>1, <3>2 DEF NoLostWakeup
    <2>10. ASSUME NEW p \in Producer, NEW n \in Batch, push_back_n(p, n)
           PROVE  NoLostWakeup'
      <3> DEFINE k == Pushed(n)
      <3>1. /\ st[p] # "wait" /\ ReturnAndNotify(p, Consumer) /\ size' = size + k
            /\ k \in Nat \ {0}
        BY <2>10, BatchSizes DEF push_back_n
      <3>2. /\ Waiting(Producer)' = Waiting(Producer) /\ P' >= P - 1
            /\ Waiting(Consumer)' # {} => Waiting(Consumer) # {} /\ C' = C + 1
        BY <2>3, <3>1, ReturnCounts
      <3>3. /\ owed.places' = owed.places
            /\ Waiting(Consumer) # {} => owed.elements' = owed.elements + k - 1
        BY <2>10 DEF push_back_n, TypeOK
      <3> HIDE DEF k
      <3> QED  BY <2>1, <2>2, <3>1, <3>2, <3>3 DEF NoLostWakeup
    <2>11. ASSUME NEW c \in Consumer, NEW n \in Batch, pop_front_n(c, n)
           PROVE  NoLostWakeup'
      <3> DEFINE k == Popped(n)
      <3>1. /\ st[c] # "wait" /\ ReturnAndNotify(c, Producer) /\ size' = size - k
            /\ k \in Nat \ {0}
        BY <2>11, BatchSizes DEF pop_front_n
      <3>2. /\ Waiting(Consumer)' = Waiting(Consumer) /\ C' >= C - 1
            /\ Waiting(Producer)' # {} => Waiting(Producer) # {} /\ P' = P + 1
        BY <2>3, <3>1, ReturnCounts
      <3>3. /\ owed.elements' = owed.elements
            /\ Waiting(Producer) # {} => owed.places' = owed.places + k - 1
        BY <2>11 DEF pop_front_n, TypeOK
      <3> HIDE DEF k
      <3> QED  BY <2>1, <2>2, <3>1, <3>2, <3>3 DEF NoLostWakeup
    <2>6. ASSUME NEW p \in Producer, push_wait(p) \/ push_timeout(p)  PROVE NoLostWakeup'
      <3>1. /\ size' = size /\ size = MaxSize
            /\ owed.elements' = owed.elements /\ owed.places' \in Nat
        BY <2>2, <2>6 DEF push_wait, push_timeout, is_full, TypeOK
      <3>2. Waiting(Consumer)' = Waiting(Consumer) /\ Ready(Consumer)' = Ready(Consumer)
        BY <2>3, <2>6, OtherCounts DEF push_wait, push_timeout
      <3> QED  BY <2>1, <3>1, <3>2 DEF NoLostWakeup
    <2>7. ASSUME NEW c \in Consumer, pop_wait(c) \/ pop_timeout(c)  PROVE NoLostWakeup'
      <3>1. /\ size' = size /\ size = 0
            /\ owed.places' = owed.places /\ owed.elements' \in Nat
        BY <2>2, <2>7 DEF pop_wait, pop_timeout, empty, TypeOK
      <3>2. Waiting(Producer)' = Waiting(Producer) /\ Ready(Producer)' = Ready(Producer)
        BY <2>3, <2>7, OtherCounts DEF pop_wait, pop_timeout
      <3> QED  BY <2>1, <3>1, <3>2 DEF NoLostWakeup
    <2>8. ASSUME NEW t \in Thread, expire(t) \/ spurious(t)  PROVE NoLostWakeup'
      <3>1. PICK v \in {"awake", "expired"} : st' = [st EXCEPT ![t] = v]
        BY <2>8 DEF expire, spurious
      <3>2. size' = size /\ owed' = owed  BY <2>8 DEF expire, spurious
      <3>3. /\ Waiting(Consumer)' \subseteq Waiting(Consumer) /\ C <= C'
            /\ Waiting(Producer)' \subseteq Waiting(Producer) /\ P <= P'
        BY <2>3, <3>1, WakeCounts
      <3> QED  BY <2>1, <2>2, <3>2, <3>3 DEF NoLostWakeup
    <2>9. CASE UNCHANGED vars
      BY <2>9 DEF vars, NoLostWakeup, Waiting, Ready
    <2> QED
      BY <2>4, <2>5, <2>6, <2>7, <2>8, <2>9, <2>10, <2>11 DEF Next, Push, Pop
  <1> QED  BY <1>1, <1>2, TypeCorrect, PTL DEF Spec
=============================================================================
