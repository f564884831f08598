--------------------------- MODULE ConcurrentQueue ---------------------------
(***************************************************************************)
(* concurrent_queue: a bounded queue with a mutex and two condition        *)
(* variables, m_pushCond for who waits for room and m_popCond for who      *)
(* waits for an element.  The code between lock and unlock, or between     *)
(* lock and the release of the mutex in wait, is one step.  push_back and  *)
(* pop_front, of one and of several elements and with and without a        *)
(* timeout, are modelled; the other operations take the same steps.        *)
(***************************************************************************)
EXTENDS Integers, Sequences, FiniteSets

CONSTANTS Producer, Consumer,
          Timed,      \* threads that call the operations with a timeout
          MaxSize,    \* m_maxSize
          Batch,      \* sizes of the buffers given to push_back_n and pop_front_n
          MaxCall     \* bound: push_back calls

Thread == Producer \cup Consumer

ASSUME QueueAssumption == /\ IsFiniteSet(Producer) /\ IsFiniteSet(Consumer)
                          /\ Producer \cap Consumer = {} /\ Timed \subseteq Thread
                          /\ MaxSize \in Nat \ {0} /\ MaxCall \in Nat
                          /\ Batch \subseteq Nat \ {0}

VARIABLES size,    \* elements in the queue
          st,      \* a thread is idle, waits on its condition variable, was
                   \* woken, or its wait has timed out
          calls,   \* push calls so far
          owed     \* elements, and free places, that batches made beyond the one
                   \* they notified of, since somebody last began to wait for them

vars == <<size, st, calls, owed>>

Init == /\ size = 0
        /\ st = [t \in Thread |-> "idle"]
        /\ calls = 0
        /\ owed = [elements |-> 0, places |-> 0]

(* Operators named Slip... are wrong variants of the definition after them, *)
(* used to see that the properties notice.                                  *)

is_full == size >= MaxSize
empty == size = 0

Waiting(T) == {t \in T : st[t] = "wait"}

\* Thread t returns and one of the threads of T that wait, if any, is woken.
SlipReturnAndNotify(t, T) ==
    IF Waiting(T) # {} /\ size = 0
    THEN \E w \in Waiting(T) : st' = [st EXCEPT ![t] = "idle", ![w] = "awake"]
    ELSE st' = [st EXCEPT ![t] = "idle"]
ReturnAndNotify(t, T) ==
    IF Waiting(T) = {} THEN st' = [st EXCEPT ![t] = "idle"]
    ELSE \E w \in Waiting(T) : st' = [st EXCEPT ![t] = "idle", ![w] = "awake"]

\* A new call is made only while the bound allows it.
MayCall(p) == st[p] = "idle" => calls < MaxCall
Called(p) == calls' = IF st[p] = "idle" THEN calls + 1 ELSE calls

push_back(p) ==
    /\ st[p] # "wait" /\ MayCall(p)
    /\ ~is_full
    /\ size' = size + 1
    /\ ReturnAndNotify(p, Consumer)
    /\ Called(p)
    /\ UNCHANGED owed

\* As many of the num elements as there is room for, and one notification.
Pushed(num) == IF num <= MaxSize - size THEN num ELSE MaxSize - size

push_back_n(p, num) ==
    /\ st[p] # "wait" /\ MayCall(p)
    /\ ~is_full
    /\ size' = size + Pushed(num)
    /\ ReturnAndNotify(p, Consumer)
    /\ owed' = IF Waiting(Consumer) = {} THEN owed
               ELSE [owed EXCEPT !.elements = @ + Pushed(num) - 1]
    /\ Called(p)

push_wait(p) ==
    /\ st[p] \in {"idle", "awake"} /\ MayCall(p)
    /\ is_full
    /\ st' = [st EXCEPT ![p] = "wait"]
    /\ owed' = [owed EXCEPT !.places = 0]
    /\ Called(p)
    /\ UNCHANGED size

push_timeout(p) ==
    /\ st[p] = "expired" /\ is_full
    /\ st' = [st EXCEPT ![p] = "idle"]
    /\ UNCHANGED <<size, calls, owed>>

pop_front(c) ==
    /\ st[c] # "wait"
    /\ ~empty
    /\ size' = size - 1
    /\ ReturnAndNotify(c, Producer)
    /\ UNCHANGED <<calls, owed>>

\* As many elements as there are and as cap allows, and one notification.
Popped(cap) == IF cap <= size THEN cap ELSE size

SlipPopFrontN(c, cap) ==
    /\ st[c] # "wait"
    /\ ~empty
    /\ size' = size - Popped(cap)
    /\ st' = [st EXCEPT ![c] = "idle"]
    /\ owed' = IF Waiting(Producer) = {} THEN owed
               ELSE [owed EXCEPT !.places = @ + Popped(cap) - 1]
    /\ UNCHANGED calls
pop_front_n(c, cap) ==
    /\ st[c] # "wait"
    /\ ~empty
    /\ size' = size - Popped(cap)
    /\ ReturnAndNotify(c, Producer)
    /\ owed' = IF Waiting(Producer) = {} THEN owed
               ELSE [owed EXCEPT !.places = @ + Popped(cap) - 1]
    /\ UNCHANGED calls

SlipPopWait(c) ==
    /\ st[c] \in {"idle", "awake"}
    /\ size <= 1
    /\ st' = [st EXCEPT ![c] = "wait"]
    /\ owed' = [owed EXCEPT !.elements = 0]
    /\ UNCHANGED <<size, calls>>
pop_wait(c) ==
    /\ st[c] \in {"idle", "awake"}
    /\ empty
    /\ st' = [st EXCEPT ![c] = "wait"]
    /\ owed' = [owed EXCEPT !.elements = 0]
    /\ UNCHANGED <<size, calls>>

pop_timeout(c) ==
    /\ st[c] = "expired" /\ empty
    /\ st' = [st EXCEPT ![c] = "idle"]
    /\ UNCHANGED <<size, calls, owed>>

\* wait_for is over: the thread tests its condition a last time.
expire(t) ==
    /\ t \in Timed /\ st[t] \in {"wait", "awake"}
    /\ st' = [st EXCEPT ![t] = "expired"]
    /\ UNCHANGED <<size, calls, owed>>

\* A condition variable may wake a thread without a notification.
spurious(t) ==
    /\ st[t] = "wait"
    /\ st' = [st EXCEPT ![t] = "awake"]
    /\ UNCHANGED <<size, calls, owed>>

Push(p) == \/ push_back(p) \/ push_wait(p) \/ push_timeout(p)
           \/ \E num \in Batch : push_back_n(p, num)
Pop(c) == \/ pop_front(c) \/ pop_wait(c) \/ pop_timeout(c)
          \/ \E cap \in Batch : pop_front_n(c, cap)

Next == \/ \E p \in Producer : Push(p)
        \/ \E c \in Consumer : Pop(c)
        \/ \E t \in Thread : expire(t) \/ spurious(t)

Spec == Init /\ [][Next]_vars

\* Every thread that is not waiting gets the mutex and goes on calling.
FairSpec == /\ Spec
            /\ \A p \in Producer : WF_vars(Push(p))
            /\ \A c \in Consumer : WF_vars(Pop(c))

-----------------------------------------------------------------------------
(* Properties.                                                             *)

\* The values of the variables.
TypeOK == /\ size \in 0..MaxSize
          /\ st \in [Thread -> {"idle", "wait", "awake", "expired"}]
          /\ calls \in Nat 
          /\ owed \in [elements : Nat, places : Nat]

\* Threads that will lock the mutex again before they wait or return.
Ready(T) == {t \in T : st[t] \in {"awake", "expired"}}

\* notify_one after each push and each pop is enough: while a consumer waits there
\* are at least as many woken consumers as elements, and while a producer waits at
\* least as many woken producers as free places; but for the elements and places of
\* a batch, for which push_back_n and pop_front_n notify once.
NoLostWakeup ==
    /\ Waiting(Consumer) # {} => size <= Cardinality(Ready(Consumer)) + owed.elements
    /\ Waiting(Producer) # {} =>
          MaxSize - size <= Cardinality(Ready(Producer)) + owed.places

\* Once no new push is called all elements are popped: as long as the consumers go
\* on calling, the single notification of a batch lets none of its elements lie.
Delivered == <>[](size = 0)

\* A producer that waits for room gets it, though a pop_front_n that makes room for
\* several notifies one.
ProducerServed == \A p \in Producer : <>[](st[p] # "wait")
=============================================================================
