------------------------------ MODULE Pipeline -------------------------------
(***************************************************************************)
(* PipelineProcessor: stages of threads, joined by bounded queues.  Tasks  *)
(* carry a serial number; a stage made with thread_count = 0 (ple_keep)    *)
(* puts them back in order.  There is no end-of-input mark: after stop(),  *)
(* a thread leaves when the stage before it has no running thread and its  *)
(* input queue is empty, three values it reads one after the other.        *)
(***************************************************************************)
EXTENDS Integers, Sequences, FiniteSets, FiniteSetsExt, SequencesExt

CONSTANTS Pipelines,    \* the pipelines a run looks at, records with the fields
                        \* below
          nlen          \* slots of the reorder window of the ple_keep stage

VARIABLES conf          \* the pipeline that was built

Threads == conf.Threads      \* sequence: the threads of each stage
Keep == conf.Keep            \* the ple_keep stage (one thread), 0 if there is none
External == conf.External    \* TRUE: compile() and enqueue(); FALSE: start(), the
                             \* first stage generates the tasks
QueueSize == conf.QueueSize  \* m_queue_size
NTask == conf.NTask          \* bound: tasks put in
Drops == conf.Drops          \* <<stage, serial>>: process() takes the task away
Throws == conf.Throws        \* <<stage, serial>>: process() throws

N == Len(Threads)
UnitOf(p) == {<<s, i>> \in (DOMAIN p.Threads) \X (1..Max(ToSet(p.Threads))) :
                 i <= p.Threads[s]}

ASSUME StagesAssumption ==
    /\ nlen \in Nat \ {0}
    /\ \A p \in Pipelines :
         /\ p.Threads # << >> /\ (~p.External => Len(p.Threads) > 1 /\ p.Threads[1] = 1)
         /\ p.Keep \in 0..Len(p.Threads)
         /\ p.Keep # 0 => p.Threads[p.Keep] = 1 /\ (p.External \/ p.Keep > 1)
         /\ p.QueueSize \in Nat \ {0} /\ p.NTask \in Nat

VARIABLES q,        \* q[s]: m_out_queue of stage s, of m_head for s = 0
          m_run,
          running,  \* m_running_exec_units of each stage
          pc, item, \* the place in run_wrapper and the item of each thread
          ks,       \* the window of the ple_keep stage
          feed,     \* the caller: tasks put in so far, and whether it stopped
          out,      \* serials of the tasks the last stage has processed
          late,     \* a thread had not begun to run when m_run became false
          threw     \* some process() has thrown

vars == <<q, m_run, running, pc, item, ks, feed, out, late, threw, conf>>

Unit == DOMAIN pc
NoItem == [plserial |-> 0, task |-> FALSE]
m_keepSerial == Keep # 0
m_plserial == ks.m_plserial

Init ==
    /\ conf \in Pipelines
    /\ q = [s \in 0..(N - 1) |-> << >>]
    /\ m_run = TRUE
    /\ running = [s \in 0..N |-> 0]
    /\ pc = [u \in UnitOf(conf) |-> "new"] /\ item = [u \in UnitOf(conf) |-> NoItem]
    /\ ks = [m_plserial |-> 1, head |-> 0, overflow |-> {},
             cache |-> [i \in 0..(nlen - 1) |-> NoItem]]
    /\ feed = 0 /\ out = << >> /\ late = FALSE /\ threw = FALSE

Go(u, p) == pc' = [pc EXCEPT ![u] = p]

stop == /\ m_run' = FALSE
        /\ late' = (late \/ (m_run /\ \E u \in Unit : pc[u] = "new"))

(* Operators named Slip... are wrong variants of the definition after them, *)
(* used to see that the properties notice.                                  *)

-----------------------------------------------------------------------------
(* The caller of an enqueue-driven pipeline.                               *)

enqueue ==
    /\ External /\ feed < NTask
    /\ Len(q[0]) < QueueSize
    /\ q' = [q EXCEPT ![0] = Append(@, [plserial |-> feed + 1, task |-> TRUE])]
    /\ feed' = feed + 1
    /\ UNCHANGED <<m_run, running, pc, item, ks, out, late, threw, conf>>

user_stop ==
    /\ External /\ feed = NTask
    /\ stop
    /\ feed' = NTask + 1
    /\ UNCHANGED <<q, running, pc, item, ks, out, threw, conf>>

-----------------------------------------------------------------------------
(* Life of a thread: run_wrapper and the loop condition.                    *)

IsSource(u) == ~External /\ u[1] = 1

run_wrapper(u) ==
    /\ pc[u] = "new"
    /\ running' = [running EXCEPT ![u[1]] = @ + 1]
    /\ Go(u, "check")
    /\ UNCHANGED <<q, m_run, item, ks, feed, out, late, threw, conf>>

\* isPrevRunning: m_owner->isRunning() || m_prev->isRunning() || !empty().
check_owner(u) ==
    /\ pc[u] = "check" /\ ~IsSource(u)
    /\ Go(u, IF m_run THEN "pop" ELSE "check_prev")
    /\ UNCHANGED <<q, m_run, running, item, ks, feed, out, late, threw, conf>>

check_prev(u) ==
    /\ pc[u] = "check_prev"
    /\ Go(u, IF running[u[1] - 1] # 0 THEN "pop" ELSE "check_queue")
    /\ UNCHANGED <<q, m_run, running, item, ks, feed, out, late, threw, conf>>

\* Out of the loop, the ple_keep stage gathers what is left in its window.
check_queue(u) ==
    LET over == ks.overflow \cup {ks.cache[i] : i \in {j \in DOMAIN ks.cache :
                                                       ks.cache[j].plserial # 0}}
    IN  /\ pc[u] = "check_queue"
        /\ Go(u, IF q[u[1] - 1] # << >> THEN "pop"
                 ELSE IF u[1] = Keep THEN "flush" ELSE "end")
        /\ ks' = IF q[u[1] - 1] = << >> /\ u[1] = Keep THEN [ks EXCEPT !.overflow = over]
                 ELSE ks
        /\ UNCHANGED <<q, m_run, running, item, feed, out, late, threw, conf>>

\* The end of run_wrapper: stop(), then the thread no longer counts.
SlipEnd(u) ==
    /\ pc[u] = "end"
    /\ stop
    /\ Go(u, "done")
    /\ UNCHANGED <<q, running, item, ks, feed, out, threw, conf>>
end(u) ==
    /\ pc[u] = "end"
    /\ stop
    /\ running' = [running EXCEPT ![u[1]] = @ - 1]
    /\ Go(u, "done")
    /\ UNCHANGED <<q, item, ks, feed, out, threw, conf>>

-----------------------------------------------------------------------------
(* The first stage of a self-driven pipeline: run_step_first.               *)

\* process() makes the next task, or calls stop() at the end of its input.
generate(u) ==
    /\ pc[u] = "check" /\ IsSource(u)
    /\ IF ~m_run THEN Go(u, "end") /\ UNCHANGED <<item, feed, m_run, late>>
       ELSE IF feed < NTask
            THEN /\ item' = [item EXCEPT ![u] = [plserial |-> feed + 1, task |-> TRUE]]
                 /\ feed' = feed + 1
                 /\ Go(u, "push")
                 /\ UNCHANGED <<m_run, late>>
            ELSE stop /\ UNCHANGED <<pc, item, feed>>
    /\ UNCHANGED <<q, running, ks, out, threw, conf>>

-----------------------------------------------------------------------------
(* process() and the steps that hand an item on.                            *)

Processed(s, x) == [x EXCEPT !.task = x.task /\ <<s, x.plserial>> \notin Drops]
Fails(s, x) == x.task /\ <<s, x.plserial>> \in Throws
Log(s, x) == IF s = N /\ x.task THEN Append(out, x.plserial) ELSE out

\* pop_front with a timeout; run_step_mid and run_step_last.
pop_front(u) ==
    LET s == u[1]
    IN  /\ pc[u] = "pop" /\ s # Keep /\ q[s - 1] # << >>
        /\ item' = [item EXCEPT ![u] = Head(q[s - 1])]
        /\ q' = [q EXCEPT ![s - 1] = Tail(@)]
        /\ Go(u, "work")
        /\ UNCHANGED <<m_run, running, ks, feed, out, late, threw, conf>>

pop_timeout(u) ==
    /\ pc[u] = "pop" /\ q[u[1] - 1] = << >>
    /\ Go(u, "check")
    /\ UNCHANGED <<q, m_run, running, item, ks, feed, out, late, threw, conf>>

\* An item without a task goes on only if a later stage keeps the order.
process(u) ==
    LET s == u[1]
        x == Processed(s, item[u])
    IN  /\ pc[u] = "work" /\ ~Fails(s, item[u])
        /\ item' = [item EXCEPT ![u] = IF s < N THEN x ELSE NoItem]
        /\ out' = Log(s, item[u])
        /\ Go(u, IF s < N /\ (x.task \/ m_keepSerial) THEN "push" ELSE "check")
        /\ UNCHANGED <<q, m_run, running, ks, feed, late, threw, conf>>

SlipPushBack(u) ==
    LET s == u[1]
    IN  /\ pc[u] = "push"
        /\ q' = IF Len(q[s]) < QueueSize THEN [q EXCEPT ![s] = Append(@, item[u])] ELSE q
        /\ item' = [item EXCEPT ![u] = NoItem]
        /\ Go(u, "check")
        /\ UNCHANGED <<m_run, running, ks, feed, out, late, threw, conf>>
push_back(u) ==
    LET s == u[1]
    IN  /\ pc[u] = "push" /\ Len(q[s]) < QueueSize
        /\ q' = [q EXCEPT ![s] = Append(@, item[u])]
        /\ item' = [item EXCEPT ![u] = NoItem]
        /\ Go(u, "check")
        /\ UNCHANGED <<m_run, running, ks, feed, out, late, threw, conf>>

-----------------------------------------------------------------------------
(* The ple_keep stage: run_serial_step_fast.                                *)

Least(S) == CHOOSE x \in S : \A y \in S : x.plserial <= y.plserial

Slot(k, x) == (k.head + (x.plserial - k.m_plserial)) % nlen
InWindow(k, x) == x.plserial - k.m_plserial < nlen

\* The window after item x has come: in its slot, or in overflow; when overflow
\* has two or more, those the window reaches are moved to their slots.
SlipReceivedAny(k, x) ==
    [k EXCEPT !.m_plserial = x.plserial, !.cache[k.head] = x]
Received(k, x) ==
    LET over == k.overflow \cup {x}
        near == IF Cardinality(over) < 2 THEN {} ELSE {y \in over : InWindow(k, y)}
    IN  IF InWindow(k, x) THEN [k EXCEPT !.cache[Slot(k, x)] = x]
        ELSE [k EXCEPT !.overflow = over \ near,
                       !.cache = [i \in DOMAIN @ |->
                            LET here == {y \in near : Slot(k, y) = i}
                            IN  IF here = {} THEN @[i] ELSE Least(here)]]

\* The window after its first item is done: one further, and filled from
\* overflow if the next item is there.
Advanced(k) ==
    LET h == (k.head + 1) % nlen
        next == {y \in k.overflow : y.plserial = k.m_plserial + 1}
    IN  [m_plserial |-> k.m_plserial + 1, head |-> h, overflow |-> k.overflow \ next,
         cache |-> [i \in DOMAIN k.cache |->
                       IF i = h /\ next # {} THEN Least(next)
                       ELSE IF i = k.head THEN NoItem ELSE k.cache[i]]]

keep_pop(u) ==
    /\ pc[u] = "pop" /\ u[1] = Keep /\ q[Keep - 1] # << >>
    /\ ks' = Received(ks, Head(q[Keep - 1]))
    /\ q' = [q EXCEPT ![Keep - 1] = Tail(@)]
    /\ Go(u, "emit")
    /\ UNCHANGED <<m_run, running, item, feed, out, late, threw, conf>>

\* Hands on item x of the window, if process() does not throw and the output
\* queue has room.
Emit(x) ==
    /\ ~Fails(Keep, x)
    /\ out' = Log(Keep, x)
    /\ Keep < N => Len(q[Keep]) < QueueSize
    /\ q' = IF Keep < N THEN [q EXCEPT ![Keep] = Append(@, Processed(Keep, x))] ELSE q

keep_emit(u) ==
    LET x == ks.cache[ks.head]
    IN  /\ pc[u] = "emit" /\ x.plserial = m_plserial
        /\ Emit(x)
        /\ ks' = Advanced(ks)
        /\ UNCHANGED <<m_run, running, pc, item, feed, late, threw, conf>>

keep_wait(u) ==
    /\ pc[u] = "emit" /\ ks.cache[ks.head].plserial # m_plserial
    /\ Go(u, "check")
    /\ UNCHANGED <<q, m_run, running, item, ks, feed, out, late, threw, conf>>

\* What was left in the window when the input ended, in order of the serials.
keep_flush(u) ==
    LET x == Least(ks.overflow)
    IN  /\ pc[u] = "flush"
        /\ IF ks.overflow = {} THEN Go(u, "end") /\ UNCHANGED <<q, ks, out>>
           ELSE /\ Emit(x)
                /\ ks' = [ks EXCEPT !.overflow = @ \ {x}]
                /\ UNCHANGED pc
        /\ UNCHANGED <<m_run, running, item, feed, late, threw, conf>>

-----------------------------------------------------------------------------
(* Exceptions: the catch block of run_wrapper.                              *)

Current(u) == CASE pc[u] = "work" -> item[u]
                [] pc[u] = "emit" -> ks.cache[ks.head]
                [] pc[u] = "flush" /\ ks.overflow # {} -> Least(ks.overflow)
                [] OTHER -> NoItem

\* A thread of the first stage leaves its input queue as it is.
catch(u) ==
    /\ pc[u] \in {"work", "emit", "flush"}
    /\ pc[u] = "emit" => Current(u).plserial = m_plserial
    /\ Fails(u[1], Current(u))
    /\ stop
    /\ threw' = TRUE
    /\ Go(u, IF u[1] = 1 THEN "end" ELSE "drain")
    /\ UNCHANGED <<q, running, item, ks, feed, out, conf>>

\* while (!m_prev->m_out_queue->empty() || m_prev->isRunning()) pop and destroy.
drain_queue(u) ==
    /\ pc[u] = "drain"
    /\ q[u[1] - 1] # << >>
    /\ q' = [q EXCEPT ![u[1] - 1] = Tail(@)]
    /\ UNCHANGED <<m_run, running, pc, item, ks, feed, out, late, threw, conf>>

drain_empty(u) ==
    /\ pc[u] = "drain"
    /\ q[u[1] - 1] = << >>
    /\ Go(u, "drain_prev")
    /\ UNCHANGED <<q, m_run, running, item, ks, feed, out, late, threw, conf>>

drain_prev(u) ==
    /\ pc[u] = "drain_prev"
    /\ Go(u, IF running[u[1] - 1] # 0 THEN "drain" ELSE "end")
    /\ UNCHANGED <<q, m_run, running, item, ks, feed, out, late, threw, conf>>

-----------------------------------------------------------------------------

UnitStep(u) ==
    \/ run_wrapper(u) \/ check_owner(u) \/ check_prev(u) \/ check_queue(u) \/ end(u)
    \/ generate(u) \/ pop_front(u) \/ pop_timeout(u) \/ process(u) \/ push_back(u)
    \/ keep_pop(u) \/ keep_emit(u) \/ keep_wait(u) \/ keep_flush(u)
    \/ catch(u) \/ drain_queue(u) \/ drain_empty(u) \/ drain_prev(u)

Finished == (\A u \in Unit : pc[u] = "done") /\ (External => feed = NTask + 1)

\* wait() has joined all threads.
wait == Finished /\ UNCHANGED vars

Next == enqueue \/ user_stop \/ (\E u \in Unit : UnitStep(u)) \/ wait

Spec == Init /\ [][Next]_vars

\* The operating system runs every thread, and the caller.
FairSpec == Spec /\ WF_vars(enqueue) /\ WF_vars(user_stop)
                 /\ \A u \in UNION {UnitOf(p) : p \in Pipelines} :
                        WF_vars(u \in Unit /\ UnitStep(u))

-----------------------------------------------------------------------------
(* Properties.                                                             *)

\* The ple_keep stage hands tasks on in the order of their serials, each once:
\* what comes out of the queues after it, and what the last stage processes if
\* all stages from Keep on have one thread, is ascending.
Ascending(s) == \A i, j \in DOMAIN s : i < j => s[i] < s[j]
InOrder ==
    Keep # 0 /\ (\A s \in Keep..N : Threads[s] = 1) => Ascending(out)

\* If every thread runs before stop() and no process() throws, wait() returns only
\* after every task was processed by the last stage or taken away by an earlier one,
\* and none was processed twice.
DroppedSerials == {d[2] : d \in {e \in Drops : e[1] < N}}
AllProcessedIfStarted ==
    Finished /\ ~late /\ ~threw => /\ ToSet(out) = (1..NTask) \ DroppedSerials
                                   /\ IsInjective(out)

\* If every thread runs before stop() and no process() throws, wait() returns.
WaitReturns == <>(Finished \/ late \/ threw)
=============================================================================
