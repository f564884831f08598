------------------------------ MODULE CsppToken ------------------------------
(***************************************************************************)
(* The token queue of the CSPP (Crash Safe Parallel Patricia) trie.        *)
(*                                                                         *)
(* Every thread that reads or writes the trie owns a token.  Tokens that   *)
(* are in use stand in a list in the order of their version (m_verseq).    *)
(* When the head of the list moves to the back or leaves, its version      *)
(* becomes the minimal version (m_dummy.m_min_verseq), which the           *)
(* reclamation of trie nodes (module CsppReclaim) compares ages with.      *)
(*                                                                         *)
(* The code protects the list with m_head_mutex, but reads the concurrent  *)
(* level, the queue length, is_head and m_next without it: the actions     *)
(* below are split at those reads.                                         *)
(***************************************************************************)
EXTENDS Integers, Sequences

CONSTANTS Token,        \* the tokens, each used by one thread only
          Writer,       \* the tokens that are WriterTokens
          MultiWrite,   \* TRUE: MultiWriteMultiRead, FALSE: one writer
          MaxVerseq     \* bound: no operation starts at this version or above

ASSUME TokenAssumption == Writer \subseteq Token
ASSUME LevelAssumption == MultiWrite \in BOOLEAN
ASSUME BoundAssumption == MaxVerseq \in Nat

VARIABLES
    level,          \* m_writing_concurrent_level: "write" or "readonly"
    queue,          \* the list m_dummy.m_next ... m_dummy.m_prev
    m_token_qlen,
    dummy_verseq,      \* m_dummy.m_verseq
    dummy_min_verseq,  \* m_dummy.m_min_verseq
    m_verseq, m_min_verseq, state, is_head,  \* the fields of each token
    pc              \* where each token's thread is inside an operation

tokenVars == <<queue, m_token_qlen, dummy_verseq, dummy_min_verseq,
               m_verseq, m_min_verseq, is_head>>
vars == <<level, tokenVars, state, pc>>

TokenState == {"ReleaseDone", "AcquireDone", "AcquireIdle"}

\* Control points at which a thread has read shared state without the mutex.
Control == {"ready", "mt_acquire", "rotate_acquire", "maybe_rotate_idle",
            "rotate_idle", "idle_locked", "mt_release", "rotate_insert",
            "insert"}

-----------------------------------------------------------------------------
(* The list.                                                               *)

Queued(t) == \E i \in 1..Len(queue) : queue[i] = t      \* m_next != nullptr

IsFirst(t) == Len(queue) > 0 /\ queue[1] = t            \* t == m_dummy.m_next

\* m_next == &m_dummy
IsLast(t) == Len(queue) > 0 /\ queue[Len(queue)] = t

\* The list q without its element t (the mutated pointers of remove_self).
remove_self(q, t) ==
    LET k == CHOOSE k \in 1..Len(q) : q[k] = t
    IN  [i \in 1..(Len(q) - 1) |-> IF i < k THEN q[i] ELSE q[i + 1]]

(* Operators named Slip... are wrong variants of the definition after them, *)
(* used to see that the properties notice.                                  *)

\* The version counter after a token took a version (m_dummy.m_verseq++).
SlipNextVerseq == dummy_verseq
NextVerseq == dummy_verseq + 1

\* The minimal version a token caches when it enters the list.
SlipCachedMin == dummy_verseq
CachedMin == dummy_min_verseq

\* Leaving the list: m_token_qlen, the minimal version after mt_release, and
\* is_head, which a leaving head hands to its successor.  (When that is m_dummy
\* its flag is set, and never read.)
LeaveQlen(t) == IF Queued(t) THEN m_token_qlen - 1 ELSE m_token_qlen

SlipLeaveMin(t) == m_verseq[t]
LeaveMin(t) == IF IsFirst(t) THEN m_verseq[t] ELSE dummy_min_verseq

SlipLeaveHead(t, q) == [is_head EXCEPT ![t] = FALSE]
LeaveHead(t, q) ==
    [u \in Token |-> /\ u # t
                     /\ is_head[u] \/ (IsFirst(t) /\ Len(q) > 0 /\ u = q[1])]

-----------------------------------------------------------------------------
Init ==
    /\ level = "write"
    /\ queue = <<>>
    /\ m_token_qlen = 0
    /\ dummy_verseq = 1
    /\ dummy_min_verseq = 1
    /\ m_verseq = [t \in Token |-> 0]
    /\ m_min_verseq = [t \in Token |-> 0]
    /\ state = [t \in Token |-> "ReleaseDone"]
    /\ is_head = [t \in Token |-> FALSE]
    /\ pc = [t \in Token |-> "ready"]

Goto(t, from, to) == pc[t] = from /\ pc' = [pc EXCEPT ![t] = to]

-----------------------------------------------------------------------------
(* The list operations under m_head_mutex.                                 *)

\* rotate: t goes to the back with a fresh version, its old version becomes
\* the minimal one, and the new first token becomes the head.
rotate(t, target) ==
    LET q == Append(remove_self(queue, t), t)
    IN  /\ queue' = q
        /\ dummy_min_verseq' = m_verseq[t]
        /\ m_min_verseq' = [m_min_verseq EXCEPT ![t] = m_verseq[t]]
        /\ m_verseq' = [m_verseq EXCEPT ![t] = dummy_verseq]
        /\ dummy_verseq' = NextVerseq
        /\ state' = [state EXCEPT ![t] = target]
        /\ is_head' = [[is_head EXCEPT ![t] = FALSE] EXCEPT ![q[1]] = TRUE]
        /\ UNCHANGED m_token_qlen

\* The unlocked test of maybe_rotate; rotate itself is a later step.
MayRotate(t) == is_head[t] /\ ~IsLast(t)

maybe_rotate(t, from, to, target) ==
    \/ /\ MayRotate(t)
       /\ Goto(t, from, to)
       /\ UNCHANGED state
    \/ /\ ~MayRotate(t)
       /\ Goto(t, from, "ready")
       /\ state' = [state EXCEPT ![t] = target]

-----------------------------------------------------------------------------
(* acquire                                                                 *)

acquire(t) ==
    /\ state[t] # "AcquireDone"
    /\ dummy_verseq < MaxVerseq
    /\ \/ /\ level = "write" \/ m_token_qlen # 0
          /\ Goto(t, "ready", "mt_acquire")
          /\ UNCHANGED state
       \/ /\ level = "readonly" /\ m_token_qlen = 0
          /\ Goto(t, "ready", "ready")
          /\ state' = [state EXCEPT ![t] = "AcquireDone"]
    /\ UNCHANGED <<level, tokenVars>>

mt_acquire_released(t) ==
    /\ state[t] = "ReleaseDone"
    /\ Goto(t, "mt_acquire", "ready")
    /\ state' = [state EXCEPT ![t] = "AcquireDone"]
    /\ is_head' = [is_head EXCEPT ![t] = (m_token_qlen = 0)]
    /\ m_token_qlen' = m_token_qlen + 1
    /\ m_min_verseq' = [m_min_verseq EXCEPT ![t] = CachedMin]
    /\ m_verseq' = [m_verseq EXCEPT ![t] = dummy_verseq]
    /\ dummy_verseq' = NextVerseq
    /\ queue' = Append(queue, t)
    /\ UNCHANGED <<level, dummy_min_verseq>>

mt_acquire_idle(t) ==
    /\ state[t] = "AcquireIdle"
    /\ maybe_rotate(t, "mt_acquire", "rotate_acquire", "AcquireDone")
    /\ UNCHANGED <<level, tokenVars>>

rotate_acquire(t) ==
    /\ Goto(t, "rotate_acquire", "ready")
    /\ rotate(t, "AcquireDone")
    /\ UNCHANGED level

-----------------------------------------------------------------------------
(* idle: the caller gives up its pointers, the token may stay in the list. *)

idle(t) ==
    /\ state[t] = "AcquireDone"
    /\ dummy_verseq < MaxVerseq
    /\ \/ /\ level = "write"
          /\ Goto(t, "ready", "maybe_rotate_idle")
          /\ UNCHANGED state
       \/ /\ level = "readonly" /\ m_token_qlen = 0
          /\ Goto(t, "ready", "ready")
          /\ state' = [state EXCEPT ![t] = "AcquireIdle"]
       \/ /\ level = "readonly" /\ m_token_qlen # 0
          /\ Goto(t, "ready", "idle_locked")
          /\ UNCHANGED state
    /\ UNCHANGED <<level, tokenVars>>

maybe_rotate_idle(t) ==
    /\ maybe_rotate(t, "maybe_rotate_idle", "rotate_idle", "AcquireIdle")
    /\ UNCHANGED <<level, tokenVars>>

rotate_idle(t) ==
    /\ Goto(t, "rotate_idle", "ready")
    /\ rotate(t, "AcquireIdle")
    /\ UNCHANGED level

\* idle after set_readonly: the token leaves the list, and neither is_head
\* nor the minimal version is passed on.
idle_locked(t) ==
    /\ Goto(t, "idle_locked", "ready")
    /\ state' = [state EXCEPT ![t] = "AcquireIdle"]
    /\ m_token_qlen' = LeaveQlen(t)
    /\ \/ /\ Queued(t)
          /\ is_head' = [is_head EXCEPT ![t] = FALSE]
          /\ queue' = remove_self(queue, t)
       \/ /\ ~Queued(t)
          /\ UNCHANGED <<is_head, queue>>
    /\ UNCHANGED <<level, dummy_verseq, dummy_min_verseq, m_verseq,
                   m_min_verseq>>

-----------------------------------------------------------------------------
(* release, also by dispose and by the reuse of a dead thread's tokens.    *)

release(t) ==
    /\ state[t] # "ReleaseDone"
    /\ \/ /\ level = "write" \/ m_token_qlen # 0
          /\ Goto(t, "ready", "mt_release")
          /\ UNCHANGED state
       \/ /\ level = "readonly" /\ m_token_qlen = 0
          /\ Goto(t, "ready", "ready")
          /\ state' = [state EXCEPT ![t] = "ReleaseDone"]
    /\ UNCHANGED <<level, tokenVars>>

\* A token that idle() took out of the list after set_readonly is not in it.
mt_release(t) ==
    /\ Goto(t, "mt_release", "ready")
    /\ state' = [state EXCEPT ![t] = "ReleaseDone"]
    /\ m_token_qlen' = LeaveQlen(t)
    /\ \/ /\ Queued(t)
          /\ queue' = remove_self(queue, t)
          /\ dummy_min_verseq' = LeaveMin(t)
          /\ is_head' = LeaveHead(t, queue')
       \/ /\ ~Queued(t)
          /\ is_head' = [is_head EXCEPT ![t] = FALSE]
          /\ UNCHANGED <<queue, dummy_min_verseq>>
    /\ UNCHANGED <<level, dummy_verseq, m_verseq, m_min_verseq>>

set_readonly ==
    /\ level = "write"
    /\ \A t \in Writer : pc[t] \notin {"rotate_insert", "insert"}
    /\ level' = "readonly"
    /\ UNCHANGED <<tokenVars, state, pc>>

-----------------------------------------------------------------------------
(* insert                                                                  *)

\* insert_multi_writer lets a head token rotate first (when its lazy free list
\* is long: that condition is in CsppReclaim).
insert(t) ==
    /\ level = "write"
    /\ state[t] = "AcquireDone"
    /\ dummy_verseq < MaxVerseq
    /\ \/ /\ MultiWrite /\ is_head[t]
          /\ Goto(t, "ready", "rotate_insert")
       \/ Goto(t, "ready", "insert")
    /\ UNCHANGED <<level, tokenVars, state>>

rotate_insert(t) ==
    /\ Goto(t, "rotate_insert", "insert")
    /\ rotate(t, "AcquireDone")
    /\ UNCHANGED level

insert_return(t) ==
    /\ Goto(t, "insert", "ready")
    /\ UNCHANGED <<level, tokenVars, state>>

-----------------------------------------------------------------------------
TokenStep(t) ==
    \/ acquire(t) \/ mt_acquire_released(t) \/ mt_acquire_idle(t)
    \/ rotate_acquire(t)
    \/ idle(t) \/ maybe_rotate_idle(t) \/ rotate_idle(t) \/ idle_locked(t)
    \/ release(t) \/ mt_release(t)

WriterStep(t) == insert(t) \/ rotate_insert(t) \/ insert_return(t)

Next ==
    \/ \E t \in Token : TokenStep(t)
    \/ \E t \in Writer : WriterStep(t)
    \/ set_readonly

Spec == Init /\ [][Next]_vars

-----------------------------------------------------------------------------
(* Properties.                                                             *)

\* The type of every variable.
TypeOK ==
    /\ level \in {"write", "readonly"}
    /\ queue \in Seq(Token)
    /\ m_token_qlen \in Nat
    /\ dummy_verseq \in Nat /\ dummy_min_verseq \in Nat
    /\ m_verseq \in [Token -> Nat] /\ m_min_verseq \in [Token -> Nat]
    /\ state \in [Token -> TokenState]
    /\ is_head \in [Token -> BOOLEAN]
    /\ pc \in [Token -> Control]

\* The list is in the order of the versions, all of them below the next
\* version and none below the minimal version (the asserts of lookup and
\* insert_multi_writer), whatever the unlocked reads of idle, acquire and
\* release saw.  m_token_qlen, which those functions test without the mutex,
\* is exact.
VersionOrder ==
    /\ \A i, j \in 1..Len(queue) :
         i < j => m_verseq[queue[i]] < m_verseq[queue[j]]
    /\ \A i \in 1..Len(queue) : /\ dummy_min_verseq <= m_verseq[queue[i]]
                                /\ m_verseq[queue[i]] < dummy_verseq
    /\ dummy_min_verseq <= dummy_verseq
    /\ m_token_qlen = Len(queue)

\* rotate does not look whether the token is first, it trusts is_head: only
\* the first token ever has the flag, and while the trie is writable the first
\* token has it (or the minimal version would stop for good).
HeadFlag ==
    /\ \A t \in Token : is_head[t] => IsFirst(t)
    /\ level = "write" /\ Len(queue) > 0 => is_head[queue[1]]

\* A token decides with the m_min_verseq it cached at its last rotation: a
\* stale copy never lets it free more than the current minimum would.
StaleMinIsSafe ==
    \A t \in Token : m_min_verseq[t] <= dummy_min_verseq

\* The minimal version never goes back (rotate and release store the version
\* of the leaving head without comparing it with the old minimum).
MinNeverDecreases == [][dummy_min_verseq' >= dummy_min_verseq]_vars
=============================================================================
