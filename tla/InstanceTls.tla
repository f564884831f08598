----------------------------- MODULE InstanceTls -----------------------------
(***************************************************************************)
(* instance_tls and instance_tls_owner: objects that belong to a thread    *)
(* and to an instance (the owner) at once.                                 *)
(*                                                                         *)
(* Every owner has an id, the number of its slot in the table that each    *)
(* thread has.  Ids of dead owners are used again.  The object of a thread *)
(* that ends goes to a free list of the owner, for the next thread; an     *)
(* owner that dies deletes all of its objects, after it has waited for     *)
(* the threads that are just ending.  s_mutex guards the ids and the list  *)
(* of tables, m_tls_mtx the objects of one owner; m_first_free and         *)
(* m_is_dying are also read without it.                                    *)
(*                                                                         *)
(* The rows into which a table is divided are layout: a row that does not  *)
(* exist yet is a row of null slots.  init_fixed_cap has no caller.        *)
(***************************************************************************)
EXTENDS Integers, Sequences, FiniteSets, SequencesExt

CONSTANTS Thread,
          Maker,       \* the threads that construct and destroy owners
          MaxOwner,    \* bound: the number of owners that are constructed
          Null

Owner == 1..MaxOwner
\* The object that a thread creates for an owner is the pair of the two.
OwnerOf(t) == t[1]

VARIABLES
    s_id_list,     \* for every id the next free id, or busy
    s_id_head,     \* the first free id, or tail
    linked,        \* the threads whose table is in the list s_matrix_head
    tls,           \* the tables: tls[th][id] is an object or Null
    owner,         \* the fields of the owners that exist or existed
    pc, arg        \* where each thread is, and its local variables

tlsVars == <<s_id_list, s_id_head, linked, tls, owner, pc, arg>>

Id == 1..MaxOwner
tail == 0
busy == -1
NoOwner == [life |-> "unborn", m_id |-> 0, m_is_dying |-> FALSE, m_first_free |-> <<>>,
            m_free_cnt |-> 0, m_kill_cnt |-> 0, m_tls_vec |-> <<>>]
NoArg == [o |-> 1, t |-> Null, slots |-> {}]

TlsInit ==
    /\ s_id_list = <<>> /\ s_id_head = tail
    /\ linked = {}
    /\ tls = [th \in Thread |-> [id \in Id |-> Null]]
    /\ owner = [o \in Owner |-> NoOwner]
    /\ pc = [th \in Thread |-> "idle"]
    /\ arg = [th \in Thread |-> NoArg]

Goto(th, from, to) == pc[th] = from /\ pc' = [pc EXCEPT ![th] = to]

\* The slot of thread th for owner o.
Slot(th, o) == tls[th][owner[o].m_id]
SetSlot(th, o, t) == tls' = [tls EXCEPT ![th][owner[o].m_id] = t]

-----------------------------------------------------------------------------
(* The owner is constructed: it takes a free id, or a new one.             *)

construct(th, o) ==
    /\ Goto(th, "idle", "idle")
    /\ owner[o].life = "unborn" /\ \A p \in Owner : p < o => owner[p].life # "unborn"
    /\ LET id == IF s_id_head # tail THEN s_id_head ELSE Len(s_id_list) + 1
       IN  /\ owner' = [owner EXCEPT ![o].life = "alive", ![o].m_id = id]
           /\ s_id_head' = IF s_id_head # tail THEN s_id_list[s_id_head] ELSE tail
           /\ s_id_list' = [i \in 1..(Len(s_id_list) + IF s_id_head # tail THEN 0 ELSE 1) |->
                               IF i = id THEN busy ELSE s_id_list[i]]
    /\ UNCHANGED <<linked, tls, arg>>

-----------------------------------------------------------------------------
(* get_tls                                                                 *)

\* The first call of a thread puts its table into the list.
get_tls(th, o) ==
    /\ owner[o].life = "alive"
    /\ linked' = linked \cup {th}
    /\ Goto(th, "idle", IF Slot(th, o) # Null THEN "idle" ELSE "fill_tls")
    /\ arg' = [arg EXCEPT ![th].o = IF Slot(th, o) # Null THEN @ ELSE o]
    /\ UNCHANGED <<s_id_list, s_id_head, tls, owner>>

\* m_first_free is read without the mutex first.
fill_tls(th) ==
    /\ Goto(th, "fill_tls",
            IF owner[arg[th].o].m_first_free # <<>> THEN "fill_reuse" ELSE "fill_new")
    /\ UNCHANGED <<s_id_list, s_id_head, linked, tls, owner, arg>>

(* Operators named Slip... are wrong variants of the definition after them, *)
(* used to see that the properties notice.                                  *)

SlipFillReuse(th) ==
    LET o == arg[th].o
        free == owner[o].m_first_free
    IN  /\ Goto(th, "fill_reuse", IF free # <<>> THEN "fill_store" ELSE "fill_new")
        /\ free # <<>> => /\ owner' = [owner EXCEPT ![o].m_free_cnt = @ - 1]
                          /\ arg' = [arg EXCEPT ![th].t = Head(free)]
        /\ free = <<>> => UNCHANGED <<owner, arg>>
        /\ UNCHANGED <<s_id_list, s_id_head, linked, tls>>
fill_reuse(th) ==
    LET o == arg[th].o
        free == owner[o].m_first_free
    IN  /\ Goto(th, "fill_reuse", IF free # <<>> THEN "fill_store" ELSE "fill_new")
        /\ free # <<>> => /\ owner' = [owner EXCEPT ![o].m_first_free = Tail(free),
                                                    ![o].m_free_cnt = @ - 1]
                          /\ arg' = [arg EXCEPT ![th].t = Head(free)]
        /\ free = <<>> => UNCHANGED <<owner, arg>>
        /\ UNCHANGED <<s_id_list, s_id_head, linked, tls>>

fill_new(th) ==
    LET o == arg[th].o
    IN  /\ Goto(th, "fill_new", "fill_store")
        /\ owner' = [owner EXCEPT ![o].m_tls_vec = Append(@, <<o, th>>)]
        /\ arg' = [arg EXCEPT ![th].t = <<o, th>>]
        /\ UNCHANGED <<s_id_list, s_id_head, linked, tls>>

fill_store(th) ==
    /\ Goto(th, "fill_store", "idle")
    /\ SetSlot(th, arg[th].o, arg[th].t)
    /\ arg' = [arg EXCEPT ![th] = NoArg]
    /\ UNCHANGED <<s_id_list, s_id_head, linked, owner>>

-----------------------------------------------------------------------------
(* A thread ends: its table leaves the list, then ~TlsPtr is called for    *)
(* every slot, in the order of the ids within a row (all ids are in one).  *)

exit(th) ==
    /\ pc[th] = "idle"
    /\ pc' = [pc EXCEPT ![th] = IF th \in linked THEN "exit" ELSE "gone"]
    /\ linked' = linked \ {th}
    /\ arg' = [arg EXCEPT ![th] = [NoArg EXCEPT !.slots = 1..Len(s_id_list)]]
    /\ UNCHANGED <<s_id_list, s_id_head, tls, owner>>

\* The object of a slot is taken out by an exchange.
exit_exchange(th, id) ==
    /\ id \in arg[th].slots /\ \A i \in arg[th].slots : id <= i
    /\ Goto(th, "exit", IF tls[th][id] = Null THEN "exit" ELSE "exit_dying")
    /\ tls' = [tls EXCEPT ![th][id] = Null]
    /\ arg' = [arg EXCEPT ![th].slots = @ \ {id}, ![th].t = tls[th][id]]
    /\ UNCHANGED <<s_id_list, s_id_head, linked, owner>>

exit_dying(th) ==
    /\ Goto(th, "exit_dying",
            IF owner[OwnerOf(arg[th].t)].m_is_dying THEN "exit_kill" ELSE "exit_clean")
    /\ UNCHANGED <<s_id_list, s_id_head, linked, tls, owner, arg>>

\* clean_for_reuse is a hook of the owner.
exit_clean(th) ==
    /\ Goto(th, "exit_clean", "exit_push")
    /\ UNCHANGED <<s_id_list, s_id_head, linked, tls, owner, arg>>

push_head(th) ==
    LET o == OwnerOf(arg[th].t)
    IN  /\ Goto(th, "exit_push", "exit")
        /\ owner' = [owner EXCEPT ![o].m_first_free = <<arg[th].t>> \o @,
                                  ![o].m_free_cnt = @ + 1]
        /\ arg' = [arg EXCEPT ![th].t = Null]
        /\ UNCHANGED <<s_id_list, s_id_head, linked, tls>>

SlipExitKill(th) ==
    /\ Goto(th, "exit_kill", "exit")
    /\ arg' = [arg EXCEPT ![th].t = Null]
    /\ UNCHANGED <<s_id_list, s_id_head, linked, tls, owner>>
exit_kill(th) ==
    /\ Goto(th, "exit_kill", "exit")
    /\ owner' = [owner EXCEPT ![OwnerOf(arg[th].t)].m_kill_cnt = @ + 1]
    /\ arg' = [arg EXCEPT ![th].t = Null]
    /\ UNCHANGED <<s_id_list, s_id_head, linked, tls>>

exit_done(th) ==
    /\ Goto(th, "exit", "gone")
    /\ arg[th].slots = {}
    /\ UNCHANGED <<s_id_list, s_id_head, linked, tls, owner, arg>>

-----------------------------------------------------------------------------
(* The owner dies, when no call of it is under way; threads that end are   *)
(* not calls.                                                              *)

Ending == {"exit", "exit_dying", "exit_clean", "exit_push", "exit_kill",
           "destruct_tls", "destruct_wait"}
InCall(th, o) == pc[th] \notin Ending \cup {"idle", "gone"} /\ arg[th].o = o

destruct(th, o) ==
    /\ owner[o].life = "alive" /\ \A u \in Thread : ~InCall(u, o)
    /\ Goto(th, "idle", "destruct_tls")
    /\ owner' = [owner EXCEPT ![o].life = "dying", ![o].m_is_dying = TRUE]
    /\ arg' = [arg EXCEPT ![th].o = o]
    /\ UNCHANGED <<s_id_list, s_id_head, linked, tls>>

\* ~instance_tls under s_mutex: ~TlsPtr for the slot of every table in the list
\* counts its object as killed; then the id is free.
SlipDestructTls(th) ==
    LET o == arg[th].o
        id == owner[o].m_id
        mine == {q \in linked : tls[q][id] # Null}
    IN  /\ Goto(th, "destruct_tls", "destruct_wait")
        /\ owner' = [owner EXCEPT ![o].m_id = 0, ![o].m_kill_cnt = @ + Cardinality(mine)]
        /\ s_id_list' = [s_id_list EXCEPT ![id] = s_id_head]
        /\ s_id_head' = id
        /\ UNCHANGED <<linked, tls, arg>>
destruct_tls(th) ==
    LET o == arg[th].o
        id == owner[o].m_id
        mine == {q \in linked : tls[q][id] # Null}
    IN  /\ Goto(th, "destruct_tls", "destruct_wait")
        /\ owner' = [owner EXCEPT ![o].m_id = 0, ![o].m_kill_cnt = @ + Cardinality(mine)]
        /\ tls' = [q \in Thread |-> IF q \in mine THEN [tls[q] EXCEPT ![id] = Null]
                                    ELSE tls[q]]
        /\ s_id_list' = [s_id_list EXCEPT ![id] = s_id_head]
        /\ s_id_head' = id
        /\ UNCHANGED <<linked, arg>>

\* Is every object accounted for?
SlipAllReturned(o) == TRUE
AllReturned(o) == owner[o].m_free_cnt + owner[o].m_kill_cnt >= Len(owner[o].m_tls_vec)

\* The loop ends; the objects are deleted.
destruct_delete(th) ==
    /\ Goto(th, "destruct_wait", "idle")
    /\ AllReturned(arg[th].o)
    /\ owner' = [owner EXCEPT ![arg[th].o] = [NoOwner EXCEPT !.life = "gone"]]
    /\ arg' = [arg EXCEPT ![th] = NoArg]
    /\ UNCHANGED <<s_id_list, s_id_head, linked, tls>>

-----------------------------------------------------------------------------
FillStep(th) == fill_tls(th) \/ fill_reuse(th) \/ fill_new(th) \/ fill_store(th)

ExitStep(th) ==
    \/ \E id \in arg[th].slots : exit_exchange(th, id)
    \/ push_head(th) \/ exit_kill(th) \/ exit_done(th)

DestructStep(th) == destruct_tls(th) \/ destruct_delete(th)

TlsCall(th) ==
    \/ exit(th)
    \/ \E o \in Owner : \/ get_tls(th, o)
                        \/ th \in Maker /\ (construct(th, o) \/ destruct(th, o))

-----------------------------------------------------------------------------
(* Properties.                                                             *)

\* The threads that hold object t, in a slot or in their hands.
Holders(t) == {th \in Thread : arg[th].t = t \/ \E id \in Id : tls[th][id] = t}
InHand(th, t) == arg[th].t = t

\* No object is lost or in two places: an object that was created is in one slot, in
\* the hands of one thread, once in the free list, or counted as killed.  This is what
\* the sum that ~instance_tls_owner waits for relies on, over fill_tls, ends of threads
\* that saw m_is_dying and ends of threads that did not.
ObjectsAccounted ==
    \A o \in Owner :
        LET objects == Range(owner[o].m_tls_vec)
            held == {t \in objects : Holders(t) # {}}
        IN  owner[o].life \in {"alive", "dying"} =>
            /\ \A t \in held :
                   /\ Cardinality(Holders(t)) = 1
                   /\ ~Contains(owner[o].m_first_free, t)
                   /\ \A th \in Holders(t) :
                          Cardinality({id \in Id : tls[th][id] = t})
                              + (IF InHand(th, t) THEN 1 ELSE 0) = 1
            /\ IsInjective(owner[o].m_first_free)
            /\ owner[o].m_free_cnt = Len(owner[o].m_first_free)
            /\ Len(owner[o].m_tls_vec)
                   = owner[o].m_free_cnt + owner[o].m_kill_cnt + Cardinality(held)

\* No thread that ends touches an owner that is gone, or one of its objects: the owner
\* waits for it.  No slot is left that would lead a thread there later.
NoUseAfterDelete ==
    \A th \in Thread :
        /\ arg[th].t # Null => owner[OwnerOf(arg[th].t)].life # "gone"
        /\ \A id \in Id : tls[th][id] # Null => owner[OwnerOf(tls[th][id])].life # "gone"

\* "non-busy slot must be <null>": in the tables of the list, the slot of an id holds
\* objects only of the owner that has the id now, however often the id was used again.
SlotOfOwner ==
    \A th \in linked, id \in Id :
        tls[th][id] # Null => owner[OwnerOf(tls[th][id])].m_id = id

\* The wait in ~instance_tls_owner ends: what it waits for comes from threads that are
\* just ending, and they do not wait for the owner.
DestructReturns ==
    \A th \in Thread : pc[th] = "destruct_wait" ~> pc[th] = "idle"

=============================================================================
