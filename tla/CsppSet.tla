------------------------------- MODULE CsppSet -------------------------------
(***************************************************************************)
(* What the insertions of the CSPP trie promise their callers: a map from  *)
(* keys to values that only grows.  insert takes effect at one moment      *)
(* between its call and its return.  Module CsppInsert implements it.      *)
(***************************************************************************)
CONSTANTS Writer, Key

VARIABLES store,   \* the value of every key in the trie
          op       \* what each writer does: the key it inserts, or the last result

setVars == <<store, op>>

Result == {"none", "pending", "inserted", "duplicate", "no_value"}

SInit == /\ store = << >>
         /\ op = [w \in Writer |-> [key |-> << >>, result |-> "none"]]

Call(w) == /\ op[w].result # "pending"
           /\ \E k \in Key : op' = [op EXCEPT ![w] = [key |-> k, result |-> "pending"]]
           /\ UNCHANGED store

Finish(w, result) == /\ op[w].result = "pending"
                     /\ op' = [op EXCEPT ![w] = [key |-> << >>, result |-> result]]

\* insert returns true and the token has a value: the key is new.
Insert(w) == /\ Finish(w, "inserted")
             /\ op[w].key \notin DOMAIN store
             /\ store' = [k \in DOMAIN store \cup {op[w].key} |->
                             IF k = op[w].key THEN w ELSE store[k]]

\* insert returns false: the key was there.
Duplicate(w) == /\ Finish(w, "duplicate")
                /\ op[w].key \in DOMAIN store
                /\ UNCHANGED store

\* insert returns true, has_value() is false: no memory, or init_value failed.
NoValue(w) == Finish(w, "no_value") /\ UNCHANGED store

SNext == \E w \in Writer : Call(w) \/ Insert(w) \/ Duplicate(w) \/ NoValue(w)

SSpec == SInit /\ [][SNext]_setVars
=============================================================================
