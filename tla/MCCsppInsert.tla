---------------------------- MODULE MCCsppInsert ----------------------------
(***************************************************************************)
(* Small instances of CsppInsert.                                          *)
(***************************************************************************)
EXTENDS CsppScan, TLC

CONSTANTS w1, w2

S(keys1, keys2, lookups, nodes, fails) ==
    [keys |-> (w1 :> keys1) @@ (w2 :> keys2), lookups |-> lookups, MaxNode |-> nodes,
     InitFails |-> fails, seeks |-> {}, moves |-> 0, one |-> FALSE]

\* Iterators beside the writers: they seek these keys and move that often.
Scan(keys1, keys2, seeks, moves) ==
    [S(keys1, keys2, {}, 12, {}) EXCEPT !.seeks = seeks, !.moves = moves]

One(scenario) == [scenario EXCEPT !.one = TRUE]

MainScenarios ==
    { \* Inserts that extend, fork, split and mark nodes below the root, and one that
      \* makes a fast node.
      S(<< <<1, 1, 1>>, <<1, 2>> >>, << <<1, 1, 2>> >>, {}, 12, {w1}),
      S(<< <<1, 1>>, <<1>> >>, << <<1, 1>>, <<1, 2>> >>, {}, 12, {}),
      S(<< <<1>>, <<1, 2>>, <<1, 3>> >>, << <<1, 1>> >>, {}, 12, {}),
      \* The empty key, which ends at the root, by one writer and by two.
      S(<< << >> >>, << <<2>>, <<2>> >>, {}, 12, {w1}),
      S(<< << >>, <<1>> >>, << <<1>>, << >> >>, {}, 12, {}),
      \* Keys of several nodes, looked up while they are inserted and split; more of
      \* them than the pool holds.
      S(<< <<1, 1, 1, 1>> >>, << <<1, 1, 1, 2>>, <<1, 1>> >>, {<<1, 1, 1, 1>>}, 7, {}),
      S(<< <<1, 1, 1, 1>>, <<1>> >>, << <<1, 1, 1, 1, 1, 1>> >>, {}, 6, {}),
      \* Iterators over nodes that one writer, or two, replace: in the first two a
      \* fast node below the root, and the empty key.
      Scan(<< <<1, 1, 1>>, <<1, 2>>, <<1, 0>>, <<2>>, <<1>> >>, << >>,
           {<< >>, <<1, 1, 2>>, <<1, 1>>}, 3),
      Scan(<< <<1, 1>>, <<0>>, <<1, 1, 0>>, << >>, <<1, 1, 0, 1>> >>, << >>,
           {<<0>>, <<1, 1, 0, 0>>, <<2>>}, 3),
      Scan(<< <<1, 1>>, <<1>> >>, << <<1, 2>> >>, {<<1, 1>>}, 1),
      \* One writer, whose init_value may fail, beside a lookup and an iterator.
      One(S(<< <<1, 1, 1, 1>>, <<1, 1>>, << >>, <<1, 2>>, <<1, 1, 1, 1>> >>, << >>,
            {<<1, 1, 1, 1>>, <<1, 1>>}, 10, {w1})),
      One(Scan(<< <<1, 1>>, <<1, 2>>, <<1, 0>>, << >>, <<1>> >>, << >>,
               {<<1, 1>>, <<1, 0, 1>>}, 2)) }

\* The empty key, while a node below the root is replaced.
RootScenario == {S(<< <<1>>, <<1, 1>> >>, << << >> >>, {}, 12, {})}
=============================================================================
