----------------------------- MODULE MCRequests -----------------------------
(***************************************************************************)
(* Constants of Requests for model checking.                               *)
(***************************************************************************)
EXTENDS Requests, TLC

CONSTANTS f1, f2

Targets == {<<"A", "m">>, <<"Z", "m">>, <<"A", "h">>}
Ask(front, target, oneway, codec, size, z) ==
  [front |-> front, target |-> target, oneway |-> oneway, codec |-> codec, size |-> size, zip |-> z]

\* The first flow asks for anything, the second only for what a published method
\* or function may answer, with a large payload.
AsksOf ==
  (f1 :> ({Ask(fr, t, o, TRUE, 2, FALSE) : fr \in {"irpc", "http"}, t \in Targets, o \in BOOLEAN}
          \cup {Ask("irpc", <<"A", n>>, o, TRUE, 2, TRUE) : n \in {"m", "h"}, o \in BOOLEAN}
          \cup {Ask("irpc", <<"A", "m">>, FALSE, FALSE, 1, FALSE),
                Ask("irpc", <<"", "">>, FALSE, TRUE, 1, FALSE),
                Ask("http", <<"A", "m">>, FALSE, FALSE, 1, FALSE)}
          \cup {Ask("json", <<"A", "m">>, o, TRUE, 1, FALSE) : o \in BOOLEAN}))
  @@ (f2 :> {Ask("irpc", <<"A", "m">>, FALSE, TRUE, 2, TRUE)})

Handlers == {<<"A", "h">>}

\* UsePool off, on with types that have Reset, and on without.
PoolKinds == {[use |-> FALSE, reset |-> FALSE], [use |-> TRUE, reset |-> TRUE],
              [use |-> TRUE, reset |-> FALSE]}
=============================================================================
