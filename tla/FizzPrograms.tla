---------------------------- MODULE FizzPrograms ----------------------------
(***************************************************************************)
(* What Fizz is given to render: components n, m and k that may suspend or *)
(* throw, in and around the boundaries p and q.                            *)
(***************************************************************************)
Line == <<"text">>

\* A boundary inside a component that suspends, its fallback suspends as well.
SuspendingNested ==
  [root |-> <<"text", "p">>,
   component |-> [n |-> <<"text", "q">>, m |-> Line, k |-> Line],
   content |-> [p |-> <<"n">>, q |-> <<"m">>],
   fallback |-> [p |-> Line, q |-> <<"k">>]]

\* A boundary in a fallback, and a segment that is empty but for another.
InFallback ==
  [root |-> <<"p">>,
   component |-> [n |-> <<"k">>, m |-> Line, k |-> Line],
   content |-> [p |-> <<"n">>, q |-> <<"m">>],
   fallback |-> [p |-> <<"text", "q">>, q |-> Line]]

\* The shell suspends, beside a boundary.
Shell ==
  [root |-> <<"n", "p">>,
   component |-> [n |-> Line, m |-> Line, k |-> Line],
   content |-> [p |-> <<"m", "text", "k">>, q |-> Line],
   fallback |-> [p |-> Line, q |-> Line]]

\* Several segments of one boundary complete apart.
Siblings ==
  [root |-> <<"p">>,
   component |-> [n |-> Line, m |-> Line, k |-> Line],
   content |-> [p |-> <<"m", "text", "k", "n">>, q |-> Line],
   fallback |-> [p |-> Line, q |-> Line]]

RenderedPages == {SuspendingNested, InFallback, Shell, Siblings}
=============================================================================
