--------------------------- MODULE FlightPrograms ---------------------------
(***************************************************************************)
(* What Flight is given to render: components a and b below the root.  An  *)
(* item is a component, the type of an element or a value that is a        *)
(* reference to the client, one whose module is missing, a provider, a     *)
(* symbol, or something that cannot be sent.                               *)
(***************************************************************************)
Item(kind, name) == [kind |-> kind, name |-> name]

\* A provider around two components that use the same client module.
SharedModule ==
  [root |-> <<Item("provider", "p"), Item("component", "a"), Item("component", "b")>>,
   a |-> <<Item("type", "m")>>,
   b |-> <<Item("module", "m")>>]

\* One component in the other, a value that cannot be sent after it.
BadValue ==
  [root |-> <<Item("component", "a"), Item("type", "m")>>,
   a |-> <<Item("module", "n"), Item("component", "b"), Item("bad", "")>>,
   b |-> <<Item("provider", "p")>>]

\* A module that is not in the manifest of the bundler, beside one that is.
MissingModule ==
  [root |-> <<Item("component", "a"), Item("component", "b")>>,
   a |-> <<Item("module", "m"), Item("missing", "")>>,
   b |-> <<Item("type", "m"), Item("component", "a")>>]

ModelPrograms == {SharedModule, BadValue, MissingModule}

\* Two symbols in one model.
Symbols == {[root |-> <<Item("symbol", "s"), Item("symbol", "t")>>]}
=============================================================================
