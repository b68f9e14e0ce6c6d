------------------------------ MODULE MCParse ------------------------------
(* Small instances of the parser, with the sizes of a 64-bit build. *)
EXTENDS TdoParseProperties

Item(prefix, library) == [prefix |-> prefix, library |-> library]

\* Empty, malformed, with another prefix after a library that is new, with
\* fixtures up to a malformed one, and with more fixtures than an array starts
\* with; four libraries.
MixedLines ==
    { <<>>,
      <<Item("test", "a"), Item("before", "b"), Item("test", "a")>>,
      <<Item("test", Malformed), Item("before", "a")>>,
      <<Item("test", "b"), Item("after", "c"), Item("before", Malformed), Item("after", "a")>>,
      <<Item("test", "d"), Item("before", "d"), Item("before", "d"),
        Item("after", "a"), Item("after", "c"), Item("before", "a")>> }
\* One test in each of five libraries.
FiveLibraries == {<<Item("test", l)>> : l \in {"a", "b", "c", "d", "e"}}
AllLibraries == {"a", "b", "c", "d", "e"}
=============================================================================
