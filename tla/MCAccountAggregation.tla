------------------------ MODULE MCAccountAggregation ------------------------
(* Small instances of AccountAggregation for TLC. *)
EXTENDS AccountAggregation, TLC

CONSTANTS A, a, b, c

\* Two spellings of one address and one spelling of two others.
MCRaw   == {A, a, b, c}
MCLower == (A :> a) @@ (a :> a) @@ (b :> b) @@ (c :> c)

\* Two spellings of one account in one payload among them.
Repeating == {<<>>, <<A>>, <<b>>, <<A, a>>, <<a, b>>, <<b, c>>}

\* For two requests at once: three accounts, so that one user can be given
\* two more by requests that overlap.
PlainRaw   == {a, b, c}
PlainLower == [r \in PlainRaw |-> r]
Few        == {<<a>>, <<b>>, <<a, c>>}

Symmetric == Permutations(Procs) \cup Permutations(Users)
=============================================================================
