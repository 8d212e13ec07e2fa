---------------------------- MODULE MCChildRuns ----------------------------
(***************************************************************************)
(* Small instances of ChildRuns.  Two runs a and b, one write path each    *)
(* instance shares or not, one dedupe key.                                 *)
(***************************************************************************)
EXTENDS ChildRuns

CONSTANTS a, b, c, p, q, k

SharedOwned == [h \in Handles |-> IF h = c THEN {q} ELSE {p}]
NoOwned     == [h \in Handles |-> {}]
Nested      == {<<p, p>>, <<q, q>>}
KeyedA      == [h \in Handles |-> IF h = a THEN k ELSE NoKey]
NoKeys      == [h \in Handles |-> NoKey]
=============================================================================
