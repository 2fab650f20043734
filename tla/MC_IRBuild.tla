----------------------------- MODULE MC_IRBuild -----------------------------
(***************************************************************************)
(* Instances of the statement builder for TLC: the expression shapes and   *)
(* for-statement forms each run enumerates.                                *)
(***************************************************************************)
EXTENDS IRBuild

And(a, b) == [k |-> "and", id |-> 0, sub |-> <<a, b>>]
Or(a, b) == [k |-> "or", id |-> 0, sub |-> <<a, b>>]
Tern(c, t, f) == [k |-> "tern", id |-> 0, sub |-> <<c, t, f>>]
Tern2(c, f) == [k |-> "tern2", id |-> 0, sub |-> <<c, f>>]
Comma(a, b) == [k |-> "comma", id |-> 0, sub |-> <<a, b>>]
\* A call of builtin or intrinsic n with the arguments args.
Bi(n, args) == [k |-> n, id |-> 0, sub |-> args]

A0 == Atom(0)

\* Only atoms: statements alone shape the CFG.
AtomShapes == {A0}

\* Every branching expression form, once nested in each position.
BranchingShapes == {A0, And(A0, A0), Or(A0, A0), Tern(A0, A0, A0), Tern2(A0, A0),
                    Comma(A0, A0), Tern(A0, And(A0, A0), A0),
                    Tern(A0, A0, Tern(A0, A0, A0)), And(Or(A0, A0), A0)}

\* A call of each kind of branch of the builtin dispatch and of each
\* intrinsic, most with a branching argument; the va_list arguments of
\* va_start, va_copy and va_end are plain variables (no atom).
BuiltinShapes == {Bi("popcount", <<Tern(A0, A0, A0)>>), Bi("bswap32", <<And(A0, A0)>>),
                  Bi("memcpy", <<A0, Or(A0, A0), A0>>), Bi("memcmp", <<A0, A0, A0>>),
                  Bi("va_start", <<NoExpr>>), Bi("va_copy", <<NoExpr, NoExpr>>),
                  Bi("va_end", <<NoExpr>>), Bi("unreachable", <<>>),
                  Bi("fabs", <<Comma(A0, A0)>>), Bi("sqrtf", <<A0>>)}

BranchingAndBuiltinShapes == BranchingShapes \cup BuiltinShapes

\* for (init; cond; iter) with every part present or absent.
AllForForms == BOOLEAN \X BOOLEAN \X BOOLEAN

\* The for forms that have an iter expression.
IterForForms == {f \in AllForForms : f[3]}

\* An atom, and the simplest expression with control flow of its own.
AndShapes == {A0, And(A0, A0)}

\* for (; cond; ) only: no init and no iter expression.
CondOnlyForForms == {<<FALSE, TRUE, FALSE>>}
=============================================================================
