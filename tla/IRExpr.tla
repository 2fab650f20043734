------------------------------- MODULE IRExpr -------------------------------
(***************************************************************************)
(* Expression lowering (build_ir_for_expr) as far as it shapes the CFG.   *)
(* An expression is a record [k, id, sub]:                                 *)
(*   k = "atom"  any expression without control flow of its own (a load,  *)
(*               a call, arithmetic, an assignment); id names it;          *)
(*   k = "and" / "or"  logical && / || on sub[1], sub[2];                  *)
(*   k = "tern"  c ? t : f on sub[1..3];  k = "tern2"  c ?: f on sub[1..2];*)
(*   k = "comma" the comma operator over sub;                              *)
(*   k = a builtin of builtins.h (a call whose target is                   *)
(*       TD_EXPR_TY_BUILTIN) or an intrinsic name (a call of the global    *)
(*       fabs or sqrt family), its arguments in sub.                       *)
(* LowerExpr(g, b, e) is the function after e is lowered starting in block *)
(* b, together with the block its value ends up in (the block of *stmt on  *)
(* return).                                                                *)
(***************************************************************************)
EXTENDS IRFunc, Builtins

CONSTANT VaListByRef  \* the target's TARGET_VARIADIC_INFO_FLAG_VA_LIST_BYREF

NoExpr == [k |-> "none", id |-> 0, sub |-> <<>>]

Atom(i) == [k |-> "atom", id |-> i, sub |-> <<>>]

EvOp(i) == [MkOp("ev") EXCEPT !.ev = i]

\* m calls of ir_alloc_basicblock; the function and the new ids in order.
RECURSIVE AllocN(_, _)
AllocN(g, m) ==
  IF m = 0 THEN [g |-> g, ids |-> <<>>]
  ELSE [AllocN(AllocBB(g), m - 1) EXCEPT !.ids = <<g.n>> \o @]

(***************************************************************************)
(* An expression without control flow of its own (unary and arithmetic    *)
(* operators, loads, stores, calls, casts): its operations go into the    *)
(* current block, which it does not change.                                *)
(***************************************************************************)
LowerAtom(g, b, e) == [g |-> AppendOp(g, b, EvOp(e.id)), bb |-> b]

RECURSIVE LowerExpr(_, _, _)

(***************************************************************************)
(* build_ir_for_binaryop for && and ||: entry splits to the rhs block and  *)
(* a constant block, the rhs block splits to the constant 1 and 0 blocks,  *)
(* both merge into the end block whose phi takes the two constants.  The  *)
(* steps are staged: each takes the result of the lowering before it.      *)
(***************************************************************************)
LogicalEnd(rhs, ids) ==
  LET trueBB == ids[2]  falseBB == ids[3]  endBB == ids[4]
      g3 == MakeSplit(AppendOp(rhs.g, rhs.bb, MkOp("brcond")), rhs.bb,
                      trueBB, falseBB)
      g4 == AppendOp(MakeMerge(AppendOp(g3, trueBB, MkOp("cnst")), trueBB,
                               endBB), trueBB, MkOp("br"))
      g5 == AppendOp(MakeMerge(AppendOp(g4, falseBB, MkOp("cnst")), falseBB,
                               endBB), falseBB, MkOp("br"))
  IN [g |-> InsertPhi(g5, endBB, {trueBB, falseBB}), bb |-> endBB]

\* The entry block (where the lhs ended) splits; the rhs is lowered.
LogicalSplit(entry, a, e) ==
  LET rhsBB == a.ids[1]  trueBB == a.ids[2]  falseBB == a.ids[3]
      g1 == IF e.k = "and" THEN MakeSplit(a.g, entry, rhsBB, falseBB)
                           ELSE MakeSplit(a.g, entry, trueBB, rhsBB)
  IN LogicalEnd(LowerExpr(AppendOp(g1, entry, MkOp("brcond")), rhsBB, e.sub[2]),
                a.ids)

LowerLogical(g, b, e) ==
  LET lhs == LowerExpr(g, b, e.sub[1])
  IN LogicalSplit(lhs.bb, AllocN(lhs.g, 4), e)

(***************************************************************************)
(* build_ir_for_ternary: the condition's block splits to the true and      *)
(* false arms, each arm merges into the end block, whose phi takes the     *)
(* value of each arm from the block that value was computed in.           *)
(***************************************************************************)
TernaryEnd(f, tEnd, endBB) ==
  [g |-> InsertPhi(AppendOp(MakeMerge(f.g, f.bb, endBB), f.bb, MkOp("br")),
                   endBB, {f.bb, tEnd}),
   bb |-> endBB]

\* Mutant: the phi names the true arm's first block, not the block its
\* value ends in.
TernaryFalseArmStart(t, ids, e) ==
  TernaryEnd(LowerExpr(AppendOp(MakeMerge(t.g, t.bb, ids[3]), t.bb, MkOp("br")),
                       ids[2], e.sub[3]),
             ids[1], ids[3])

\* The true arm (lowered into t) merges into the end block; the false arm.
TernaryFalse(t, ids, e) ==
  TernaryEnd(LowerExpr(AppendOp(MakeMerge(t.g, t.bb, ids[3]), t.bb, MkOp("br")),
                       ids[2], e.sub[3]),
             t.bb, ids[3])

\* The block pre the condition ended in splits to the arms; the true arm.
TernarySplit(pre, a, e) ==
  TernaryFalse(LowerExpr(MakeSplit(a.g, pre, a.ids[1], a.ids[2]), a.ids[1], e.sub[2]),
               a.ids, e)

LowerTernary(g, b, e) ==
  LET cond == LowerExpr(g, b, e.sub[1])
  IN TernarySplit(cond.bb, AllocN(AppendOp(cond.g, cond.bb, MkOp("brcond")), 3), e)

(***************************************************************************)
(* build_ir_for_two_ternary (c ?: f): the condition's block splits         *)
(* straight to the end block (its value is the result) or the false arm.   *)
(***************************************************************************)
TwoTernaryEnd(f, pre, endBB) ==
  [g |-> InsertPhi(AppendOp(MakeMerge(f.g, f.bb, endBB), f.bb, MkOp("br")),
                   endBB, {f.bb, pre}),
   bb |-> endBB]

TwoTernarySplit(pre, a, e) ==
  TwoTernaryEnd(LowerExpr(MakeSplit(a.g, pre, a.ids[2], a.ids[1]), a.ids[1], e.sub[2]),
                pre, a.ids[2])

LowerTwoTernary(g, b, e) ==
  LET cond == LowerExpr(g, b, e.sub[1])
  IN TwoTernarySplit(cond.bb, AllocN(AppendOp(cond.g, cond.bb, MkOp("brcond")), 2), e)

\* Mutant: the operands are lowered last to first.
LowerCommaReversed(g, b, es) ==
  LET RECURSIVE Go(_, _)
      Go(r, i) == IF i = 0 THEN r ELSE Go(LowerExpr(r.g, r.bb, es[i]), i - 1)
  IN Go([g |-> g, bb |-> b], Len(es))

\* build_ir_for_compoundexpr: each operand in turn, in the block the
\* previous one ended in.
LowerComma(g, b, es) ==
  LET RECURSIVE Go(_, _)
      Go(r, i) == IF i > Len(es) THEN r ELSE Go(LowerExpr(r.g, r.bb, es[i]), i + 1)
  IN Go([g |-> g, bb |-> b], 1)

-----------------------------------------------------------------------------
(***************************************************************************)
(* build_ir_for_call on the calls it does not lower as plain calls.        *)
(***************************************************************************)
FabsNames == {"fabs", "fabsf", "fabsl"}
SqrtNames == {"sqrt", "sqrtf", "sqrtl"}

\* build_ir_for_intrinsic: a call of one of these global functions.
Intrinsics == FabsNames \cup SqrtNames

UnaryBuiltins == {"popcount", "popcountl", "popcountll", "clz", "clzl", "clzll",
                  "ctz", "ctzl", "ctzll", "bswap16", "bswap32", "bswap64"}
MemBuiltins == {"memset", "memmove", "memcpy", "memcmp"}

\* The builtins the dispatch has a branch for; any other is BUG.
Dispatched == {"va_start", "va_end", "va_copy", "unreachable"} \cup UnaryBuiltins
                \cup MemBuiltins

\* Mutant: va_start also lowers a second argument, the last named
\* parameter of GCC's two-argument __builtin_va_start.
BuiltinReadsVaStartTwo(n) ==
  CASE n = "va_start"                                   -> <<1, 2>>
    [] n \in UnaryBuiltins \cup Intrinsics              -> <<1>>
    [] n = "va_copy"                                    -> <<1, 2>>
    [] n \in MemBuiltins                                -> <<1, 2, 3>>
    [] n \in {"va_end", "unreachable"}                   -> <<>>

\* The arguments each branch lowers, in order (va_start and va_copy take
\* the address of their first argument, which evaluates the same
\* subexpressions).
BuiltinReads(n) ==
  CASE n \in {"va_start"} \cup UnaryBuiltins \cup Intrinsics -> <<1>>
    [] n = "va_copy"                                    -> <<1, 2>>
    [] n \in MemBuiltins                                -> <<1, 2, 3>>
    [] n \in {"va_end", "unreachable"}                   -> <<>>

\* The operations each branch appends after its arguments.
BuiltinOps(n, byRef) ==
  CASE n = "va_start"                      -> <<"va_start">>
    [] n = "va_copy"                       -> IF byRef THEN <<"load", "store">> ELSE <<"store">>
    [] n \in UnaryBuiltins \cup Intrinsics -> <<"unop">>
    [] n \in MemBuiltins                   -> <<"mem">>
    [] n \in {"va_end", "unreachable"}      -> <<>>

\* The arguments in the order the branch reads them, each in the block the
\* one before it ended in; then the branch's operations in the last block.
BuiltinCall(r, n) ==
  [g |-> [r.g EXCEPT !.ops[r.bb] = @ \o [i \in DOMAIN BuiltinOps(n, VaListByRef)
                                             |-> MkOp(BuiltinOps(n, VaListByRef)[i])],
                     !.flags = IF n = "va_start" THEN @ \cup {"uses_va_args"} ELSE @],
   bb |-> r.bb]

LowerBuiltin(g, b, e) ==
  LET RECURSIVE Go(_, _)
      Go(r, rs) == IF rs = <<>> THEN r
                   ELSE Go(LowerExpr(r.g, r.bb, e.sub[Head(rs)]), Tail(rs))
  IN BuiltinCall(Go([g |-> g, bb |-> b], BuiltinReads(e.k)), e.k)

LowerExpr(g, b, e) ==
  CASE e.k = "atom"           -> LowerAtom(g, b, e)
    [] e.k \in {"and", "or"}  -> LowerLogical(g, b, e)
    [] e.k = "tern"           -> LowerTernary(g, b, e)
    [] e.k = "tern2"          -> LowerTwoTernary(g, b, e)
    [] e.k = "comma"          -> LowerComma(g, b, e.sub)
    [] e.k = "none"           -> [g |-> g, bb |-> b]
    [] e.k \in Dispatched \cup Intrinsics -> LowerBuiltin(g, b, e)

=============================================================================
