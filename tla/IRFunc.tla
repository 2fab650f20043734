------------------------------- MODULE IRFunc -------------------------------
(***************************************************************************)
(* The IR data model of one function as far as control flow goes: basic   *)
(* blocks with their operations, terminator kind, successor edges and      *)
(* predecessor sets.  The mutators are those of ir.c that build.c calls    *)
(* (ir_alloc_basicblock, ir_alloc_op, ir_insert_phi,                       *)
(* ir_make_basicblock_merge/split/switch, ir_prune_basicblocks).  ir.c is  *)
(* not among the repository's sources here, so they follow spec.md 4.C     *)
(* and 4.G: edge wiring records the terminator kind and the edges at once  *)
(* and keeps predecessor sets consistent with the successor edges.         *)
(*                                                                         *)
(* Data is abstracted away: an operation keeps its opcode, the expression  *)
(* atom it evaluates (for "ev"), the goto label stashed in the metadata of *)
(* a "br" (0 for a plain branch), and the blocks named by the entries of  *)
(* a "phi".  Statements (ir_stmt) only group operations and are not        *)
(* represented.                                                            *)
(***************************************************************************)
EXTENDS Integers, Sequences, FiniteSets

\* Opcodes the builder emits.  "ev" stands for every operation that
\* computes a value without changing control flow (loads, stores,
\* arithmetic, calls, casts); its field ev names the source expression.
\* The builtin lowerings add their own: "va_start", "load" and "store"
\* (va_copy), "unop" (popcount, clz, ctz, bswap, fabs, sqrt) and "mem" (the
\* well-known memset/memcpy/memmove/memcmp ops of ir_mk_wk_*).
OpTys == {"ev", "cnst", "phi", "br", "brcond", "brswitch", "ret",
          "va_start", "load", "store", "unop", "mem"}

\* ir_basicblock ty; "none" is a block no edge has been recorded for yet.
Kinds == {"none", "merge", "split", "switch", "ret"}

\* The terminating opcode that goes with each terminator kind.
TermOp == [merge |-> "br", split |-> "brcond", switch |-> "brswitch",
           ret |-> "ret"]

MkOp(ty) == [ty |-> ty, ev |-> 0, lab |-> 0, ent |-> {}]

\* The empty function: no blocks yet, no IR_FUNC_FLAG_* set.
EmptyFunc == [n |-> 0, ops |-> <<>>, kind |-> <<>>, succ |-> <<>>,
              preds |-> <<>>, alive |-> {}, flags |-> {}]

Blocks(g) == 0 .. g.n - 1

(***************************************************************************)
(* ir_alloc_basicblock: a fresh block with the next id at the end of the  *)
(* function's block list.                                                  *)
(***************************************************************************)
AllocBB(g) ==
  LET b == g.n
      ext(f, v) == [i \in 0 .. b |-> IF i = b THEN v ELSE f[i]]
  IN [g EXCEPT !.n = b + 1,
               !.ops = ext(g.ops, <<>>),
               !.kind = ext(g.kind, "none"),
               !.succ = ext(g.succ, <<>>),
               !.preds = ext(g.preds, {}),
               !.alive = @ \cup {b}]

\* ir_alloc_stmt + ir_alloc_op: append an operation to block b.
AppendOp(g, b, op) == [g EXCEPT !.ops[b] = Append(@, op)]

\* ir_insert_phi: a phi goes to the head of its block.
InsertPhi(g, b, entries) ==
  [g EXCEPT !.ops[b] = <<[MkOp("phi") EXCEPT !.ent = entries]>> \o @]

(***************************************************************************)
(* Record that block b ends with terminator kind k and edges to the        *)
(* blocks in the sequence ss: b leaves the predecessor sets of its old     *)
(* successors and joins those of the new ones.                             *)
(***************************************************************************)
SetEdges(g, b, k, ss) ==
  LET new == {ss[i] : i \in DOMAIN ss}
  IN [g EXCEPT !.kind[b] = k,
               !.succ[b] = ss,
               !.preds = [x \in DOMAIN g.preds |->
                            IF x \in new THEN g.preds[x] \cup {b}
                                        ELSE g.preds[x] \ {b}]]

MakeMerge(g, b, target) == SetEdges(g, b, "merge", <<target>>)

MakeSplit(g, b, t, f) == SetEdges(g, b, "split", <<t, f>>)

MakeSwitch(g, b, targets, default) == SetEdges(g, b, "switch",
                                              Append(targets, default))

\* ir_basicblock ty = IR_BASICBLOCK_TY_RET, as set by build_ir_for_ret.
MakeRet(g, b) == SetEdges(g, b, "ret", <<>>)

SuccSet(g, b) == {g.succ[b][i] : i \in DOMAIN g.succ[b]}

(***************************************************************************)
(* ir_prune_basicblocks: drop the blocks that have no operations and no   *)
(* incoming edge (spec.md 4.G).  A dropped block is detached: its id is    *)
(* the DETACHED_BASICBLOCK sentinel afterwards.                            *)
(***************************************************************************)
PruneBlocks(g) ==
  [g EXCEPT !.alive = {b \in @ : g.ops[b] # <<>> \/ g.preds[b] \cap @ # {}}]

\* The function's first block: the list keeps allocation order.
EntryBB(g) == CHOOSE b \in g.alive : \A c \in g.alive : b <= c

LastOp(g, b) == g.ops[b][Len(g.ops[b])]

\* ir_op_is_branch
IsBranch(ty) == ty \in {"br", "brcond", "brswitch", "ret"}

=============================================================================
