------------------------------- MODULE IRBuild ------------------------------
(***************************************************************************)
(* The statement builder of ir/build.c: build_ir_for_function lowering one *)
(* function body through build_ir_for_stmt and its handlers.               *)
(*                                                                         *)
(* The recursion of the C code is an explicit stack k of frames.  A frame  *)
(* [f |-> "stmt", s |-> s] is a pending call build_ir_for_stmt(irb, cur,   *)
(* s); every other frame is the rest of a handler, waiting for the call    *)
(* above it to return, with the locals it still needs.  The register cur   *)
(* is the basic block passed to the call on top of k, and the block it     *)
(* returned once a handler's rest is on top.  jumps, cases and defers are  *)
(* the builder's vectors irb->jumps, irb->switch_cases and irb->defers.    *)
(***************************************************************************)
EXTENDS CSemantics

VARIABLES
  prog,    \* the function body (td_funcdef body)
  k,       \* the builder's call stack
  cur,     \* the current basic block
  g,       \* the function under construction
  jumps,   \* irb->jumps: [ty, bb] with ty "loop" (IR_JUMP_TY_NEW_LOOP), "break", "continue"
  cases,   \* irb->switch_cases: [ty, v, bb] with ty "switch" (NEW_SWITCH), "case", "default"
  defers,  \* irb->defers: [ty, e] with ty "scope" (NEW_SCOPE) or "defer"
  labels,  \* irb->labels: [name, bb] for each label seen so far
  phase    \* "build", then "done" once build_ir_for_function returns

vars == <<prog, k, cur, g, jumps, cases, defers, labels, phase>>

Top == k[Len(k)]

\* Replace the frame on top by the frames fs (the last one ends on top).
Ret(fs) == k' = SubSeq(k, 1, Len(k) - 1) \o fs

Call(s) == [f |-> "stmt", s |-> s]

\* The frame on top is the rest f of a handler, or a call on a statement of
\* one of the kinds ks.
At(f) == k # <<>> /\ Top.f = f

AtStmt(ks) == At("stmt") /\ Top.s.k \in ks

Br == MkOp("br")

Popped(stack, i) == SubSeq(stack, 1, i - 1)

\* The index of the last element of a stack with the given marker type.
LastMarker(stack, ty) ==
  CHOOSE i \in DOMAIN stack : stack[i].ty = ty
                               /\ \A j \in DOMAIN stack : j > i => stack[j].ty # ty

(***************************************************************************)
(* build_ensure_deferred: lower the deferred statements of the innermost   *)
(* scope, newest first, stopping at its NEW_SCOPE marker; the vector's     *)
(* first slot is never looked at (while (i > 1)).  Returns [g, bb].        *)
(***************************************************************************)
EnsureDeferred(h, b, ds) ==
  LET RECURSIVE Go(_, _, _)
      Go(x, c, i) == IF i <= 1 \/ ds[i].ty = "scope" THEN [g |-> x, bb |-> c]
                     ELSE LET r == LowerExpr(x, c, ds[i].e) IN Go(r.g, r.bb, i - 1)
  IN Go(h, b, Len(ds))

(***************************************************************************)
(* The tail of build_ir_for_iterstmt: pop irb->jumps down to the loop's    *)
(* NEW_LOOP marker, wiring each break to the exit block and each continue *)
(* to the entry block, each with a br.                                     *)
(***************************************************************************)
ResolveLoopJumps(h, js, entry, exit) ==
  LET m == LastMarker(js, "loop")
      RECURSIVE Go(_, _)
      Go(x, i) == IF i = m THEN x
                  ELSE LET j == js[i]
                           t == IF j.ty = "break" THEN exit ELSE entry
                       IN Go(AppendOp(MakeMerge(x, j.bb, t), j.bb, Br), i - 1)
  IN [g |-> Go(h, Len(js)), jumps |-> Popped(js, m)]

-----------------------------------------------------------------------------
(* build_ir_for_stmt, TD_STMT_TY_EXPR: the expression in the current block. *)
BuildExprStmt ==
  /\ AtStmt({"expr"})
  /\ LET r == LowerExpr(g, cur, Top.s.ex[1])
     IN g' = r.g /\ cur' = r.bb
  /\ Ret(<<>>)
  /\ UNCHANGED <<prog, jumps, cases, defers, phase, labels>>

(***************************************************************************)
(* build_ir_for_auto_var: the initialiser, if any, in the current block   *)
(* (build_ir_for_init), then the store or the variable write.              *)
(***************************************************************************)
LowerAutoVar(h, b, init) == LowerExpr(h, b, init)

(***************************************************************************)
(* TD_STMT_TY_DECLARATION, build_ir_for_declaration: nothing for a        *)
(* typedef; each automatic variable in turn; a static local becomes a     *)
(* global with no code in the function.                                    *)
(***************************************************************************)
BuildDeclaration ==
  /\ AtStmt({"decl"})
  /\ LET RECURSIVE Go(_, _, _)
         Go(x, c, i) == IF i > Len(Top.s.ex) THEN [g |-> x, bb |-> c]
                        ELSE LET r == LowerAutoVar(x, c, Top.s.ex[i])
                             IN Go(r.g, r.bb, i + 1)
         r == Go(g, cur, 1)
     IN g' = r.g /\ cur' = r.bb
  /\ Ret(<<>>)
  /\ UNCHANGED <<prog, jumps, cases, defers, phase, labels>>

(* TD_STMT_TY_NULL: nothing. *)
BuildNull ==
  /\ AtStmt({"null"})
  /\ Ret(<<>>)
  /\ UNCHANGED <<prog, cur, g, jumps, cases, defers, phase, labels>>

(* TD_STMT_TY_DEFER: push the deferred statement; no code yet. *)
BuildDefer ==
  /\ AtStmt({"defer"})
  /\ defers' = Append(defers, [ty |-> "defer", e |-> Top.s.sub[1].ex[1]])
  /\ Ret(<<>>)
  /\ UNCHANGED <<prog, cur, g, jumps, cases, phase, labels>>

(* build_ir_for_compoundstmt: a NEW_SCOPE marker, then each statement. *)
BuildCompound ==
  /\ AtStmt({"cmpd"})
  /\ defers' = Append(defers, [ty |-> "scope", e |-> NoExpr])
  /\ LET ss == Top.s.sub
     IN Ret(<<[f |-> "cmpdEnd"]>> \o [i \in DOMAIN ss |-> Call(ss[Len(ss) + 1 - i])])
  /\ UNCHANGED <<prog, cur, g, jumps, cases, phase, labels>>

\* Mutant: the scope's deferred statements run oldest first.
CompoundEndFifo ==
  /\ At("cmpdEnd")
  /\ LET m == LastMarker(defers, "scope")
         RECURSIVE Go(_, _, _)
         Go(x, c, i) == IF i > Len(defers) THEN [g |-> x, bb |-> c]
                        ELSE LET r == LowerExpr(x, c, defers[i].e)
                             IN Go(r.g, r.bb, i + 1)
         r == Go(g, cur, m + 1)
     IN /\ g' = r.g /\ cur' = r.bb
        /\ defers' = Popped(defers, m)
  /\ Ret(<<>>)
  /\ UNCHANGED <<prog, jumps, cases, phase, labels>>

\* Mutant: the pop stops above the NEW_SCOPE marker, leaving it behind.
CompoundEndKeepsMarker ==
  /\ At("cmpdEnd")
  /\ LET m == LastMarker(defers, "scope")
         RECURSIVE Go(_, _, _)
         Go(x, c, i) == IF i = m THEN [g |-> x, bb |-> c]
                        ELSE LET r == LowerExpr(x, c, defers[i].e)
                             IN Go(r.g, r.bb, i - 1)
         r == Go(g, cur, Len(defers))
     IN /\ g' = r.g /\ cur' = r.bb
        /\ defers' = Popped(defers, m + 1)
  /\ Ret(<<>>)
  /\ UNCHANGED <<prog, jumps, cases, phase, labels>>

(* ... then pop irb->defers to the marker, lowering each deferred statement. *)
CompoundEnd ==
  /\ At("cmpdEnd")
  /\ LET m == LastMarker(defers, "scope")
         RECURSIVE Go(_, _, _)
         Go(x, c, i) == IF i = m THEN [g |-> x, bb |-> c]
                        ELSE LET r == LowerExpr(x, c, defers[i].e)
                             IN Go(r.g, r.bb, i - 1)
         r == Go(g, cur, Len(defers))
     IN /\ g' = r.g /\ cur' = r.bb
        /\ defers' = Popped(defers, m)
  /\ Ret(<<>>)
  /\ UNCHANGED <<prog, jumps, cases, phase, labels>>

(* build_ir_for_if: condition, brcond, body in a fresh block ... *)
BuildIf ==
  /\ AtStmt({"if"})
  /\ LET c == LowerExpr(g, cur, Top.s.ex[1])
         start == c.g.n
     IN /\ g' = AppendOp(AllocBB(c.g), c.bb, MkOp("brcond"))
        /\ cur' = start
        /\ Ret(<<[f |-> "ifEnd", pre |-> c.bb, start |-> start], Call(Top.s.sub[1])>>)
  /\ UNCHANGED <<prog, jumps, cases, defers, phase, labels>>

\* Mutant: the body's last block gets its merge edge but no br op.
IfEndNoBr ==
  /\ At("ifEnd")
  /\ LET after == g.n
         h == AllocBB(g)
     IN /\ g' = MakeMerge(MakeSplit(h, Top.pre, Top.start, after), cur, after)
        /\ cur' = after
  /\ Ret(<<>>)
  /\ UNCHANGED <<prog, jumps, cases, defers, phase, labels>>

\* Mutant: the block returned is one past the after block.
IfEndOffByOne ==
  /\ At("ifEnd")
  /\ LET after == g.n
         h == AllocBB(AppendOp(g, cur, Br))
     IN /\ g' = MakeMerge(MakeSplit(h, Top.pre, Top.start, after), cur, after)
        /\ cur' = after + 1
  /\ Ret(<<>>)
  /\ UNCHANGED <<prog, jumps, cases, defers, phase, labels>>

(* ... then a br in the body's last block, the after block, and the edges. *)
IfEnd ==
  /\ At("ifEnd")
  /\ LET after == g.n
         h == AllocBB(AppendOp(g, cur, Br))
     IN /\ g' = MakeMerge(MakeSplit(h, Top.pre, Top.start, after), cur, after)
        /\ cur' = after
  /\ Ret(<<>>)
  /\ UNCHANGED <<prog, jumps, cases, defers, phase, labels>>

(* build_ir_for_ifelse: condition, then the if body in a fresh block ... *)
BuildIfElse ==
  /\ AtStmt({"ifelse"})
  /\ LET c == LowerExpr(g, cur, Top.s.ex[1])
     IN /\ g' = AllocBB(c.g)
        /\ cur' = c.g.n
        /\ Ret(<<[f |-> "ifElseMid", pre |-> c.bb, ifbb |-> c.g.n,
                  els |-> Top.s.sub[2]], Call(Top.s.sub[1])>>)
  /\ UNCHANGED <<prog, jumps, cases, defers, phase, labels>>

(* ... the else body in a fresh block ... *)
IfElseMid ==
  /\ At("ifElseMid")
  /\ g' = AllocBB(g)
  /\ cur' = g.n
  /\ Ret(<<[f |-> "ifElseEnd", pre |-> Top.pre, ifbb |-> Top.ifbb,
            afterIf |-> cur, elsebb |-> g.n], Call(Top.els)>>)
  /\ UNCHANGED <<prog, jumps, cases, defers, phase, labels>>

(* ... then the join block, split, brcond and the two merges with their br. *)
IfElseEnd ==
  /\ At("ifElseEnd")
  /\ LET after == g.n
         h1 == MakeSplit(AllocBB(g), Top.pre, Top.ifbb, Top.elsebb)
         h2 == AppendOp(h1, Top.pre, MkOp("brcond"))
         h3 == MakeMerge(AppendOp(h2, Top.afterIf, Br), Top.afterIf, after)
     IN /\ g' = MakeMerge(AppendOp(h3, cur, Br), cur, after)
        /\ cur' = after
  /\ Ret(<<>>)
  /\ UNCHANGED <<prog, jumps, cases, defers, phase, labels>>

\* Mutant: no NEW_SWITCH marker is pushed.
BuildSwitchNoMarker ==
  /\ AtStmt({"switch"})
  /\ LET c == LowerExpr(g, cur, Top.s.ex[1])
     IN /\ g' = AllocBB(AppendOp(c.g, c.bb, MkOp("brswitch")))
        /\ cur' = c.g.n
        /\ Ret(<<[f |-> "switchEnd", bb |-> cur], Call(Top.s.sub[1])>>)
  /\ jumps' = Append(jumps, [ty |-> "loop", bb |-> 0])
  /\ UNCHANGED <<prog, defers, phase, labels, cases>>

(***************************************************************************)
(* build_ir_for_switch: NEW_LOOP and NEW_SWITCH markers, the control      *)
(* expression, a brswitch op in the block it ends in, and the body in a   *)
(* fresh block.  The rest keeps the block the statement started in.       *)
(***************************************************************************)
BuildSwitch ==
  /\ AtStmt({"switch"})
  /\ LET c == LowerExpr(g, cur, Top.s.ex[1])
     IN /\ g' = AllocBB(AppendOp(c.g, c.bb, MkOp("brswitch")))
        /\ cur' = c.g.n
        /\ Ret(<<[f |-> "switchEnd", bb |-> cur], Call(Top.s.sub[1])>>)
  /\ jumps' = Append(jumps, [ty |-> "loop", bb |-> 0])
  /\ cases' = Append(cases, [ty |-> "switch", v |-> 0, bb |-> 0])
  /\ UNCHANGED <<prog, defers, phase, labels>>

\* Mutant: breaks go to the body's end block instead of the after block.
SwitchEndBreakToEnd ==
  /\ At("switchEnd")
  /\ LET after == g.n
         h == AppendOp(MakeMerge(AllocBB(g), cur, after), cur, Br)
         cm == LastMarker(cases, "switch")
         popped == [i \in 1 .. Len(cases) - cm |-> cases[Len(cases) + 1 - i]]
         targets == SelectSeq(popped, LAMBDA c : c.ty = "case")
         dflt == {c.bb : c \in {popped[i] : i \in {i \in DOMAIN popped :
                                  popped[i].ty = "default"}}}
         default == IF dflt = {} THEN after ELSE CHOOSE d \in dflt : TRUE
         h2 == MakeSwitch(h, Top.bb, [i \in DOMAIN targets |-> targets[i].bb],
                          default)
         jm == LastMarker(jumps, "loop")
         pj == [i \in 1 .. Len(jumps) - jm |-> jumps[Len(jumps) + 1 - i]]
         RECURSIVE Wire(_, _)
         Wire(x, i) == IF i > Len(pj) THEN x
                       ELSE IF pj[i].ty = "break"
                       THEN Wire(AppendOp(MakeMerge(x, pj[i].bb, cur), pj[i].bb, Br),
                                 i + 1)
                       ELSE Wire(x, i + 1)
     IN /\ g' = Wire(h2, 1)
        /\ cur' = after
        /\ cases' = Popped(cases, cm)
        /\ jumps' = Popped(jumps, jm) \o SelectSeq(pj, LAMBDA j : j.ty = "continue")
  /\ Ret(<<>>)
  /\ UNCHANGED <<prog, defers, phase, labels>>

(***************************************************************************)
(* ... then the after block with the body's merge and br; the cases down  *)
(* to NEW_SWITCH (popped newest first) and the default, or the after      *)
(* block, become the switch edges of basicblock; the jumps down to        *)
(* NEW_LOOP are popped: breaks go to the after block, continues are put   *)
(* back for the enclosing loop in the order they were popped.             *)
(***************************************************************************)
SwitchEnd ==
  /\ At("switchEnd")
  /\ LET after == g.n
         h == AppendOp(MakeMerge(AllocBB(g), cur, after), cur, Br)
         cm == LastMarker(cases, "switch")
         popped == [i \in 1 .. Len(cases) - cm |-> cases[Len(cases) + 1 - i]]
         targets == SelectSeq(popped, LAMBDA c : c.ty = "case")
         dflt == {c.bb : c \in {popped[i] : i \in {i \in DOMAIN popped :
                                  popped[i].ty = "default"}}}
         default == IF dflt = {} THEN after ELSE CHOOSE d \in dflt : TRUE
         h2 == MakeSwitch(h, Top.bb, [i \in DOMAIN targets |-> targets[i].bb],
                          default)
         jm == LastMarker(jumps, "loop")
         pj == [i \in 1 .. Len(jumps) - jm |-> jumps[Len(jumps) + 1 - i]]
         RECURSIVE Wire(_, _)
         Wire(x, i) == IF i > Len(pj) THEN x
                       ELSE IF pj[i].ty = "break"
                       THEN Wire(AppendOp(MakeMerge(x, pj[i].bb, after), pj[i].bb, Br),
                                 i + 1)
                       ELSE Wire(x, i + 1)
     IN /\ g' = Wire(h2, 1)
        /\ cur' = after
        /\ cases' = Popped(cases, cm)
        /\ jumps' = Popped(jumps, jm) \o SelectSeq(pj, LAMBDA j : j.ty = "continue")
  /\ Ret(<<>>)
  /\ UNCHANGED <<prog, defers, phase, labels>>

\* Mutant: no NEW_LOOP marker is pushed for the while loop.
BuildWhileNoMarker ==
  /\ AtStmt({"while"})
  /\ LET condBB == g.n
         h == AllocBB(g)
         h1 == AppendOp(MakeMerge(h, cur, condBB), cur, Br)
         c == LowerExpr(h1, condBB, Top.s.ex[1])
         body == c.g.n
     IN /\ g' = AllocBB(AppendOp(c.g, c.bb, MkOp("brcond")))
        /\ cur' = body
        /\ Ret(<<[f |-> "whileEnd", condBB |-> condBB, condEnd |-> c.bb,
                  body |-> body], Call(Top.s.sub[1])>>)
  /\ UNCHANGED <<prog, cases, defers, phase, labels, jumps>>

(***************************************************************************)
(* build_ir_for_iterstmt pushes a NEW_LOOP marker and calls the loop's     *)
(* builder.  build_ir_for_whilestmt: br from the current block to a fresh *)
(* cond block, the condition there with its brcond, the body in a fresh   *)
(* block ...                                                               *)
(***************************************************************************)
BuildWhile ==
  /\ AtStmt({"while"})
  /\ LET condBB == g.n
         h == AllocBB(g)
         h1 == AppendOp(MakeMerge(h, cur, condBB), cur, Br)
         c == LowerExpr(h1, condBB, Top.s.ex[1])
         body == c.g.n
     IN /\ g' = AllocBB(AppendOp(c.g, c.bb, MkOp("brcond")))
        /\ cur' = body
        /\ Ret(<<[f |-> "whileEnd", condBB |-> condBB, condEnd |-> c.bb,
                  body |-> body], Call(Top.s.sub[1])>>)
  /\ jumps' = Append(jumps, [ty |-> "loop", bb |-> 0])
  /\ UNCHANGED <<prog, cases, defers, phase, labels>>

\* Mutant: the body's last block gets the back edge but no br op.
WhileEndNoBr ==
  /\ At("whileEnd")
  /\ LET after == g.n
         h == MakeSplit(AllocBB(g), Top.condEnd, Top.body, after)
         h1 == MakeMerge(h, cur, Top.condBB)
         r == ResolveLoopJumps(h1, jumps, Top.condBB, after)
     IN /\ g' = r.g /\ jumps' = r.jumps
        /\ cur' = after
  /\ Ret(<<>>)
  /\ UNCHANGED <<prog, cases, defers, phase, labels>>

(* ... then the exit block, split of the cond, merge and br back to the cond
   block, and the loop's breaks and continues wired to exit and cond block. *)
WhileEnd ==
  /\ At("whileEnd")
  /\ LET after == g.n
         h == MakeSplit(AllocBB(g), Top.condEnd, Top.body, after)
         h1 == AppendOp(MakeMerge(h, cur, Top.condBB), cur, Br)
         r == ResolveLoopJumps(h1, jumps, Top.condBB, after)
     IN /\ g' = r.g /\ jumps' = r.jumps
        /\ cur' = after
  /\ Ret(<<>>)
  /\ UNCHANGED <<prog, cases, defers, phase, labels>>

(* build_ir_for_dowhilestmt: br from the current block into a fresh body
   block ... *)
BuildDoWhile ==
  /\ AtStmt({"dowhile"})
  /\ LET body == g.n
     IN /\ g' = MakeMerge(AllocBB(AppendOp(g, cur, Br)), cur, body)
        /\ cur' = body
        /\ Ret(<<[f |-> "doWhileEnd", body |-> body, c |-> Top.s.ex[1]],
                 Call(Top.s.sub[1])>>)
  /\ jumps' = Append(jumps, [ty |-> "loop", bb |-> 0])
  /\ UNCHANGED <<prog, cases, defers, phase, labels>>

\* Mutant: continue goes back to the top of the body, skipping the condition.
DoWhileEndContinueToBody ==
  /\ At("doWhileEnd")
  /\ LET condBB == g.n
         c == LowerExpr(AllocBB(g), condBB, Top.c)
         h == AppendOp(c.g, c.bb, MkOp("brcond"))
         h1 == AppendOp(MakeMerge(h, cur, condBB), cur, Br)
         after == h1.n
         h2 == MakeSplit(AllocBB(h1), c.bb, Top.body, after)
         r == ResolveLoopJumps(h2, jumps, Top.body, after)
     IN /\ g' = r.g /\ jumps' = r.jumps
        /\ cur' = after
  /\ Ret(<<>>)
  /\ UNCHANGED <<prog, cases, defers, phase, labels>>

(* ... then the condition in a fresh cond block, merge and br from the body's
   last block to it, split back to the body or to a fresh exit block. *)
DoWhileEnd ==
  /\ At("doWhileEnd")
  /\ LET condBB == g.n
         c == LowerExpr(AllocBB(g), condBB, Top.c)
         h == AppendOp(c.g, c.bb, MkOp("brcond"))
         h1 == AppendOp(MakeMerge(h, cur, condBB), cur, Br)
         after == h1.n
         h2 == MakeSplit(AllocBB(h1), c.bb, Top.body, after)
         r == ResolveLoopJumps(h2, jumps, condBB, after)
     IN /\ g' = r.g /\ jumps' = r.jumps
        /\ cur' = after
  /\ Ret(<<>>)
  /\ UNCHANGED <<prog, cases, defers, phase, labels>>

(***************************************************************************)
(* build_ir_for_forstmt: init in the current block; with a condition, br  *)
(* to a fresh cond block holding the condition and its brcond, else a br  *)
(* from the init's block; merge into a fresh body block.  Kept for the    *)
(* rest: the block the end of the body branches back to (the cond block,  *)
(* or the body block), the block that splits, and the body block.         *)
(***************************************************************************)
BuildFor ==
  /\ AtStmt({"for"})
  /\ LET init == Top.s.ex[1]  cond == Top.s.ex[2]
         hasCond == cond # NoExpr
         i == LowerExpr(g, cur, init)
         condBB == i.g.n
         h == AllocBB(i.g)
         c == LowerExpr(AppendOp(MakeMerge(h, i.bb, condBB), i.bb, Br), condBB, cond)
         hc == IF hasCond THEN AppendOp(c.g, c.bb, MkOp("brcond"))
                          ELSE AppendOp(i.g, i.bb, Br)
         afterCond == IF hasCond THEN c.bb ELSE i.bb
         body == hc.n
     IN /\ g' = MakeMerge(AllocBB(hc), afterCond, body)
        /\ cur' = body
        /\ Ret(<<[f |-> "forEnd", hasCond |-> hasCond,
                  beforeBody |-> IF hasCond THEN condBB ELSE body,
                  afterCond |-> afterCond, body |-> body, iter |-> Top.s.ex[3]],
                 Call(Top.s.sub[1])>>)
  /\ jumps' = Append(jumps, [ty |-> "loop", bb |-> 0])
  /\ UNCHANGED <<prog, cases, defers, phase, labels>>

(***************************************************************************)
(* ... then, with an iter expression, br from the body's last block to a  *)
(* fresh iter block holding it; br from the end of that (or of the body)  *)
(* back to beforeBody; the exit block and, with a condition, the split.   *)
(* The loop's entry, where continues go, is end_body_basicblock.          *)
(***************************************************************************)
ForEnd ==
  /\ At("forEnd")
  /\ LET hasIter == Top.iter # NoExpr
         iterBB == g.n
         it == LowerExpr(AppendOp(MakeMerge(AllocBB(g), cur, iterBB), cur, Br),
                         iterBB, Top.iter)
         h == IF hasIter THEN it.g ELSE g
         endBody == IF hasIter THEN it.bb ELSE cur
         h1 == MakeMerge(AppendOp(h, endBody, Br), endBody, Top.beforeBody)
         after == h1.n
         h2 == IF Top.hasCond
                 THEN MakeSplit(AllocBB(h1), Top.afterCond, Top.body, after)
                 ELSE AllocBB(h1)
         r == ResolveLoopJumps(h2, jumps, endBody, after)
     IN /\ g' = r.g /\ jumps' = r.jumps
        /\ cur' = after
  /\ Ret(<<>>)
  /\ UNCHANGED <<prog, cases, defers, phase, labels>>

\* Mutant: the label is registered at the block before the br into it.
BuildLabeledAtCur ==
  /\ AtStmt({"label", "case", "default"})
  /\ LET next == g.n
     IN /\ g' = AppendOp(MakeMerge(AllocBB(g), cur, next), cur, Br)
        /\ cur' = next
        /\ IF Top.s.k = "label"
             THEN /\ labels' = labels \cup {[name |-> Top.s.v, bb |-> cur]}
                  /\ UNCHANGED cases
             ELSE /\ cases' = Append(cases, [ty |-> Top.s.k, v |-> Top.s.v, bb |-> next])
                  /\ UNCHANGED labels
  /\ Ret(<<Call(Top.s.sub[1])>>)
  /\ UNCHANGED <<prog, jumps, defers, phase>>

(***************************************************************************)
(* build_ir_for_labeledstmt: br from the current block into a fresh block, *)
(* the label registered, or a case or default entry for the enclosing     *)
(* switch, then the labelled statement in the fresh block (a tail call).   *)
(***************************************************************************)
BuildLabeled ==
  /\ AtStmt({"label", "case", "default"})
  /\ LET next == g.n
     IN /\ g' = AppendOp(MakeMerge(AllocBB(g), cur, next), cur, Br)
        /\ cur' = next
        /\ IF Top.s.k = "label"
             THEN /\ labels' = labels \cup {[name |-> Top.s.v, bb |-> next]}
                  /\ UNCHANGED cases
             ELSE /\ cases' = Append(cases, [ty |-> Top.s.k, v |-> Top.s.v, bb |-> next])
                  /\ UNCHANGED labels
  /\ Ret(<<Call(Top.s.sub[1])>>)
  /\ UNCHANGED <<prog, jumps, defers, phase>>

(***************************************************************************)
(* build_ir_for_goto: a br carrying the label's name in its metadata, and  *)
(* a fresh block to go on in; the edge is wired once the body is built.    *)
(***************************************************************************)
BuildGoto ==
  /\ AtStmt({"goto"})
  /\ g' = AllocBB(AppendOp(g, cur, [Br EXCEPT !.lab = Top.s.v]))
  /\ cur' = g.n
  /\ Ret(<<>>)
  /\ UNCHANGED <<prog, jumps, cases, defers, phase, labels>>

(***************************************************************************)
(* build_ir_for_ret: the innermost scope's deferred statements, the        *)
(* return value, a ret op; the block becomes a RET block and the builder  *)
(* goes on in a fresh block.                                               *)
(***************************************************************************)
Return(h, b, e) ==
  LET d == EnsureDeferred(h, b, defers)
      v == LowerExpr(d.g, d.bb, e)
  IN [g |-> AllocBB([AppendOp(v.g, v.bb, MkOp("ret")) EXCEPT !.kind[v.bb] = "ret"]),
      bb |-> v.g.n]

BuildReturn ==
  /\ AtStmt({"ret"})
  /\ LET r == Return(g, cur, IF Top.s.ex = <<>> THEN NoExpr ELSE Top.s.ex[1])
     IN g' = r.g /\ cur' = r.bb
  /\ Ret(<<>>)
  /\ UNCHANGED <<prog, jumps, cases, defers, phase, labels>>

\* Mutant: the block returned is one past the fresh block.
BuildJumpOffByOne ==
  /\ AtStmt({"break", "continue"})
  /\ LET d == EnsureDeferred(g, cur, defers)
     IN /\ g' = AllocBB(d.g)
        /\ cur' = d.g.n + 1
        /\ jumps' = Append(jumps, [ty |-> Top.s.k, bb |-> d.bb])
  /\ Ret(<<>>)
  /\ UNCHANGED <<prog, cases, defers, phase, labels>>

(***************************************************************************)
(* build_ir_for_break / build_ir_for_continue: the innermost scope's       *)
(* deferred statements, then a jump record for the enclosing construct and *)
(* a fresh block to go on in.                                              *)
(***************************************************************************)
BuildJump ==
  /\ AtStmt({"break", "continue"})
  /\ LET d == EnsureDeferred(g, cur, defers)
     IN /\ g' = AllocBB(d.g)
        /\ cur' = d.g.n
        /\ jumps' = Append(jumps, [ty |-> Top.s.k, bb |-> d.bb])
  /\ Ret(<<>>)
  /\ UNCHANGED <<prog, cases, defers, phase, labels>>

(***************************************************************************)
(* The end of build_ir_for_function once the body is built: every br with *)
(* a label name in its metadata is merged into that label's block; prune; *)
(* if the last block was pruned or ends in a branch other than ret, a     *)
(* fresh last block; unless it ends in ret, an implicit return             *)
(* (build_ir_for_ret with no statement) there; prune again.                *)
(***************************************************************************)
FinishFunction ==
  /\ phase = "build" /\ k = <<>>
  /\ LET RECURSIVE FixLabels(_, _)
         FixLabels(x, b) ==
           IF b = x.n THEN x
           ELSE LET gotos == {x.ops[b][i].lab : i \in {i \in DOMAIN x.ops[b] :
                                 x.ops[b][i].ty = "br" /\ x.ops[b][i].lab # 0}}
                    targets == {l.bb : l \in {l \in labels : l.name \in gotos}}
                    RECURSIVE Wire(_, _)
                    Wire(y, ts) == IF ts = {} THEN y
                                   ELSE LET t == CHOOSE t \in ts : TRUE
                                        IN Wire(MakeMerge(y, b, t), ts \ {t})
                IN FixLabels(Wire(x, targets), b + 1)
         h == PruneBlocks(FixLabels(g, 0))
         endsInJump == h.ops[cur] # <<>> /\ IsBranch(LastOp(h, cur).ty)
                       /\ LastOp(h, cur).ty # "ret"
         fresh == cur \notin h.alive \/ endsInJump
         lastBB == IF fresh THEN h.n ELSE cur
         h1 == IF fresh THEN AllocBB(h) ELSE h
         needRet == h1.ops[lastBB] = <<>> \/ LastOp(h1, lastBB).ty # "ret"
         h2 == IF needRet THEN Return(h1, lastBB, NoExpr).g ELSE h1
     IN g' = PruneBlocks(h2)
  /\ phase' = "done"
  /\ UNCHANGED <<prog, k, cur, jumps, cases, defers, labels>>

\* Nothing is left to do once the function is built.
Done == phase = "done" /\ UNCHANGED vars

Init ==
  /\ prog \in Programs
  /\ k = <<Call(prog)>>
  /\ cur = 0
  /\ g = AllocBB(EmptyFunc)
  /\ jumps = <<>>
  /\ cases = <<>>
  /\ defers = <<>>
  /\ labels = {}
  /\ phase = "build"

Next ==
  \/ BuildExprStmt \/ BuildDeclaration \/ BuildNull \/ BuildDefer
  \/ BuildCompound \/ CompoundEnd
  \/ BuildIf \/ IfEnd \/ BuildIfElse \/ IfElseMid \/ IfElseEnd
  \/ BuildSwitch \/ SwitchEnd
  \/ BuildWhile \/ WhileEnd \/ BuildDoWhile \/ DoWhileEnd \/ BuildFor \/ ForEnd
  \/ BuildLabeled \/ BuildGoto \/ BuildReturn \/ BuildJump
  \/ FinishFunction \/ Done

Spec == Init /\ [][Next]_vars

-----------------------------------------------------------------------------
Frames == {"stmt", "cmpdEnd", "ifEnd", "ifElseMid", "ifElseEnd", "switchEnd",
           "whileEnd", "doWhileEnd", "forEnd"}

TypeOK ==
  /\ \A i \in DOMAIN k : k[i].f \in Frames
  /\ g.n \in Nat /\ cur \in Blocks(g)
  /\ g.alive \subseteq Blocks(g)
  /\ g.flags \subseteq {"uses_va_args"}
  /\ \A b \in Blocks(g) : /\ g.kind[b] \in Kinds
                          /\ \A i \in DOMAIN g.ops[b] : g.ops[b][i].ty \in OpTys
                          /\ SuccSet(g, b) \cup g.preds[b] \subseteq Blocks(g)
  /\ \A i \in DOMAIN jumps : jumps[i].ty \in {"loop", "break", "continue"}
  /\ \A i \in DOMAIN cases : cases[i].ty \in {"switch", "case", "default"}
  /\ \A i \in DOMAIN defers : defers[i].ty \in {"scope", "defer"}
  /\ \A l \in labels : l.bb \in Blocks(g)
  /\ phase \in {"build", "done"}

\* Frames of handlers that wait with a marker of theirs on a builder stack.
Waiting(fs) == Cardinality({i \in DOMAIN k : k[i].f \in fs})

Markers(stack, ty) == Cardinality({i \in DOMAIN stack : stack[i].ty = ty})

(***************************************************************************)
(* The marker protocol of irb->jumps, irb->switch_cases and irb->defers:   *)
(* every loop or switch being built has exactly one NEW_LOOP marker on     *)
(* jumps, every switch one NEW_SWITCH marker on switch_cases, and every    *)
(* compound statement one NEW_SCOPE marker on defers, so that each         *)
(* handler's pop loop stops at its own marker; a break or continue record  *)
(* always sits above some NEW_LOOP marker, so iterstmt and switch never    *)
(* run off the bottom (the BUG at the end of build_ir_for_iterstmt).       *)
(***************************************************************************)
StackDiscipline ==
  /\ Markers(jumps, "loop") = Waiting({"switchEnd", "whileEnd", "doWhileEnd", "forEnd"})
  /\ Markers(cases, "switch") = Waiting({"switchEnd"})
  /\ Markers(defers, "scope") = Waiting({"cmpdEnd"})
  /\ jumps # <<>> => jumps[1].ty = "loop"
  /\ cases # <<>> => cases[1].ty = "switch"

(***************************************************************************)
(* The function build_ir_for_function returns is well formed IR: every     *)
(* block left after pruning ends in exactly one terminating op, the one   *)
(* that goes with its terminator kind ("all BBs end in a branch", the     *)
(* comment in build_ir_for_if), and its edges lead to blocks that were    *)
(* not pruned.                                                             *)
(***************************************************************************)
CFGWellFormed ==
  phase = "done" =>
    \A b \in g.alive :
      /\ g.ops[b] # <<>>
      /\ g.kind[b] # "none"
      /\ LastOp(g, b).ty = TermOp[g.kind[b]]
      /\ \A i \in 1 .. Len(g.ops[b]) - 1 : ~IsBranch(g.ops[b][i].ty)
      /\ SuccSet(g, b) \subseteq g.alive

(***************************************************************************)
(* Phis built for &&, || and ?: take their values from exactly the         *)
(* predecessors of their block (spec.md 4.C "Phi shape"), including when   *)
(* the arms are themselves branching expressions.                          *)
(***************************************************************************)
PhiEntriesArePreds ==
  phase = "done" =>
    \A b \in g.alive : \A i \in DOMAIN g.ops[b] :
      g.ops[b][i].ty = "phi" => g.ops[b][i].ent = g.preds[b]

(***************************************************************************)
(* The built function does what the body says: walking its CFG from the   *)
(* entry block evaluates the same sequences of expressions, and ends in a  *)
(* return the same way, as running the body under C semantics with         *)
(* break, continue, switch, goto and defer (every branch may be taken).   *)
(***************************************************************************)
TraceEquivalence ==
  phase = "done" => CFGObs(g) = RefObs(prog)

(***************************************************************************)
(* For every builtin the function calls, build_ir_for_call's dispatch     *)
(* reads only arguments builtins.h declares: every args[i] its branch      *)
(* lowers is below the builtin's num_params, so the type checker has       *)
(* checked it against a parameter spec, and that spec is one the table     *)
(* lists explicitly (not the zero-initialised ANY that fills params[]      *)
(* past the listed ones).                                                  *)
(***************************************************************************)
DispatchReadsDeclaredParams ==
  \A n \in CalledBuiltins(prog) \cap Dispatched : \A j \in DOMAIN BuiltinReads(n) :
     /\ BuiltinReads(n)[j] <= BuiltinsList[n].num_params
     /\ BuiltinsList[n].params[BuiltinReads(n)[j] - 1].ty # SpecAny.ty
=============================================================================
