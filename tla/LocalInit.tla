----------------------------- MODULE LocalInit -----------------------------
(***************************************************************************)
(* The declarations of automatic variables in one block of a function:    *)
(* build_ir_for_auto_var, build_ir_for_init and build_ir_for_init_list    *)
(* (build.c).  An aggregate or array local, and any local when every      *)
(* variable is spilled (IR_BUILD_FLAG_SPILL_ALL), lives in memory (an     *)
(* ir_lcl) and is initialised by stores; a braced list lowers to one      *)
(* store per record of its layout (InitLayout) and a memset of the whole  *)
(* object, inserted before the first of them.  Any other local is an SSA  *)
(* value, recorded by var_assg.                                           *)
(*                                                                         *)
(* The ops of the block are kept in order: "ev" (the value of an           *)
(* expression, build_ir_for_expr), "store" (to local h at a byte offset,   *)
(* its address and addr_offset op folded in) and "memset".  Local h is    *)
(* the one the h-th declaration declares.                                  *)
(***************************************************************************)
EXTENDS InitLayout

LOCAL SE == INSTANCE SequencesExt

CONSTANTS
  Values,     \* the expressions an initialiser is made of
  Inits,      \* the initialisers a declaration may have (td_init)
  MaxDecls    \* declarations in the block

VARIABLES
  spill,   \* irb->flags & IR_BUILD_FLAG_SPILL_ALL
  body,    \* the declarations' initialisers, in order (NoInit for none)
  j,       \* the next declaration to build
  ops,     \* the ops of the block, in order
  ssa      \* ssa[h]: what var_assg recorded for local h ("none" if nothing)

vars == <<spill, body, j, ops, ssa>>

\* A declaration without an initialiser.
NoInit == [k |-> "none"]

Ev(e) == [ty |-> "ev", e |-> e]
Store(h, off, e) == [ty |-> "store", lcl |-> h, off |-> off, e |-> e]
MemSet(h, len) == [ty |-> "memset", lcl |-> h, len |-> len]

\* The type of the local an initialiser initialises.
TypeOf(init) == IF init.k = "list" THEN init.ty ELSE IntTy

\* build_ir_var: the local gets an ir_lcl when every variable is spilled or
\* its type is an aggregate or array.
HasLcl(init) == spill \/ ~IsScalar(TypeOf(init))

\* Mutant: the memset is appended after the stores (insert_before NULL).
InitListZeroLast(os, h, l) ==
  IF IsScalar(l.ty)
  THEN os \o <<Ev(l.inits[1].init.e), Store(h, 0, l.inits[1].init.e)>>
  ELSE LET lay == Layout(l)
           stores == SE!FoldLeft(LAMBDA acc, r : acc \o <<Ev(r.e), Store(h, r.off, r.e)>>,
                                 <<>>, lay)
       IN os \o stores \o <<MemSet(h, SizeOf(l.ty))>>

(***************************************************************************)
(* build_ir_for_init_list for local h at the end of the block os: a       *)
(* scalar's single expression and its store; otherwise the layout's       *)
(* expressions and stores in order, then build_ir_zero_range: a memset of *)
(* the whole object inserted before first_init, the first store, or       *)
(* appended when the list is empty.                                        *)
(***************************************************************************)
InitList(os, h, l) ==
  IF IsScalar(l.ty)
  THEN os \o <<Ev(l.inits[1].init.e), Store(h, 0, l.inits[1].init.e)>>
  ELSE LET lay == Layout(l)
           stores == SE!FoldLeft(LAMBDA acc, r : acc \o <<Ev(r.e), Store(h, r.off, r.e)>>,
                                 <<>>, lay)
           zero == MemSet(h, SizeOf(l.ty))
       IN IF lay = <<>> THEN Append(os \o stores, zero)
          ELSE SE!InsertAt(os \o stores, Len(os) + 2, zero)

Bodies(sp) ==
  {b \in UNION {[1 .. n -> Inits \cup {NoInit}] : n \in 1 .. MaxDecls} :
     \* build_ir_for_init asserts an address for a braced list
     \A h \in DOMAIN b : b[h].k = "list" => sp \/ ~IsScalar(b[h].ty)}

Init ==
  /\ spill \in BOOLEAN
  /\ body \in Bodies(spill)
  /\ j = 1
  /\ ops = <<>>
  /\ ssa = [h \in 1 .. MaxDecls |-> "none"]

(***************************************************************************)
(* build_ir_for_auto_var for declaration j.  With an ir_lcl, an           *)
(* expression's value is stored to the local and a list is built into it  *)
(* (build_ir_for_init returns no op to store); without one, the value or  *)
(* an undf op without an initialiser is given to var_assg.                *)
(***************************************************************************)
AutoVar ==
  /\ j <= Len(body)
  /\ LET init == body[j]
     IN CASE init.k = "list" ->
               ops' = InitList(ops, j, init) /\ UNCHANGED ssa
          [] init.k = "expr" /\ HasLcl(init) ->
               ops' = ops \o <<Ev(init.e), Store(j, 0, init.e)>> /\ UNCHANGED ssa
          [] init.k = "expr" ->
               ops' = Append(ops, Ev(init.e)) /\ ssa' = [ssa EXCEPT ![j] = init.e]
          [] HasLcl(init) ->
               UNCHANGED <<ops, ssa>>
          [] OTHER ->
               ops' = Append(ops, [ty |-> "undf"]) /\ ssa' = [ssa EXCEPT ![j] = "undf"]
  /\ j' = j + 1
  /\ UNCHANGED <<spill, body>>

\* Every declaration of the block is built.
Done == j > Len(body) /\ UNCHANGED vars

Next == AutoVar \/ Done

Spec == Init /\ [][Next]_vars

-----------------------------------------------------------------------------
\* A word a memset of value 0 wrote.
Zero == "zero"

\* The word offsets of an object of type ty (every scalar is an int).
Words(ty) == {4 * w : w \in 0 .. SizeOf(ty) \div 4 - 1}

(***************************************************************************)
(* The memory of the locals once the ops run in order: a word no op wrote *)
(* is "undef".                                                             *)
(***************************************************************************)
Exec(os) ==
  LET step(m, o) ==
        CASE o.ty = "memset" ->
               [m EXCEPT ![o.lcl] = [w \in DOMAIN @ |-> IF w < o.len THEN Zero ELSE @[w]]]
          [] o.ty = "store" /\ o.off \in DOMAIN m[o.lcl] ->
               [m EXCEPT ![o.lcl][o.off] = o.e]
          [] OTHER -> m
  IN SE!FoldLeft(step, [h \in DOMAIN body |-> [w \in Words(TypeOf(body[h])) |-> "undef"]], os)

\* The word w of an object C initialises with init: its expression, or zero.
CWord(init, w) == IF \E p \in CValue(init) : p[1] = w
                  THEN (CHOOSE p \in CValue(init) : p[1] = w)[2] ELSE Zero

TypeOK ==
  /\ j \in 1 .. MaxDecls + 1
  /\ \A n \in DOMAIN ops :
       ops[n].ty = "store" => ops[n].off \in Words(TypeOf(body[ops[n].lcl]))
  /\ ssa \in [1 .. MaxDecls -> Values \cup {"none", "undf"}]

(***************************************************************************)
(* spec.md 8, "Initializer coverage": once a local's declaration is built, *)
(* every byte of it holds the value C gives it (6.7.9p10, p21): the       *)
(* initialiser's expressions where they go and zero everywhere else, as   *)
(* the memset inserted before the stores of build_ir_for_init_list must    *)
(* guarantee; a local in SSA form has its initialiser's value.            *)
(***************************************************************************)
LocalValueAsC ==
  LET mem == Exec(ops)
  IN \A h \in 1 .. j - 1 :
       body[h] # NoInit =>
         IF HasLcl(body[h])
         THEN \A w \in Words(TypeOf(body[h])) : mem[h][w] = CWord(body[h], w)
         ELSE ssa[h] = body[h].e
=============================================================================
