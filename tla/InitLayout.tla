----------------------------- MODULE InitLayout -----------------------------
(***************************************************************************)
(* The initialiser layout engine of build.c (spec.md 4.F): a braced        *)
(* initialiser list for an object of aggregate type is flattened into the *)
(* (offset, expression) records build_init_list_layout returns, and a     *)
(* global's initial value is built from them (build_ir_for_var_value).    *)
(*                                                                         *)
(* Types are int (scalar), structs of named fields and arrays; an          *)
(* expression is a model value.  Next to the code's layout stands C11      *)
(* 6.7.9's: where each initialiser of a list goes, with designators and    *)
(* the "next subobject" rule.                                              *)
(***************************************************************************)
EXTENDS Integers, Sequences, FiniteSets

\* td_var_ty, as far as a layout reads it.
IntTy == [k |-> "int"]
Field(name, ty) == [name |-> name, ty |-> ty]
StructTy(fs) == [k |-> "struct", fs |-> fs]
ArrayTy(el, n) == [k |-> "array", el |-> el, n |-> n]

\* td_var_ty_is_scalar_ty
IsScalar(ty) == ty.k = "int"

(***************************************************************************)
(* td_init: an expression, or a braced list (td_init_list, with its        *)
(* var_ty) of items, each with its designator list (td_designator_list,    *)
(* empty when there is none).                                             *)
(***************************************************************************)
Expr(v) == [k |-> "expr", e |-> v]
List(ty, items) == [k |-> "list", ty |-> ty, inits |-> items]
Item(des, init) == [des |-> des, init |-> init]
FieldDes(name) == [k |-> "field", name |-> name]
IndexDes(i) == [k |-> "index", index |-> i]

\* ir_var_ty_info: the size of a type and the offset of a struct's field
\* j (0-based); every type here is int-aligned, so there is no padding.
RECURSIVE SizeOf(_), FieldOffset(_, _)
SizeOf(ty) == CASE ty.k = "int"    -> 4
                [] ty.k = "array"  -> ty.n * SizeOf(ty.el)
                [] ty.k = "struct" -> FieldOffset(ty, Len(ty.fs))
FieldOffset(ty, j) == IF j = 0 THEN 0 ELSE FieldOffset(ty, j - 1) + SizeOf(ty.fs[j].ty)

-----------------------------------------------------------------------------
(***************************************************************************)
(* The code.  A member index past the last field reads fields[] out of    *)
(* bounds; its outcome is undefined, and the model gives the record the   *)
(* offset Garbage, which no subobject has.                                 *)
(***************************************************************************)
Garbage == -1

\* The BUG("bad type for init list") abort of a list for a scalar object.
BadType == <<[off |-> Garbage, e |-> "bad type"]>>

\* get_member_info: the index, offset and type of the field named name.
MemberInfo(ty, name) ==
  LET j == CHOOSE j \in 1 .. Len(ty.fs) : ty.fs[j].name = name
  IN [idx |-> j - 1, off |-> FieldOffset(ty, j - 1), mty |-> ty.fs[j].ty]

\* get_member_index_offset, and the array case of the layout loop: the
\* offset and type of member midx.
MemberIndexOffset(ty, midx) ==
  CASE ty.k = "array"      -> [off |-> SizeOf(ty.el) * midx, mty |-> ty.el]
    [] midx < Len(ty.fs)   -> [off |-> FieldOffset(ty, midx), mty |-> ty.fs[midx + 1].ty]
    [] OTHER               -> [off |-> Garbage, mty |-> IntTy]

\* Mutant: each designator's offset replaces the offset of the chain so far
\* instead of adding to it.
DesignatorOffsetNotSummed(ty, des) ==
  LET RECURSIVE Go(_, _, _)
      Go(k, cur, r) ==
        IF k > Len(des) THEN r
        ELSE IF des[k].k = "field"
             THEN LET m == MemberInfo(cur, des[k].name)
                  IN Go(k + 1, m.mty, [off |-> m.off, idx |-> m.idx, mty |-> m.mty])
             ELSE Go(k + 1, cur.el, [off |-> SizeOf(cur.el) * des[k].index,
                                     idx |-> des[k].index, mty |-> cur.el])
  IN Go(1, ty, [off |-> 0, idx |-> 0, mty |-> ty])

(***************************************************************************)
(* get_designator_offset: the offset a designator list names in an object *)
(* of type ty, the type there, and member_index as the last designator    *)
(* leaves it: its field's index in the struct it names a field of, or its *)
(* array index.                                                            *)
(***************************************************************************)
DesignatorOffset(ty, des) ==
  LET RECURSIVE Go(_, _, _)
      Go(k, cur, r) ==
        IF k > Len(des) THEN r
        ELSE IF des[k].k = "field"
             THEN LET m == MemberInfo(cur, des[k].name)
                  IN Go(k + 1, m.mty, [off |-> r.off + m.off, idx |-> m.idx, mty |-> m.mty])
             ELSE Go(k + 1, cur.el, [off |-> r.off + SizeOf(cur.el) * des[k].index,
                                     idx |-> des[k].index, mty |-> cur.el])
  IN Go(1, ty, [off |-> 0, idx |-> 0, mty |-> ty])

RECURSIVE LayoutEntry(_, _, _)

\* Mutant: a designator does not move the cursor; the next item without one
\* takes the member after the previous item's position in the list.
LayoutEntryKeepsCursor(l, ty, off) ==
  IF IsScalar(ty) THEN BadType ELSE
  LET RECURSIVE Go(_, _)
      Go(i, midx) ==
        IF i > Len(l.inits) THEN <<>>
        ELSE LET it == l.inits[i]
                 m == MemberIndexOffset(ty, midx)
                 d == IF it.des # <<>> THEN DesignatorOffset(l.ty, it.des)
                      ELSE [off |-> m.off, idx |-> midx, mty |-> m.mty]
                 at == IF d.off = Garbage THEN Garbage ELSE off + d.off
             IN (IF at = Garbage THEN <<[off |-> Garbage, e |-> "garbage"]>>
                 ELSE IF it.init.k = "expr" THEN <<[off |-> at, e |-> it.init.e]>>
                 ELSE LayoutEntry(it.init, d.mty, at)) \o Go(i + 1, midx + 1)
  IN Go(1, 0)

(***************************************************************************)
(* build_init_list_layout_entry: the records of list l for an object of   *)
(* type ty at offset off, in list order.  member_idx starts at 0; an item *)
(* with designators takes its offset from get_designator_offset (on the   *)
(* list's own type), one without from member member_idx; member_idx is    *)
(* then incremented.  A nested list recurses at the item's offset.        *)
(***************************************************************************)
LayoutEntry(l, ty, off) ==
  IF IsScalar(ty) THEN BadType ELSE
  LET RECURSIVE Go(_, _)
      Go(i, midx) ==
        IF i > Len(l.inits) THEN <<>>
        ELSE LET it == l.inits[i]
                 m == MemberIndexOffset(ty, midx)
                 d == IF it.des # <<>> THEN DesignatorOffset(l.ty, it.des)
                      ELSE [off |-> m.off, idx |-> midx, mty |-> m.mty]
                 at == IF d.off = Garbage THEN Garbage ELSE off + d.off
             IN (IF at = Garbage THEN <<[off |-> Garbage, e |-> "garbage"]>>
                 ELSE IF it.init.k = "expr" THEN <<[off |-> at, e |-> it.init.e]>>
                 ELSE LayoutEntry(it.init, d.mty, at)) \o Go(i + 1, d.idx + 1)
  IN Go(1, 0)

\* build_init_list_layout
Layout(l) == LayoutEntry(l, l.ty, 0)

(***************************************************************************)
(* build_ir_for_var_value: an expression's value, or the value list of a  *)
(* braced list's layout; as the set of (offset, expression) pairs, every  *)
(* other byte zero.                                                        *)
(***************************************************************************)
VarValue(init) ==
  IF init.k = "list"
  THEN LET r == Layout(init) IN {<<r[j].off, r[j].e>> : j \in DOMAIN r}
  ELSE {<<0, init.e>>}

-----------------------------------------------------------------------------
(***************************************************************************)
(* C11 6.7.9.  A subobject is a path of 1-based member positions.  A      *)
(* designation names a path; an item without one initialises the         *)
(* subobject after the previous item's (at that depth, or the next one up *)
(* when the enclosing aggregate is complete), the first member at first.  *)
(* CInit returns the (offset, expression) pairs and whether the list is   *)
(* one the model's inputs may be: no brace elision, no excess item.       *)
(***************************************************************************)
Members(ty) == IF ty.k = "array" THEN ty.n ELSE Len(ty.fs)

RECURSIVE TypeAt(_, _), OffsetAt(_, _)
TypeAt(ty, p) ==
  IF p = <<>> THEN ty
  ELSE TypeAt(IF ty.k = "array" THEN ty.el ELSE ty.fs[Head(p)].ty, Tail(p))
OffsetAt(ty, p) ==
  IF p = <<>> THEN 0
  ELSE IF ty.k = "array" THEN (Head(p) - 1) * SizeOf(ty.el) + OffsetAt(ty.el, Tail(p))
  ELSE FieldOffset(ty, Head(p) - 1) + OffsetAt(ty.fs[Head(p)].ty, Tail(p))

DesPath(ty, des) ==
  LET RECURSIVE Go(_, _)
      Go(k, cur) ==
        IF k > Len(des) THEN <<>>
        ELSE LET j == IF des[k].k = "index" THEN des[k].index + 1
                      ELSE CHOOSE j \in 1 .. Len(cur.fs) : cur.fs[j].name = des[k].name
             IN <<j>> \o Go(k + 1, TypeAt(cur, <<j>>))
  IN Go(1, ty)

\* The subobject after p: [has, p], has FALSE when p ends the object.
RECURSIVE NextAfter(_, _)
NextAfter(ty, p) ==
  LET up == SubSeq(p, 1, Len(p) - 1)
  IN IF p[Len(p)] < Members(TypeAt(ty, up)) THEN [has |-> TRUE, p |-> Append(up, p[Len(p)] + 1)]
     ELSE IF up = <<>> THEN [has |-> FALSE, p |-> <<>>]
     ELSE NextAfter(ty, up)

RECURSIVE CInit(_, _, _)
CInit(l, ty, base) ==
  LET RECURSIVE Go(_, _)
      Go(i, nx) ==
        IF i > Len(l.inits) THEN [ok |-> TRUE, asg |-> <<>>]
        ELSE LET it == l.inits[i]
                 t == IF it.des # <<>> THEN [has |-> TRUE, p |-> DesPath(ty, it.des)] ELSE nx
             IN IF ~t.has THEN [ok |-> FALSE, asg |-> <<>>]
                ELSE LET sty == TypeAt(ty, t.p)
                         o == base + OffsetAt(ty, t.p)
                         here == CASE it.init.k = "list" /\ ~IsScalar(sty) -> CInit(it.init, sty, o)
                                   [] it.init.k = "expr" /\ IsScalar(sty)  ->
                                        [ok |-> TRUE, asg |-> <<<<o, it.init.e>>>>]
                                   [] OTHER -> [ok |-> FALSE, asg |-> <<>>]
                         rest == Go(i + 1, NextAfter(ty, t.p))
                     IN [ok |-> here.ok /\ rest.ok, asg |-> here.asg \o rest.asg]
  IN Go(1, [has |-> Members(ty) > 0, p |-> <<1>>])

\* The value C gives an object initialised by init.
CValue(init) ==
  IF init.k = "list" /\ IsScalar(init.ty) THEN {<<0, init.inits[1].init.e>>}
  ELSE IF init.k = "list"
  THEN LET r == CInit(init, init.ty, 0).asg IN {r[j] : j \in DOMAIN r}
  ELSE {<<0, init.e>>}

\* A list the model's inputs may be: accepted as above, and initialising
\* each scalar at most once.
ValidInit(init) ==
  /\ init.k = "list" /\ IsScalar(init.ty) =>
       Len(init.inits) = 1 /\ init.inits[1].des = <<>> /\ init.inits[1].init.k = "expr"
  /\ init.k = "list" /\ ~IsScalar(init.ty) =>
    LET c == CInit(init, init.ty, 0)
    IN c.ok /\ Cardinality({c.asg[j][1] : j \in DOMAIN c.asg}) = Len(c.asg)
=============================================================================
