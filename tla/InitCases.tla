----------------------------- MODULE InitCases -----------------------------
(***************************************************************************)
(* The types and initialisers the models of global and local              *)
(* initialisation are checked on:                                          *)
(*                                                                         *)
(*   struct A { int x; int y; };                                           *)
(*   struct T { struct A a; int b; int c[2]; };                             *)
(*   struct S { int p; int q; int r; };                                    *)
(*   struct U { struct S s; int t; };                                      *)
(***************************************************************************)
EXTENDS InitLayout

A == StructTy(<<Field("x", IntTy), Field("y", IntTy)>>)
C2 == ArrayTy(IntTy, 2)
T == StructTy(<<Field("a", A), Field("b", IntTy), Field("c", C2)>>)
S == StructTy(<<Field("p", IntTy), Field("q", IntTy), Field("r", IntTy)>>)
U == StructTy(<<Field("s", S), Field("t", IntTy)>>)

E(v) == Item(<<>>, Expr(v))
D(des, init) == Item(des, init)

\* int x = v1;
ScalarInits == {Expr("v1")}

(***************************************************************************)
(* Lists C lays out member by member, or with designators whose next      *)
(* positional item starts a new member of T:                               *)
(*   {}                                                                    *)
(*   {{v1, v2}, v3}                                                        *)
(*   {.c = {[1] = v1}, .a = {.y = v2}}                                     *)
(*   {.b = v1, {v2, v3}}                                                   *)
(*   {.c[1] = v1, .a.y = v2}                                               *)
(***************************************************************************)
MemberInits ==
  { List(T, <<>>),
    List(T, <<Item(<<>>, List(A, <<E("v1"), E("v2")>>)), E("v3")>>),
    List(T, <<D(<<FieldDes("c")>>, List(C2, <<D(<<IndexDes(1)>>, Expr("v1"))>>)),
              D(<<FieldDes("a")>>, List(A, <<D(<<FieldDes("y")>>, Expr("v2"))>>))>>),
    List(T, <<D(<<FieldDes("b")>>, Expr("v1")), Item(<<>>, List(C2, <<E("v2"), E("v3")>>))>>),
    List(T, <<D(<<FieldDes("c"), IndexDes(1)>>, Expr("v1")),
              D(<<FieldDes("a"), FieldDes("y")>>, Expr("v2"))>>) }

(***************************************************************************)
(* Lists where a chain of designators is followed by an item without one, *)
(* which C puts in the subobject after the designated one, inside a or c: *)
(*   {.a.x = v1, v2}       v2 initialises a.y                              *)
(*   {.c[0] = v1, v2}      v2 initialises c[1]                             *)
(*   {.s.q = v1, v2}       (of a struct U) v2 initialises s.r              *)
(***************************************************************************)
ChainInits ==
  { List(T, <<D(<<FieldDes("a"), FieldDes("x")>>, Expr("v1")), E("v2")>>),
    List(T, <<D(<<FieldDes("c"), IndexDes(0)>>, Expr("v1")), E("v2")>>),
    List(U, <<D(<<FieldDes("s"), FieldDes("q")>>, Expr("v1")), E("v2")>>) }

\* int x = {v1};
ScalarListInits == {List(IntTy, <<E("v1")>>)}

PassInits == ScalarInits \cup MemberInits
AllInits == PassInits \cup ChainInits \cup ScalarListInits

\* Every list is one C accepts as written, without brace elision.
ASSUME \A init \in AllInits : ValidInit(init)
=============================================================================
