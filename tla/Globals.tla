------------------------------ MODULE Globals ------------------------------
(***************************************************************************)
(* The file-scope part of build_ir_for_translationunit: its external      *)
(* declarations in order, each declarator through build_ir_for_global_var *)
(* (build.c), a function definition's symbol marked defined once its body *)
(* is built, and the final pass that turns tentative definitions into     *)
(* zero-initialised ones.                                                  *)
(*                                                                         *)
(* A global (struct ir_glb) is kept as its definition state, linkage,      *)
(* kind, initial value and weak flag; names and symbol mangling are left   *)
(* out.  A value is built from its initialiser as InitLayout lays it out.  *)
(*  The body of a function definition is built by the      *)
(* statement builder (IRBuild) and is not repeated here.                   *)
(***************************************************************************)
EXTENDS InitLayout

CONSTANTS
  ObjNames,      \* identifiers of file-scope objects
  FuncNames,     \* identifiers of functions
  TypedefNames,  \* identifiers declared with typedef
  Values,        \* the expressions an initialiser is made of
  Inits,         \* the initialisers a declarator may have (td_init)
  MaxDecls       \* external declarations in a translation unit

VARIABLES
  unit,   \* the external declarations of the translation unit
  i,      \* the index of the next one (the loop of build_ir_for_translationunit)
  glbs,   \* the global of each name, through global_var_refs
  done    \* the tentative-definition pass has run

vars == <<unit, i, glbs, done>>

Names == ObjNames \cup FuncNames \cup TypedefNames

\* A declarator without an initialiser.
NoInit == [k |-> "none"]

(***************************************************************************)
(* glb->var: no value yet, a zero value (build_ir_for_zero_var), or the   *)
(* value build_ir_for_var_value builds from an initialiser; a value is the *)
(* set of (offset, expression) pairs it stores, every other byte zero.     *)
(***************************************************************************)
NoVar == [set |-> FALSE, val |-> {}]
ZeroVar == [set |-> TRUE, val |-> {}]
ValueVar(init) == [set |-> TRUE, val |-> VarValue(init)]

(***************************************************************************)
(* A declarator of an external declaration: its name, storage class       *)
(* (td_storage_class_specifier), whether it declares a function, its      *)
(* initialiser, the inline specifier and the weak attribute.               *)
(***************************************************************************)
Decl(n, sc, init, weak) == [name |-> n, sc |-> sc, func |-> n \in FuncNames,
                            init |-> init, inline |-> FALSE, weak |-> weak]

\* The global of a name no declaration has reached yet.
NoGlb == [def |-> "absent", link |-> "none", ty |-> "data", var |-> NoVar,
          weak |-> FALSE, body |-> FALSE]

-----------------------------------------------------------------------------
(***************************************************************************)
(* build_ir_for_global_var for a declarator d at file scope (key.scope is *)
(* SCOPE_GLOBAL, so is_file_scope holds), given the global old its name   *)
(* already has (NoGlb when var_refs_get finds no ref).                    *)
(***************************************************************************)
\* Mutant: a declaration without an initialiser never keeps an earlier
\* definition.
DefTyForgetsDefined(d, old) ==
  IF d.init # NoInit THEN "defined"
  ELSE IF ~d.func /\ d.sc \in {"none", "static"} THEN "tentative"
  ELSE "undefined"

\* The linkage the declarator's own specifiers give it.
DeclLinkage(d) ==
  LET isStatic == d.sc = "static"
  IN IF (d.func /\ ~isStatic /\ ~d.inline) \/ d.sc = "extern"
          \/ (~d.inline /\ ~isStatic)
     THEN "external"
     ELSE IF isStatic THEN "internal" ELSE "none"

\* Mutant: the linkage of an extern declaration is never taken from an
\* earlier static one.
LinkageNoInherit(d, old) == DeclLinkage(d)

\* extern but prev was static, stays static
Linkage(d, old) ==
  IF old.def # "absent" /\ DeclLinkage(d) = "external" /\ old.link = "internal"
  THEN "internal" ELSE DeclLinkage(d)

\* def_ty: defined with an initialiser or once the global is defined;
\* otherwise a file-scope object without extern is a tentative definition.
DefTy(d, old) ==
  IF d.init # NoInit \/ old.def = "defined" THEN "defined"
  ELSE IF ~d.func /\ d.sc \in {"none", "static"} THEN "tentative"
  ELSE "undefined"

(***************************************************************************)
(* The ref is created with its global (ir_add_global) on first sight;      *)
(* then the weak flag, definition state and linkage are set; a tentative  *)
(* definition or a function returns there, any other declaration sets the *)
(* global's value: the initialiser's, or zero.                            *)
(***************************************************************************)
GlobalVar(gs, d) ==
  LET old == gs[d.name]
      def == DefTy(d, old)
      g0 == IF old.def = "absent"
            THEN [NoGlb EXCEPT !.ty = IF d.func THEN "func" ELSE "data"]
            ELSE old
      g1 == [g0 EXCEPT !.weak = @ \/ d.weak, !.def = def, !.link = Linkage(d, old)]
  IN [gs EXCEPT ![d.name] =
        IF def = "tentative" \/ d.func THEN g1
        ELSE [g1 EXCEPT !.var = IF d.init # NoInit THEN ValueVar(d.init) ELSE ZeroVar]]

-----------------------------------------------------------------------------
(***************************************************************************)
(* The translation units: sequences of external declarations the type     *)
(* checker accepts.  An object has at most one initialiser and a function *)
(* at most one definition (C11 6.9); a name declared static is declared   *)
(* static first and, if an object, never again without a storage class    *)
(* (otherwise it would have internal and external linkage, 6.2.2p7).      *)
(***************************************************************************)
ObjForms == {[ty |-> "decl", d |-> Decl(n, sc, v, FALSE)]
               : n \in ObjNames, sc \in {"none", "extern", "static"},
                 v \in Inits \cup {NoInit}}
            \cup {[ty |-> "decl", d |-> Decl(n, "none", NoInit, TRUE)] : n \in ObjNames}
FuncForms == {[ty |-> "decl", d |-> Decl(n, sc, NoInit, FALSE)]
                : n \in FuncNames, sc \in {"none", "extern", "static"}}
             \cup {[ty |-> "funcdef", d |-> Decl(n, sc, NoInit, FALSE)]
                : n \in FuncNames, sc \in {"none", "static"}}
TypedefForms == {[ty |-> "decl", d |-> Decl(n, "typedef", NoInit, FALSE)] : n \in TypedefNames}

Forms == ObjForms \cup FuncForms \cup TypedefForms

\* The indices of u that declare n.
Of(u, n) == {j \in DOMAIN u : u[j].d.name = n}

WellFormed(u) ==
  \A n \in Names :
    /\ Cardinality({j \in Of(u, n) : u[j].d.init # NoInit \/ u[j].ty = "funcdef"}) <= 1
    /\ \A j \in Of(u, n) :
         u[j].d.sc = "static" =>
           /\ \A h \in Of(u, n) : h <= j \/ u[h].d.sc # "none" \/ n \in FuncNames
           /\ \A h \in Of(u, n) : h < j => u[h].d.sc = "static"

Units == {u \in UNION {[1 .. m -> Forms] : m \in 1 .. MaxDecls} : WellFormed(u)}

-----------------------------------------------------------------------------
Init ==
  /\ unit \in Units
  /\ i = 1
  /\ glbs = [n \in Names |-> NoGlb]
  /\ done = FALSE

(* TD_EXTERNAL_DECLARATION_TY_DECLARATION: build_ir_for_global_declaration *)
(* skips typedefs and builds every other declarator.                       *)
GlobalDeclaration ==
  /\ i <= Len(unit) /\ unit[i].ty = "decl"
  /\ glbs' = IF unit[i].d.sc = "typedef" THEN glbs ELSE GlobalVar(glbs, unit[i].d)
  /\ i' = i + 1
  /\ UNCHANGED <<unit, done>>

(* TD_EXTERNAL_DECLARATION_TY_FUNC_DEF: the function's symbol, then its    *)
(* body (build_ir_for_function), then the symbol is defined and given the *)
(* function.                                                               *)
FuncDef ==
  /\ i <= Len(unit) /\ unit[i].ty = "funcdef"
  /\ LET n == unit[i].d.name
     IN glbs' = [GlobalVar(glbs, unit[i].d) EXCEPT ![n].def = "defined", ![n].body = TRUE]
  /\ i' = i + 1
  /\ UNCHANGED <<unit, done>>

(* After the loop: every tentative definition becomes a definition with a *)
(* zero value.                                                             *)
FinishUnit ==
  /\ i > Len(unit) /\ ~done
  /\ glbs' = [n \in Names |-> IF glbs[n].def = "tentative"
                              THEN [glbs[n] EXCEPT !.def = "defined", !.var = ZeroVar]
                              ELSE glbs[n]]
  /\ done' = TRUE
  /\ UNCHANGED <<unit, i>>

\* The unit is translated.
Done == done /\ UNCHANGED vars

Next == GlobalDeclaration \/ FuncDef \/ FinishUnit \/ Done

Spec == Init /\ [][Next]_vars

-----------------------------------------------------------------------------
(***************************************************************************)
(* What C11 says of the declarations of one name in a unit.               *)
(***************************************************************************)
\* 6.2.2: the first declaration fixes the linkage; static gives internal,
\* extern and no storage class (for an object at file scope) external.
CLinkage(u, n) == IF u[CHOOSE j \in Of(u, n) : \A h \in Of(u, n) : j <= h].d.sc = "static"
                  THEN "internal" ELSE "external"

\* 6.9.2: an object is defined with its initialiser's value if it has one,
\* else with zero if it has a tentative definition, else only referenced.
CObject(u, n) ==
  LET inits == {u[j].d.init : j \in {j \in Of(u, n) : u[j].d.init # NoInit}}
      tentative == \E j \in Of(u, n) : u[j].d.sc \in {"none", "static"}
  IN IF inits # {} THEN [def |-> "defined", var |-> [set |-> TRUE, val |-> CValue(CHOOSE v \in inits : TRUE)]]
     ELSE IF tentative THEN [def |-> "defined", var |-> ZeroVar]
     ELSE [def |-> "undefined", var |-> NoVar]

Declared(n) == Of(unit, n) # {}

\* The size of the object an initialiser initialises.
SizeOfInit(init) == IF init.k = "list" THEN SizeOf(init.ty) ELSE SizeOf(IntTy)

TypeOK ==
  /\ i \in 1 .. MaxDecls + 1 /\ done \in BOOLEAN
  /\ \A n \in Names : /\ glbs[n].def \in {"absent", "undefined", "tentative", "defined"}
                      /\ glbs[n].link \in {"external", "internal", "none"}
                      /\ glbs[n].var.set \in BOOLEAN
                      /\ \E init \in Inits :
                           glbs[n].var.val \subseteq (0 .. SizeOfInit(init) - 1) \X Values

(***************************************************************************)
(* Every declared object and function ends with the linkage C gives it:   *)
(* the one of its first declaration, which a later extern declaration of  *)
(* a static name inherits (the "stays static" branch of                    *)
(* build_ir_for_global_var).                                               *)
(***************************************************************************)
LinkageAsC ==
  done => \A n \in (ObjNames \cup FuncNames) : Declared(n) => glbs[n].link = CLinkage(unit, n)

(***************************************************************************)
(* A function's symbol ends defined, with a body, exactly when the unit    *)
(* defines it, whatever declarations come before or after the definition. *)
(***************************************************************************)
FunctionDefinedAsC ==
  done => \A f \in FuncNames :
            Declared(f) =>
              /\ (glbs[f].def = "defined") = (\E j \in Of(unit, f) : unit[j].ty = "funcdef")
              /\ glbs[f].body = (glbs[f].def = "defined")

(***************************************************************************)
(* A declaration with an initialiser gives its object the value C gives   *)
(* it (6.7.9): each expression of a braced list at the offset of the      *)
(* subobject it initialises, where a designator moves the current         *)
(* position and an item without one takes the subobject after the        *)
(* previous item's, and zero elsewhere.  This is build_init_list_layout   *)
(* and its member cursor, through build_ir_for_var_value.                  *)
(***************************************************************************)
InitialiserAsC ==
  [][i <= Len(unit) /\ unit[i].d.init # NoInit /\ unit[i].d.sc # "typedef" =>
       glbs'[unit[i].d.name].var.val = CValue(unit[i].d.init)]_vars

(***************************************************************************)
(* Every declared object ends defined with the value C gives it, or only  *)
(* referenced (undefined, its value unused) when no declaration defines   *)
(* it, whatever order its declarations come in.                            *)
(***************************************************************************)
ObjectDefinitionAsC ==
  done => \A x \in ObjNames :
            Declared(x) => /\ glbs[x].def = CObject(unit, x).def
                           /\ glbs[x].def = "defined" => glbs[x].var = CObject(unit, x).var
=============================================================================
