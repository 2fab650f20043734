------------------------------ MODULE Builtins ------------------------------
(***************************************************************************)
(* The builtin table of builtins.h: one builtin_fn_spec per builtin.      *)
(*                                                                         *)
(* A builtin_type_spec is a record [ty, td]: its builtin_type_spec_ty and, *)
(* for TD_VAR_TY specs, the td_var_ty it points to (the TD_VAR_TY_*        *)
(* constants of typechk: "void", a well-known integer type, or one of the  *)
(* pointer types).  Every other spec has td = "none".                     *)
(***************************************************************************)
EXTENDS Integers, Sequences

\* enum builtin_type_spec_ty, in declaration order: ANY is 0, so a
\* zero-initialised builtin_type_spec is an ANY spec.
BuiltinTypeSpecTys == <<"any", "size_t", "builtin", "va_list", "td_var_ty">>

\* BUILTIN_TYPE_SPEC_TD_VAR_TY / _VA_LIST / _ANY / _SIZE_T
SpecTd(td) == [ty |-> "td_var_ty", td |-> td]
SpecVaList == [ty |-> "va_list", td |-> "none"]
SpecAny == [ty |-> BuiltinTypeSpecTys[1], td |-> "none"]
SpecSizeT == [ty |-> "size_t", td |-> "none"]

\* The length of builtin_fn_spec.params.
MaxParams == 16

\* NO_ARGS: the initialiser {0}, one zero (ANY) spec.
NoArgs == <<SpecAny>>

(***************************************************************************)
(* BUILTIN_FN(name, ret, n, ARR_LIT({p1, ...})) as the initialiser of a    *)
(* struct builtin_fn_spec: params[0 .. Len(ps) - 1] are the listed specs,  *)
(* the rest of the 16 are zero-initialised.                                *)
(***************************************************************************)
FnSpec(ret, n, ps) ==
  [ret |-> ret, num_params |-> n,
   params |-> [i \in 0 .. MaxParams - 1 |-> IF i < Len(ps) THEN ps[i + 1] ELSE SpecAny]]

\* BUILTIN_TY(va_list)
BuiltinTypes == {"va_list"}

\* BUILTINS_LIST: the functions, keyed by name.
BuiltinsList ==
  LET V == SpecTd("void")
      Un(t) == FnSpec(V, 1, <<SpecTd(t)>>)
      Mem(ret, src) == FnSpec(SpecTd(ret), 3, <<SpecTd(src[1]), SpecTd(src[2]), SpecSizeT>>)
  IN [va_start |-> FnSpec(V, 1, <<SpecVaList>>),
      va_arg |-> FnSpec(V, 1, <<SpecVaList>>),
      va_copy |-> FnSpec(V, 2, <<SpecVaList, SpecVaList>>),
      va_end |-> FnSpec(V, 1, <<SpecVaList>>),
      popcount |-> Un("int"), popcountl |-> Un("long"), popcountll |-> Un("long long"),
      clz |-> Un("int"), clzl |-> Un("long"), clzll |-> Un("long long"),
      ctz |-> Un("int"), ctzl |-> Un("long"), ctzll |-> Un("long long"),
      bswap16 |-> FnSpec(SpecTd("short"), 1, <<SpecTd("short")>>),
      bswap32 |-> FnSpec(SpecTd("int"), 1, <<SpecTd("int")>>),
      bswap64 |-> FnSpec(SpecTd("long long"), 1, <<SpecTd("long long")>>),
      unreachable |-> FnSpec(V, 0, NoArgs),
      memset |-> FnSpec(SpecTd("void*"), 3, <<SpecTd("void*"), SpecTd("int"), SpecSizeT>>),
      memcpy |-> Mem("void*", <<"void*", "const void*">>),
      memmove |-> Mem("void*", <<"void*", "const void*">>),
      memcmp |-> Mem("int", <<"const void*", "const void*">>),
      error |-> FnSpec(V, 1, <<SpecTd("const char*")>>)]

\* BUILTIN_FN redefined to declare builtin_<name> for each entry: the
\* builtins the type checker knows.
Declared == DOMAIN BuiltinsList

=============================================================================
