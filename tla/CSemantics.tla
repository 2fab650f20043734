----------------------------- MODULE CSemantics -----------------------------
(***************************************************************************)
(* The typed-AST input of the IR builder (spec.md 6, "Typed AST           *)
(* boundary") restricted to what shapes control flow, the set of function *)
(* bodies the builder is checked on, and two observations of a function:  *)
(*                                                                         *)
(*  - RefObs(body): what C11 (with the defer extension of spec.md 4.E)     *)
(*    says running the body may do, as the sequence of expression atoms    *)
(*    evaluated and how the run ends;                                      *)
(*  - CFGObs(g): the same observation read off a built IR function by      *)
(*    walking its blocks from the entry block.                             *)
(*                                                                         *)
(* Branch conditions and switch values are abstracted: every branch may    *)
(* be taken.  Observations are cut after K atoms: <<t, "cut">> says a run  *)
(* evaluates the atoms t and then at least one more.                       *)
(***************************************************************************)
EXTENDS IRExpr

CONSTANTS
  StmtKinds,    \* statement kinds the bodies may use ("retval": return e;)
  ExprShapes,   \* expression shapes (atoms numbered 0) for every expression slot
  ForForms,     \* subset of BOOLEAN \X BOOLEAN \X BOOLEAN: which of init, cond, iter a for has
  MaxSize,      \* statement nodes in a body, the body's own compound excluded
  MaxCmpd,      \* statements in one compound
  K,            \* atoms observed before a run is cut
  Labels        \* goto label names, numbered from 1

(***************************************************************************)
(* A statement is a record [k, ex, sub, v]: its kind (td_stmt ty, with the *)
(* select/iter/jump/labeled kinds flattened), its expressions, its         *)
(* sub-statements and, for case labels, the case value.                    *)
(*   "expr" <<e>>   "null"   "defer" sub <<s>>   "ret" <<>> or <<e>>       *)
(*   "break" "continue"   "cmpd" sub = statements                          *)
(*   "if" <<c>> <<s>>   "ifelse" <<c>> <<s1, s2>>   "switch" <<c>> <<s>>   *)
(*   "while" <<c>> <<s>>   "dowhile" <<c>> <<s>>                           *)
(*   "for" <<init, cond, iter>> (NoExpr when absent) <<s>>                 *)
(*   "case" v <<s>>   "default" <<s>>                                       *)
(*   "goto" v (the label's name)   "label" v <<s>>                         *)
(*   "decl" v = 0: automatic variables with their initialisers (NoExpr     *)
(*          for none); v = 1: static or typedef, ex = <<>>                 *)
(***************************************************************************)
S(k, ex, sub, v) == [k |-> k, ex |-> ex, sub |-> sub, v |-> v]

Leaf(k) == S(k, <<>>, <<>>, 0)

IsLabel(s) == s.k \in {"case", "default"}

\* The default labels of a chain of labelled statements.
RECURSIVE Defaults(_)
Defaults(s) == IF IsLabel(s) THEN (IF s.k = "default" THEN 1 ELSE 0)
                                  + Defaults(s.sub[1])
               ELSE 0

(***************************************************************************)
(* The bodies are generated well formed, as the type checker hands them   *)
(* to the builder: break only inside a loop or switch (context c >= 1),   *)
(* continue only inside a loop (c = 2), case and default labels only      *)
(* directly in a switch body (lab), at most one default per switch.  And, *)
(* in this model, a defer stands directly in a compound statement other   *)
(* than a switch body (jumping past a defer into its scope is a          *)
(* constraint violation) and defers an expression statement.              *)
(*                                                                         *)
(* Tab(Table(n), i, c, lab) is the set of statements of i nodes (atoms not yet *)
(* numbered) in context c, labels allowed when lab; a defer and its       *)
(* expression statement count as one node.                                 *)
(***************************************************************************)
DeferItems == IF "defer" \in StmtKinds
              THEN {S("defer", <<>>, <<S("expr", <<e>>, <<>>, 0)>>, 0) : e \in ExprShapes}
              ELSE {}

\* The statements of set ss when kind x is one the bodies may use.
Only(x, ss) == IF x \in StmtKinds THEN ss ELSE {}

Tab(T, i, c, lab) == T[i][c + 1][IF lab THEN 2 ELSE 1]

\* Lists of l statements or fewer from table T, of m nodes in all.
RECURSIVE ListsOf(_, _, _, _, _)
ListsOf(T, m, l, c, inSwitch) ==
  IF m = 0 THEN {<<>>}
  ELSE IF l = 0 THEN {}
  ELSE {y : y \in UNION {{<<x>> \o r : x \in Tab(T, i, c, inSwitch)
                                        \cup IF i = 1 /\ ~inSwitch
                                             THEN DeferItems ELSE {},
                                    r \in ListsOf(T, m - i, l - 1, c, inSwitch)}
                      : i \in 1 .. m}}

RECURSIVE Table(_)
Table(n) ==
  IF n = 0 THEN <<>>
  ELSE LET T == Table(n - 1)
           forEx == IF "for" \notin StmtKinds THEN {} ELSE UNION {{<<a, b, d>> : a \in IF f[1] THEN ExprShapes ELSE {NoExpr},
                                          b \in IF f[2] THEN ExprShapes ELSE {NoExpr},
                                          d \in IF f[3] THEN ExprShapes ELSE {NoExpr}}
                           : f \in ForForms}
           Level(c, lab) ==
             IF n = 1
             THEN Only("expr", {S("expr", <<e>>, <<>>, 0) : e \in ExprShapes})
                  \cup Only("decl", {S("decl", <<e>>, <<>>, 0) : e \in ExprShapes \cup {NoExpr}}
                                    \cup {S("decl", <<>>, <<>>, 1)})
                  \cup Only("ret", {Leaf("ret")})
                  \cup Only("retval", {S("ret", <<e>>, <<>>, 0) : e \in ExprShapes})
                  \cup Only("null", {Leaf("null")})
                  \cup Only("break", IF c >= 1 THEN {Leaf("break")} ELSE {})
                  \cup Only("continue", IF c = 2 THEN {Leaf("continue")} ELSE {})
                  \cup Only("goto", {S("goto", <<>>, <<>>, l) : l \in Labels})
             ELSE LET inner(c2) == Tab(T, n - 1, c2, FALSE)
                  IN Only("if", {S("if", <<e>>, <<x>>, 0) : e \in ExprShapes, x \in inner(c)})
                     \cup Only("while", {S("while", <<e>>, <<x>>, 0)
                                         : e \in ExprShapes, x \in inner(2)})
                     \cup Only("dowhile", {S("dowhile", <<e>>, <<x>>, 0)
                                           : e \in ExprShapes, x \in inner(2)})
                     \cup Only("for", {S("for", fx, <<x>>, 0) : fx \in forEx, x \in inner(2)})
                     \cup Only("ifelse", UNION {{S("ifelse", <<e>>, <<x, y>>, 0)
                                   : e \in ExprShapes, x \in Tab(T, i, c, FALSE),
                                     y \in Tab(T, n - 1 - i, c, FALSE)} : i \in 1 .. n - 2})
                     \cup {S("cmpd", <<>>, l, 0) : l \in ListsOf(T, n - 1, MaxCmpd, c, FALSE)}
                     \cup Only("switch", {S("switch", <<e>>, <<S("cmpd", <<>>, l, 0)>>, 0)
                           : e \in ExprShapes,
                             l \in {l \in ListsOf(T, n - 2, MaxCmpd, IF c = 2 THEN 2 ELSE 1, TRUE)
                                    : \A i, j \in DOMAIN l :
                                         Defaults(l[i]) + Defaults(l[j])
                                           <= IF i = j THEN 2 ELSE 1}})
                     \cup Only("label", {S("label", <<>>, <<x>>, l)
                                        : l \in Labels, x \in inner(c)})
                     \cup (IF lab THEN {S(x, <<>>, <<y>>, 0)
                                       : x \in {"case", "default"} \cap StmtKinds,
                                         y \in Tab(T, n - 1, c, TRUE)}
                                  ELSE {})
       IN LET L(c, lab) == {x : x \in Level(c, lab)}
          IN Append(T, <<<<L(0, FALSE), L(0, TRUE)>>, <<L(1, FALSE), L(1, TRUE)>>,
                         <<L(2, FALSE), L(2, TRUE)>>>>)

\* Number the atoms (and case values) of a statement in source order.
RECURSIVE NumE(_, _), NumEs(_, _), NumS(_, _), NumSs(_, _)
NumE(e, n) ==
  IF e.k = "none" THEN [x |-> e, n |-> n]
  ELSE IF e.k = "atom" THEN [x |-> Atom(n), n |-> n + 1]
  ELSE LET r == NumEs(e.sub, n) IN [x |-> [e EXCEPT !.sub = r.x], n |-> r.n]
NumEs(es, n) ==
  IF es = <<>> THEN [x |-> <<>>, n |-> n]
  ELSE LET h == NumE(Head(es), n)  t == NumEs(Tail(es), h.n)
       IN [x |-> <<h.x>> \o t.x, n |-> t.n]
NumS(s, n) ==
  LET v == IF s.k = "case" THEN n ELSE s.v
      es == NumEs(s.ex, IF s.k = "case" THEN n + 1 ELSE n)
      ss == NumSs(s.sub, es.n)
  IN [x |-> S(s.k, es.x, ss.x, v), n |-> ss.n]
NumSs(ss, n) ==
  IF ss = <<>> THEN [x |-> <<>>, n |-> n]
  ELSE LET h == NumS(Head(ss), n)  t == NumSs(Tail(ss), h.n)
       IN [x |-> <<h.x>> \o t.x, n |-> t.n]

\* The function bodies the builder is checked on.
\* The statements of a body, and the names of its labels and gotos.
RECURSIVE Stmts(_)
Stmts(s) == {s} \cup UNION {Stmts(s.sub[i]) : i \in DOMAIN s.sub}

\* The expressions of a body and their subexpressions.
RECURSIVE SubExprs(_)
SubExprs(e) == {e} \cup UNION {SubExprs(e.sub[i]) : i \in DOMAIN e.sub}
Exprs(b) == UNION {UNION {SubExprs(s.ex[i]) : i \in DOMAIN s.ex} : s \in Stmts(b)}

\* The builtins a body calls.
CalledBuiltins(b) == {e.k : e \in Exprs(b)} \cap Declared

\* Every goto names a label of the function, no label is defined twice, and
\* no label follows a defer of its compound statement (a goto from before
\* the defer would jump into its scope).
LabelsOK(b) ==
  LET ls == {x \in Stmts(b) : x.k = "label"}
  IN /\ \A x, y \in ls : x.v = y.v => x = y
     /\ \A x \in Stmts(b) : x.k = "goto" => \E y \in ls : y.v = x.v
     /\ \A c \in {x \in Stmts(b) : x.k = "cmpd"} :
          \A i, j \in DOMAIN c.sub :
             i < j /\ c.sub[i].k = "defer" => \A y \in ls : y \notin Stmts(c.sub[j])

Programs ==
  LET T == Table(MaxSize)
  IN {NumS(b, 1).x : b \in {b \in {S("cmpd", <<>>, l, 0)
                          : l \in UNION {ListsOf(T, m, MaxCmpd, 0, FALSE) : m \in 1 .. MaxSize}}
                        : LabelsOK(b)}}

-----------------------------------------------------------------------------
(***************************************************************************)
(* Reference semantics.  A result [t, o, l] is the atoms a run evaluates   *)
(* and how it ends: "normal", "break", "continue", "return", "goto" (to    *)
(* label l), or "cut" when it would evaluate more than K atoms (t then     *)
(* holds the first K).                                                     *)
(***************************************************************************)
R(t, o) == [t |-> t, o |-> o, l |-> 0]

Skip == R(<<>>, "normal")

\* Run t, then a run ending as r.
CatR(t, r) == IF Len(t) + Len(r.t) > K THEN R(SubSeq(t \o r.t, 1, K), "cut")
                                     ELSE [r EXCEPT !.t = t \o @]

\* Runs of rs, each continued by one of ss when it completes normally.
SeqR(rs, ss) == UNION {IF r.o = "normal" THEN {CatR(r.t, x) : x \in ss} ELSE {r}
                       : r \in rs}

RECURSIVE ExprSem(_)
ExprSem(e) ==
  CASE e.k = "atom"          -> {R(<<e.id>>, "normal")}
    [] e.k \in {"and", "or"} -> SeqR(ExprSem(e.sub[1]), {Skip} \cup ExprSem(e.sub[2]))
    [] e.k = "tern"          -> SeqR(ExprSem(e.sub[1]),
                                     ExprSem(e.sub[2]) \cup ExprSem(e.sub[3]))
    [] e.k = "tern2"         -> SeqR(ExprSem(e.sub[1]), {Skip} \cup ExprSem(e.sub[2]))
    \* the comma operator, and a call of a builtin or intrinsic, whose
    \* arguments jcc evaluates left to right (build.c:1779)
    [] e.k \in {"comma"} \cup Dispatched \cup Intrinsics
                             -> LET RECURSIVE Go(_)
                                    Go(i) == IF i > Len(e.sub) THEN {Skip}
                                             ELSE SeqR(ExprSem(e.sub[i]), Go(i + 1))
                                IN Go(1)
    [] e.k = "none"          -> {Skip}

\* The registered deferred expressions ds, newest first.
RECURSIVE RunDefers(_)
RunDefers(ds) == IF ds = <<>> THEN {Skip}
                 ELSE SeqR(ExprSem(ds[Len(ds)]), RunDefers(SubSeq(ds, 1, Len(ds) - 1)))

\* An abrupt run r leaves a scope: the scope's defers run, r's ending stays.
Leave(r, ds) == IF r.o = "cut" THEN {r}
                ELSE {CatR(r.t, IF x.o = "cut" THEN x ELSE [r EXCEPT !.t = x.t])
                      : x \in RunDefers(ds)}

\* The labels of a chain of labelled statements: case values (numbered from
\* 1), and DefaultKey for default.
DefaultKey == 0

RECURSIVE Keys(_)
Keys(s) == CASE s.k = "case"    -> {s.v} \cup Keys(s.sub[1])
             [] s.k = "default" -> {DefaultKey} \cup Keys(s.sub[1])
             [] OTHER           -> {}

\* The goto labels defined in statement s.
LabelsIn(s) == {x.v : x \in {x \in Stmts(s) : x.k = "label"}}

\* The ending of a run that leaves the loop or switch it ran in.
Abrupt(r) == r.o \in {"cut", "return", "goto"}

RECURSIVE Sem(_), SemList(_, _, _), SemEnter(_, _), LoopFrom(_, _, _, _, _, _, _),
          Enter(_, _)

(***************************************************************************)
(* The rest of a loop iteration once the body has ended with a result in  *)
(* B: a break leaves the loop normally; a normal or continue end goes on   *)
(* to post (with a way out when postExit), and then to the loop head.     *)
(* Returns the results leaving the loop and the traces at the next head.  *)
(***************************************************************************)
LoopRestOf(B, C, postExit) ==
  LET Cn == {c \in C : c.o = "normal"}
  IN [res |-> {b \in B : Abrupt(b)}
              \cup {R(b.t, "normal") : b \in {b \in B : b.o = "break"}}
              \cup {c \in C : c.o = "cut"} \cup (IF postExit THEN Cn ELSE {}),
      heads |-> {c.t : c \in Cn}]

LoopRest(B, post, postExit) ==
  LoopRestOf(B, UNION {{CatR(b.t, c) : c \in ExprSem(post)}
                       : b \in {b \in B : b.o \in {"normal", "continue"}}},
             postExit)

\* One iteration from a head trace h: pre (with a way out when preExit),
\* the body, and LoopRest.
LoopStepOf(A, preExit, rest) ==
  [res |-> {a \in A : a.o = "cut"}
           \cup (IF preExit THEN {a \in A : a.o = "normal"} ELSE {}) \cup rest.res,
   heads |-> rest.heads]

LoopStepAfterPre(A, preExit, body, post, postExit) ==
  LoopStepOf(A, preExit,
             LoopRest(UNION {{CatR(a.t, b) : b \in Sem(body)}
                             : a \in {a \in A : a.o = "normal"}},
                      post, postExit))

LoopStep(h, pre, preExit, body, post, postExit) ==
  LoopStepAfterPre({CatR(h, c) : c \in ExprSem(pre)}, preExit, body, post, postExit)

\* All results of a loop that is at its head with a trace in heads, having
\* left already with the results res.
LoopFrom(heads, res, pre, preExit, body, post, postExit) ==
  LET RECURSIVE Fix(_, _, _), FixStep(_, _, _)
      Fix(frontier, seen, rs) ==
        IF frontier = {} THEN rs
        ELSE FixStep({LoopStep(h, pre, preExit, body, post, postExit) : h \in frontier},
                     seen, rs)
      FixStep(st, seen, rs) ==
        LET new == UNION {x.heads : x \in st} \ seen
        IN Fix(new, seen \cup new, rs \cup UNION {x.res : x \in st})
  IN Fix(heads, heads, res)

LoopSem(pre, preExit, body, post, postExit) ==
  LoopFrom({<<>>}, {}, pre, preExit, body, post, postExit)

\* Statements ss from index i on, in a scope whose defers so far are ds.
SemList(ss, i, ds) ==
  IF i > Len(ss) THEN RunDefers(ds)
  ELSE IF ss[i].k = "defer" THEN SemList(ss, i + 1, Append(ds, ss[i].sub[1].ex[1]))
  ELSE UNION {IF r.o = "normal" THEN {CatR(r.t, x) : x \in SemList(ss, i + 1, ds)}
                                ELSE Leave(r, ds)
              : r \in Sem(ss[i])}

\* Entering a chain of labelled statements at label key.
SemEnter(s, key) ==
  IF (s.k = "case" /\ s.v = key) \/ (s.k = "default" /\ key = DefaultKey)
  THEN Sem(s.sub[1]) ELSE SemEnter(s.sub[1], key)

\* The loop and switch statements with their parts, for Sem and Enter.
LoopParts(s) ==
  CASE s.k = "while"   -> <<s.ex[1], TRUE, NoExpr, FALSE>>
    [] s.k = "dowhile" -> <<NoExpr, FALSE, s.ex[1], TRUE>>
    [] s.k = "for"     -> <<s.ex[2], s.ex[2] # NoExpr, s.ex[3], FALSE>>

BreakOut(rs) == {IF r.o = "break" THEN R(r.t, "normal") ELSE r : r \in rs}

Sem(s) ==
  CASE s.k = "expr"     -> ExprSem(s.ex[1])
    [] s.k = "decl"     -> LET RECURSIVE Go(_)
                               Go(i) == IF i > Len(s.ex) THEN {Skip}
                                        ELSE SeqR(ExprSem(s.ex[i]), Go(i + 1))
                           IN Go(1)
    [] s.k = "null"     -> {Skip}
    [] s.k = "ret"      -> SeqR(ExprSem(IF s.ex = <<>> THEN NoExpr ELSE s.ex[1]),
                                {R(<<>>, "return")})
    [] s.k = "break"    -> {R(<<>>, "break")}
    [] s.k = "continue" -> {R(<<>>, "continue")}
    [] s.k = "goto"     -> {[R(<<>>, "goto") EXCEPT !.l = s.v]}
    [] s.k = "cmpd"     -> SemList(s.sub, 1, <<>>)
    [] s.k = "if"       -> SeqR(ExprSem(s.ex[1]), Sem(s.sub[1]) \cup {Skip})
    [] s.k = "ifelse"   -> SeqR(ExprSem(s.ex[1]), Sem(s.sub[1]) \cup Sem(s.sub[2]))
    [] s.k \in {"while", "dowhile", "for"} ->
         LET p == LoopParts(s)
             loop == LoopSem(p[1], p[2], s.sub[1], p[3], p[4])
         IN SeqR(IF s.k = "for" THEN ExprSem(s.ex[1]) ELSE {Skip}, loop)
    [] s.k \in {"case", "default", "label"} -> Sem(s.sub[1])
    [] s.k = "switch"   ->
         LET ss == s.sub[1].sub
             keys == UNION {Keys(ss[i]) : i \in DOMAIN ss}
             enter(key) == LET i == CHOOSE i \in DOMAIN ss : key \in Keys(ss[i])
                           IN SeqR(SemEnter(ss[i], key), SemList(ss, i + 1, <<>>))
             body == UNION {enter(key) : key \in keys}
                     \cup IF DefaultKey \in keys THEN {} ELSE {Skip}
         IN SeqR(ExprSem(s.ex[1]), BreakOut(body))

\* Loop s, at its head with the traces and results of rest.
LoopFromRest(rest, s) ==
  LET p == LoopParts(s)
  IN LoopFrom(rest.heads, rest.res, p[1], p[2], s.sub[1], p[3], p[4])

(***************************************************************************)
(* Entering statement s at the goto label l it defines: the statement the *)
(* label marks runs, and control goes on from there as it would from that  *)
(* point of s.  Labels are not placed after a defer of their compound, so  *)
(* no defer of an enclosing compound is registered on entry.               *)
(***************************************************************************)
Enter(s, l) ==
  CASE s.k = "label" /\ s.v = l -> Sem(s.sub[1])
    [] s.k \in {"label", "case", "default", "if"} -> Enter(s.sub[1], l)
    [] s.k = "ifelse" -> Enter(s.sub[IF l \in LabelsIn(s.sub[1]) THEN 1 ELSE 2], l)
    [] s.k = "cmpd" ->
         LET i == CHOOSE i \in DOMAIN s.sub : l \in LabelsIn(s.sub[i])
         IN SeqR(Enter(s.sub[i], l), SemList(s.sub, i + 1, <<>>))
    [] s.k = "switch" -> BreakOut(Enter(s.sub[1], l))
    [] s.k \in {"while", "dowhile", "for"} ->
         LoopFromRest(LoopRest(Enter(s.sub[1], l), LoopParts(s)[3], LoopParts(s)[4]), s)

(***************************************************************************)
(* How running the function body may end, as seen by its caller.  A goto  *)
(* that leaves every statement it is in continues by entering the body at *)
(* its label, until no new such run is found.                              *)
(***************************************************************************)
RefObs(body) ==
  LET RECURSIVE Fix(_, _, _), FixStep(_, _, _)
      Fix(frontier, seen, rs) ==
        IF frontier = {} THEN rs
        ELSE FixStep(UNION {{CatR(r.t, x) : x \in Enter(body, r.l)} : r \in frontier},
                     seen, rs)
      FixStep(new, seen, rs) ==
        LET gotos == {r \in new : r.o = "goto"} \ seen
        IN Fix(gotos, seen \cup gotos, rs \cup {r \in new : r.o # "goto"})
  IN {<<r.t, IF r.o = "cut" THEN "cut" ELSE "ret">> : r \in FixStep(Sem(body), {}, {})}

(***************************************************************************)
(* The same observation of a built function: walk the edges from the      *)
(* entry block collecting the atoms of "ev" ops; a RET block ends a run,   *)
(* a block with no terminator recorded is "stuck".                         *)
(***************************************************************************)
Evs(h, b) == LET es == SelectSeq(h.ops[b], LAMBDA o : o.ty = "ev")
             IN [i \in DOMAIN es |-> es[i].ev]

CFGObs(h) ==
  LET step(c) == LET r == CatR(c[2], R(Evs(h, c[1]), "normal")) IN
                   IF r.o = "cut" THEN [obs |-> {<<r.t, "cut">>}, next |-> {}]
                   ELSE IF h.kind[c[1]] = "ret"
                     THEN [obs |-> {<<r.t, "ret">>}, next |-> {}]
                   ELSE IF h.kind[c[1]] = "none"
                     THEN [obs |-> {<<r.t, "stuck">>}, next |-> {}]
                   ELSE [obs |-> {}, next |-> {<<s, r.t>> : s \in SuccSet(h, c[1])}]
      RECURSIVE Walk(_, _, _)
      Walk(frontier, seen, obs) ==
        IF frontier = {} THEN obs
        ELSE LET st == {step(c) : c \in frontier}
                 new == UNION {x.next : x \in st} \ seen
             IN Walk(new, seen \cup new, obs \cup UNION {x.obs : x \in st})
      start == {<<EntryBB(h), <<>>>>}
  IN Walk(start, start, {})
=============================================================================
