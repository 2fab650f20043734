------------------------------- MODULE Driver -------------------------------
(***************************************************************************)
(* The compiler driver of driver.c: jcc_main and jcc_driver_compiler.      *)
(* Each source is classified by its extension (or -x), then either routed *)
(* to the link step as it is or compiled into an output file chosen from  *)
(* -E / -S / -c / -o; when the target links, all objects are linked last. *)
(*                                                                         *)
(* Paths are abstracted to where an artifact goes: "input" (the source    *)
(* path itself), "asm" (the source path with extension .s), "out" (the    *)
(* -o path), "tmp" (an fs_tmpfile), "stdout".  The outcome of every call  *)
(* the driver cannot see into (argument parsing, reading the file,         *)
(* compiler_create, compile, the linker) is a nondeterministic choice.    *)
(***************************************************************************)
EXTENDS Integers, Sequences, FiniteSets

CONSTANTS
  Exts,         \* source file extensions; "" and "o" objects, "a", "i", "h", "c", others unknown
  Modes,        \* "E" (-E), "S" (-S), "c" (-c), "fsyntax" (-fsyntax-only and the like), "link"
  MaxSources,   \* source arguments on a command line
  BAD_FILE      \* the value of COMPILE_RESULT_BAD_FILE

VARIABLES
  srcs,      \* the source extensions, in command-line order
  lang,      \* args.language: "none", or "c" given with -x
  mode,      \* the output mode flag
  output,    \* compile_args.output ty: "none", "stdout" (-o -), "path" (-o path)
  linker,    \* target->link_objects != NULL
  pc,        \* "main", "loop", "link", "done", or an abort: "bug", "todo"
  i,         \* the source being processed
  objects,   \* objects[j]: the artifact passed to the linker for source j
  written,   \* written[j]: where source j was compiled to ("none" if it was not)
  linked,    \* the link step ran and succeeded
  exc        \* the exit code

vars == <<srcs, lang, mode, output, linker, pc, i, objects, written, linked, exc>>

Artifacts == {"input", "asm", "out", "tmp", "stdout"}

\* target_needs_linking
NeedsLinking == mode = "link" /\ linker

\* try_get_language_for_file, and the -x override of jcc_driver_compiler.
LanguageOf(ext) ==
  IF lang = "c" THEN "c"
  ELSE CASE ext \in {"", "o"} -> "object"
         [] ext = "a"         -> "sharedlib"
         [] ext = "i"         -> "cpp_output"
         [] ext = "h"         -> "c_header"
         [] ext = "c"         -> "c"
         [] OTHER             -> "unknown"

\* The compile_file a C source is compiled into.
OutputFile ==
  CASE mode = "E" /\ output = "none" -> "stdout"
    [] mode = "S"                    -> IF output = "none" THEN "asm"
                                        ELSE IF output = "stdout" THEN "stdout" ELSE "out"
    [] NeedsLinking \/ output = "none" -> "tmp"
    [] OTHER                         -> IF output = "stdout" THEN "stdout" ELSE "out"

\* The outcomes of try_get_compile_args: with no source it fails.
ArgsResults == IF srcs = <<>> THEN {"fail"} ELSE {"success", "help", "fail"}

Init ==
  /\ srcs \in UNION {[1 .. n -> Exts] : n \in 0 .. MaxSources}
  /\ lang \in {"none", "c"}
  /\ mode \in Modes
  /\ output \in {"none", "stdout", "path"}
  /\ linker \in BOOLEAN
  /\ pc = "main"
  /\ i = 1
  /\ objects = [j \in DOMAIN srcs |-> "unset"]
  /\ written = [j \in DOMAIN srcs |-> "none"]
  /\ linked = FALSE
  /\ exc = 0

(***************************************************************************)
(* jcc_main: parse the arguments (help exits 0, failure 1), resolve the    *)
(* target (1 when jcc was built without it), run the compiler driver,     *)
(* whose int exc starts at 1.                                              *)
(***************************************************************************)
Main ==
  /\ pc = "main"
  /\ \E r \in ArgsResults, supported \in BOOLEAN :
       CASE r = "help"  -> pc' = "done" /\ exc' = 0
         [] r = "fail"  -> pc' = "done" /\ exc' = 1
         [] ~supported  -> pc' = "done" /\ exc' = 1
         [] OTHER       -> pc' = "loop" /\ exc' = 1
  /\ UNCHANGED <<srcs, lang, mode, output, linker, i, objects, written, linked>>

Fail(code) == pc' = "done" /\ exc' = code /\ UNCHANGED <<i, objects, written>>

\* Mutant: only a -o or .s path is recorded for the linker, not a
\* temporary file.
CompileSourceNoTmp ==
  /\ pc = "loop" /\ i <= Len(srcs)
  /\ LET l == LanguageOf(srcs[i])
         file == OutputFile
     IN CASE l = "unknown" -> Fail(-1)
          [] l \in {"object", "sharedlib"} ->
               /\ objects' = [objects EXCEPT ![i] = "input"]
               /\ i' = i + 1
               /\ UNCHANGED <<pc, written, exc>>
          [] OTHER ->
               \/ Fail(BAD_FILE)
               \/ Fail(-1)
               \/ /\ objects' = IF file \in {"asm", "out"}
                                THEN [objects EXCEPT ![i] = file] ELSE objects
                  /\ written' = [written EXCEPT ![i] = file]
                  /\ i' = i + 1
                  /\ UNCHANGED <<pc, exc>>
  /\ UNCHANGED <<srcs, lang, mode, output, linker, linked>>

\* Mutant: an object input advances the index twice (continue past i++).
CompileSourceSkips ==
  /\ pc = "loop" /\ i <= Len(srcs)
  /\ LET l == LanguageOf(srcs[i])
         file == OutputFile
     IN CASE l = "unknown" -> Fail(-1)
          [] l \in {"object", "sharedlib"} ->
               /\ objects' = [objects EXCEPT ![i] = "input"]
               /\ i' = i + 2
               /\ UNCHANGED <<pc, written, exc>>
          [] OTHER ->
               \/ Fail(BAD_FILE)
               \/ Fail(-1)
               \/ /\ objects' = IF file \in {"asm", "out", "tmp"}
                                THEN [objects EXCEPT ![i] = file] ELSE objects
                  /\ written' = [written EXCEPT ![i] = file]
                  /\ i' = i + 1
                  /\ UNCHANGED <<pc, exc>>
  /\ UNCHANGED <<srcs, lang, mode, output, linker, linked>>

(***************************************************************************)
(* One iteration of the loop over sources: an unknown extension fails     *)
(* with -1; an object or archive is routed to the linker; anything else   *)
(* is read (BAD_FILE when it cannot be), its output file chosen and        *)
(* recorded for the linker when it is a path or a temporary file, the     *)
(* compiler created and run (-1 when either fails).                       *)
(***************************************************************************)
CompileSource ==
  /\ pc = "loop" /\ i <= Len(srcs)
  /\ LET l == LanguageOf(srcs[i])
         file == OutputFile
     IN CASE l = "unknown" -> Fail(-1)
          [] l \in {"object", "sharedlib"} ->
               /\ objects' = [objects EXCEPT ![i] = "input"]
               /\ i' = i + 1
               /\ UNCHANGED <<pc, written, exc>>
          [] OTHER ->
               \/ Fail(BAD_FILE)
               \/ Fail(-1)
               \/ /\ objects' = IF file \in {"asm", "out", "tmp"}
                                THEN [objects EXCEPT ![i] = file] ELSE objects
                  /\ written' = [written EXCEPT ![i] = file]
                  /\ i' = i + 1
                  /\ UNCHANGED <<pc, exc>>
  /\ UNCHANGED <<srcs, lang, mode, output, linker, linked>>

\* Mutant: the loop over sources stops before the last one (i < count
\* written as i < count - 1).
FinishSourcesEarly ==
  /\ pc = "loop" /\ i >= Len(srcs)
  /\ IF NeedsLinking
       THEN IF output = "stdout" THEN pc' = "bug" /\ UNCHANGED exc
            ELSE pc' = "link" /\ UNCHANGED exc
       ELSE IF Len(srcs) > 1 THEN pc' = "todo" /\ UNCHANGED exc
            ELSE pc' = "done" /\ exc' = 0
  /\ UNCHANGED <<srcs, lang, mode, output, linker, i, objects, written, linked>>

(***************************************************************************)
(* After the last source: when the target links, link to a.out or the -o  *)
(* path (BUG for -o -); otherwise more than one source reaches TODO.       *)
(***************************************************************************)
FinishSources ==
  /\ pc = "loop" /\ i > Len(srcs)
  /\ IF NeedsLinking
       THEN IF output = "stdout" THEN pc' = "bug" /\ UNCHANGED exc
            ELSE pc' = "link" /\ UNCHANGED exc
       ELSE IF Len(srcs) > 1 THEN pc' = "todo" /\ UNCHANGED exc
            ELSE pc' = "done" /\ exc' = 0
  /\ UNCHANGED <<srcs, lang, mode, output, linker, i, objects, written, linked>>

\* Mutant: a failed link falls through to exc = 0 (no goto exit).
LinkIgnoresFailure ==
  /\ pc = "link"
  /\ \E ok \in BOOLEAN : linked' = ok /\ exc' = 0
  /\ pc' = "done"
  /\ UNCHANGED <<srcs, lang, mode, output, linker, i, objects, written>>

\* target->link_objects over every source's object: -1 when it fails.
Link ==
  /\ pc = "link"
  /\ \E ok \in BOOLEAN : linked' = ok /\ exc' = IF ok THEN 0 ELSE -1
  /\ pc' = "done"
  /\ UNCHANGED <<srcs, lang, mode, output, linker, i, objects, written>>

\* The driver has returned, or aborted in BUG or TODO.
Stopped == pc \in {"done", "bug", "todo"} /\ UNCHANGED vars

Next == Main \/ CompileSource \/ FinishSources \/ Link \/ Stopped

Spec == Init /\ [][Next]_vars

-----------------------------------------------------------------------------
(***************************************************************************)
(* The refinement mapping to DriverSpec: the sources, those built (routed *)
(* to the linker as they are, or compiled into a file), whether the driver *)
(* still runs, returned, or aborted, and the exit code it returned.       *)
(***************************************************************************)
Built(j) == objects[j] = "input" \/ written[j] # "none"

Abs == INSTANCE DriverSpec
         WITH count <- Len(srcs),
              started <- pc # "main",
              built <- Cardinality({j \in DOMAIN srcs : Built(j)}),
              status <- CASE pc \in {"main", "loop", "link"} -> "running"
                          [] pc = "done"                    -> "done"
                          [] OTHER                          -> "aborted",
              code <- IF pc = "done" THEN exc ELSE 0

(***************************************************************************)
(* The driver implements DriverSpec's steps: it builds its sources in     *)
(* order, one per iteration, stops at the first failure with a nonzero    *)
(* code (the "goto exit" of every failing call in jcc_driver_compiler),   *)
(* returns 0 only once every source is built, and aborts only after the   *)
(* last one.                                                               *)
(***************************************************************************)
DriverImplementsSpec == Abs!Spec

-----------------------------------------------------------------------------
TypeOK ==
  /\ pc \in {"main", "loop", "link", "done", "bug", "todo"}
  /\ i \in 1 .. Len(srcs) + 1
  /\ objects \in [DOMAIN srcs -> Artifacts \cup {"unset"}]
  /\ written \in [DOMAIN srcs -> Artifacts \cup {"none"}]
  /\ exc \in {0, 1, -1, BAD_FILE}

(***************************************************************************)
(* The linker is never handed an uninitialised slot of objects (the array *)
(* is malloc'd, not zeroed) nor stdout: every source routed by extension   *)
(* or compiled into a file has recorded a linkable artifact.               *)
(***************************************************************************)
LinkInputsDefined ==
  pc = "link" => \A j \in DOMAIN srcs : objects[j] \in {"input", "out", "tmp"}

(***************************************************************************)
(* jcc_driver_compiler returns 0 only when every source went through: each *)
(* C source was compiled and, when the target links, the link succeeded.  *)
(***************************************************************************)
SuccessMeansAllBuilt ==
  pc = "done" /\ exc = 0 /\ i > 1 =>
    /\ i = Len(srcs) + 1
    /\ \A j \in DOMAIN srcs :
         LanguageOf(srcs[j]) \notin {"object", "sharedlib"} => written[j] # "none"
    /\ NeedsLinking => linked

(***************************************************************************)
(* spec.md 4.H: "-c -> object file": a successful -c run leaves the       *)
(* object of each C source it compiled where the user can find it (the -o *)
(* path, stdout for -o -, or a path of its own), never only in a          *)
(* temporary file nothing links.                                           *)
(***************************************************************************)
ObjectFilePerSource ==
  pc = "done" /\ exc = 0 /\ mode = "c" =>
    \A j \in DOMAIN srcs : written[j] # "tmp"
====
