----------------------------- MODULE DriverSpec -----------------------------
(***************************************************************************)
(* What the driver promises (spec.md 4.H and 5), with no files, modes or  *)
(* linker in it: once its arguments are accepted, the sources on the      *)
(* command line are built one at a time, in order; the first failure ends *)
(* the run with a nonzero exit code (fail-fast); exit 0 comes only after  *)
(* every source was built, or for --help before anything started.  The    *)
(* two aborts the code marks itself (BUG for linking to stdout, TODO for  *)
(* several outputs) come only after the last source.                      *)
(***************************************************************************)
EXTENDS Integers

CONSTANT MaxSources

VARIABLES
  count,    \* the sources on the command line
  started,  \* the arguments were accepted and the sources are being built
  built,    \* how many of them, from the first, were built
  status,   \* "running", "done" (returned with code) or "aborted"
  code      \* the exit code once done

vars == <<count, started, built, status, code>>

Init ==
  /\ count \in 0 .. MaxSources
  /\ started = FALSE
  /\ built = 0
  /\ status = "running"
  /\ code = 0

\* The arguments are accepted.
Start ==
  /\ status = "running" /\ ~started
  /\ started' = TRUE
  /\ UNCHANGED <<count, built, status, code>>

\* --help: exit 0 before anything is built.
Help ==
  /\ status = "running" /\ ~started
  /\ started' = TRUE /\ status' = "done" /\ code' = 0
  /\ UNCHANGED <<count, built>>

\* The next source is built.
Build ==
  /\ status = "running" /\ started /\ built < count
  /\ built' = built + 1
  /\ UNCHANGED <<count, started, status, code>>

\* A failure ends the run with a nonzero code.
Fail ==
  /\ status = "running"
  /\ started' = TRUE /\ status' = "done" /\ code' # 0
  /\ UNCHANGED <<count, built>>

\* Success, once every source is built.
Succeed ==
  /\ status = "running" /\ started /\ built = count
  /\ status' = "done" /\ code' = 0
  /\ UNCHANGED <<count, started, built>>

\* An abort the code marks, after the last source.
Abort ==
  /\ status = "running" /\ started /\ built = count
  /\ status' = "aborted"
  /\ UNCHANGED <<count, started, built, code>>

Next == Start \/ Help \/ Build \/ Fail \/ Succeed \/ Abort

Spec == Init /\ [][Next]_vars
=============================================================================
