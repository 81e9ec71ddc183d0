----------------------------- MODULE ConsoleLog -----------------------------
(***************************************************************************)
(* What the console promises to somebody who watches it: the lines of one  *)
(* run of the log, without a gap, in order, none twice, and never older    *)
(* ones after newer ones.  The log begins anew, at line 1, with every run. *)
(***************************************************************************)
EXTENDS Integers, Sequences

CONSTANT Runs   \* 0..n, in their order

VARIABLES
  run,      \* the log's present run
  written,  \* run -> number of lines written in it
  view      \* [run, lines]: what is on the watcher's screen

logVars == <<run, written, view>>

Lines(from, to) == [i \in 1..(to - from + 1) |-> from + i - 1]

Init ==
  /\ run = 0
  /\ written = [r \in Runs |-> 0]
  /\ view = [run |-> 0, lines |-> <<>>]

Write ==
  /\ written' = [written EXCEPT ![run] = @ + 1]
  /\ UNCHANGED <<run, view>>

BeginRun ==
  /\ run' \in Runs /\ run' > run
  /\ UNCHANGED <<written, view>>

\* The screen moves on, to a stretch of a run that ends no earlier.
Last(v) == IF v.lines = <<>> THEN 0 ELSE v.lines[Len(v.lines)]
Show ==
  /\ \E r \in Runs : \E to \in 0..written[r] : \E from \in 1..(to + 1) :
       /\ view' = [run |-> r, lines |-> Lines(from, to)]
       /\ r >= view.run /\ (r = view.run => to >= Last(view))
  /\ UNCHANGED <<run, written>>

Next == Write \/ BeginRun \/ Show

Spec == Init /\ [][Next]_logVars
=============================================================================
