------------------------------- MODULE WatchSet -------------------------------
(***************************************************************************)
(* What the watchpoints are to the user of the debugger: a finite set of   *)
(* numbers, each with an expression and the value last seen.  A command    *)
(* adds one or deletes one, and executing an instruction changes nothing   *)
(* but the values.                                                         *)
(***************************************************************************)
CONSTANTS
  Number,    \* names of watchpoints
  What       \* the expressions they may show

VARIABLE watch   \* from the numbers in use to [expr, val]

Init == DOMAIN watch = {}

Add(n) ==
  /\ n \notin DOMAIN watch
  /\ DOMAIN watch' = DOMAIN watch \cup {n}
  /\ watch'[n].expr \in What
  /\ \A m \in DOMAIN watch : watch'[m] = watch[m]

Delete(n) ==
  /\ n \in DOMAIN watch
  /\ watch' = [m \in DOMAIN watch \ {n} |-> watch[m]]

Execute ==
  /\ DOMAIN watch' = DOMAIN watch
  /\ \A m \in DOMAIN watch : watch'[m].expr = watch[m].expr

Next == Execute \/ \E n \in Number : Add(n) \/ Delete(n)

Spec == Init /\ [][Next]_watch
=============================================================================
