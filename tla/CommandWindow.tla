---------------------------- MODULE CommandWindow ----------------------------
(***************************************************************************)
(* What the circular buffer promises, without an array or an index: it     *)
(* keeps the last MaxOps commands in the order they were added, and hands  *)
(* back the one it drops.                                                  *)
(***************************************************************************)
EXTENDS Integers, Sequences

CONSTANTS
  MaxOps,    \* how many commands are kept
  Commands,  \* what can be added
  Nothing    \* handed back while nothing is dropped

VARIABLES
  window,    \* the commands kept, oldest first
  dropped    \* what the last Push handed back

vars == <<window, dropped>>

\* The window w of at most n commands after c is added to it.
Pushed(w, c, n) == IF Len(w) < n THEN Append(w, c) ELSE Append(Tail(w), c)

Init ==
  /\ window = <<>>
  /\ dropped = Nothing

Push(c) ==
  /\ window' = Pushed(window, c, MaxOps)
  /\ dropped' = IF Len(window) < MaxOps THEN Nothing ELSE Head(window).buffptr

Next == \E c \in Commands : Push(c)

Spec == Init /\ [][Next]_vars
=============================================================================
