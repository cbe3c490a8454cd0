------------------------------ MODULE CommandLog ------------------------------
(***************************************************************************)
(* What the device promises its writers, without memory, indices or a      *)
(* lock: bytes collect in a line, a newline ends it and makes it the       *)
(* newest command, the last MaxOps commands are kept, and the bytes of one *)
(* write follow each other with no byte of another write among them.       *)
(***************************************************************************)
EXTENDS Integers, Sequences

CONSTANTS
  MaxOps,   \* how many commands are kept
  Tasks,    \* the callers
  NoTask,   \* no caller is writing
  Chars,    \* the bytes
  NL        \* the byte that ends a command

VARIABLES
  window,   \* the commands kept, oldest first
  pending,  \* the bytes since the last newline, whoever wrote them
  writer,   \* the caller whose write is under way
  left      \* the bytes of it that are still to come

vars == <<window, pending, writer, left>>

Init ==
  /\ window = <<>>
  /\ pending = <<>>
  /\ writer = NoTask
  /\ left = <<>>

Begin(t) ==
  /\ writer = NoTask
  /\ writer' = t
  /\ left' \in Seq(Chars)
  /\ UNCHANGED <<window, pending>>

\* The line joins the commands, and the oldest leaves when there are too many.
Commit(line) ==
  window' = IF Len(window) < MaxOps
            THEN Append(window, line)
            ELSE Append(Tail(window), line)

PutByte ==
  /\ left # <<>>
  /\ left' = Tail(left)
  /\ UNCHANGED writer
  /\ LET line == Append(pending, Head(left))
     IN  IF Head(left) = NL
         THEN Commit(line) /\ pending' = <<>>
         ELSE pending' = line /\ UNCHANGED window

\* A write ends when its bytes are stored, or early when memory runs out: what
\* it stored so far stays.
End ==
  /\ writer # NoTask
  /\ writer' = NoTask
  /\ left' = <<>>
  /\ UNCHANGED <<window, pending>>

\* The module is removed.
Forget ==
  /\ writer = NoTask
  /\ window' = <<>>
  /\ pending' = <<>>
  /\ UNCHANGED <<writer, left>>

Next ==
  \/ \E t \in Tasks : Begin(t)
  \/ PutByte
  \/ End
  \/ Forget

Spec == Init /\ [][Next]_vars
===============================================================================
