----------------------------- MODULE WholeWrites -----------------------------
(***************************************************************************)
(* A device that takes each write in one step: all of its bytes, or those  *)
(* before the one for which memory ran out.                                *)
(***************************************************************************)
EXTENDS Device

CONSTANT Writes    \* the buffers that may be written

VARIABLE dev

Init == dev = EmptyDevice

Write(bytes) == \E k \in 0 .. Len(bytes) : dev' = PutBytes(dev, bytes)[k]

\* The module is removed.
Unload == dev' = EmptyDevice

Next == Unload \/ \E bytes \in Writes : Write(bytes)

Spec == Init /\ [][Next]_dev
===============================================================================
