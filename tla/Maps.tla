-------------------------------- MODULE Maps ---------------------------------
(* JavaScript's Map and object records, as the file syscalls use them.       *)
EXTENDS Functions

\* Map.set and Map.delete.
With(f, x, y) == [z \in DOMAIN f \cup {x} |-> IF z = x THEN y ELSE f[z]]
Without(f, x) == Restrict(f, DOMAIN f \ {x})
=============================================================================
