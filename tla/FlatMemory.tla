----------------------------- MODULE FlatMemory -----------------------------
(***************************************************************************)
(* What the guest may rely on: its address space is a flat array of pages, *)
(* each unmapped or holding a value and a protection.  A page that is      *)
(* mapped has a known initial value, a store changes one page, and a load  *)
(* yields what the page holds.  GuestMemory implements this with page      *)
(* tables, a translation buffer, lazily allocated frames and a free list.  *)
(***************************************************************************)
EXTENDS Integers, FiniteSetsExt

CONSTANTS
    Pages,      \* page numbers of the guest's address space
    Vals,       \* what a page can hold; 0 is the page of zeroes
    Prots       \* protections

VARIABLES
    mem,        \* mem[p]: Unmapped, or [val, prot]
    out         \* the last access and what it saw: a value or Denied; or Nothing

fvars == <<mem, out>>

Unmapped == [val |-> 0, prot |-> {"none"}]
Nothing == [page |-> -1, val |-> 0]
Denied == -1

Mapped(p) == mem[p] # Unmapped
Permits(p, need) == Mapped(p) /\ need \subseteq mem[p].prot

FlatInit ==
    /\ mem \in [Pages -> {Unmapped} \cup [val : Vals, prot : Prots]]
    /\ out = Nothing

\* A load looks at the read bit, an instruction fetch at the execute bit.
Seen(p, bit) == [page |-> p, val |-> IF Permits(p, {bit}) THEN mem[p].val ELSE Denied]

\* A call that fails or has nothing to do, an access that reads, a store that is denied
\* or stores what was there.
Quiet ==
    \/ out' = Nothing
    \/ \E p \in Pages : out' = Seen(p, "r") \/ out' = Seen(p, "x")
    \/ \E p \in Pages : ~Permits(p, {"r", "w"}) /\ out' = [page |-> p, val |-> Denied]

\* A store changes one value; a system call needs the read bit only.
Store(p) ==
    /\ Permits(p, {"r"})
    /\ mem'[p].val \in Vals /\ mem'[p].prot = mem[p].prot
    /\ out' = Nothing

\* mmap and a growing brk: one value and one protection, whatever was there.
Map(S) ==
    /\ \A p \in S : Mapped(p)' /\ mem'[p] = mem'[Min(S)]
    /\ out' = Nothing

\* munmap and a shrinking brk.
Unmap(S) == (\A p \in S : ~Mapped(p)') /\ out' = Nothing

\* mprotect: all of the interval was mapped, and no value changes.
Protect(S) ==
    /\ \A p \in S : Mapped(p) /\ mem'[p] = [mem[p] EXCEPT !.prot = mem'[Min(S)].prot]
    /\ out' = Nothing

Changed == {p \in Pages : mem'[p] # mem[p]}

FlatNext ==
    \E D \in {Changed} :
       \/ D = {} /\ Quiet
       \/ \E p \in D : D = {p} /\ Store(p)
       \/ \E first, last \in Pages :
             LET S == first .. last IN
             D # {} /\ D \subseteq S /\ (Map(S) \/ Unmap(S) \/ Protect(S))

FlatSpec == FlatInit /\ [][FlatNext]_fvars
=============================================================================
