--------------------------- MODULE MCGuestMemory ----------------------------
(* Four pages in two tables: page 3 holds the first code.                   *)
EXTENDS GuestMemory

Mmap(how, virt, n, prot, backing) == [how |-> how, virt |-> virt, n |-> n, prot |-> prot, backing |-> backing]

\* Intervals that stay within one table or start at the beginning of one.
MCAligned == {<<0, 1>>, <<0, 2>>, <<3, 1>>}
MCMmaps == {Mmap("fixed", 0, 2, {"w"}, "anon"), Mmap("fixed", 3, 1, {"r", "x"}, "anon"),
            Mmap("hint", 0, 1, {"r", "x"}, "file"), Mmap("noreplace", 1, 1, {"r", "w"}, "shared"),
            Mmap("any", 0, 1, {"r", "w"}, "anon")}
MCProts == {{"r", "w"}, {"w", "x"}}
=============================================================================
