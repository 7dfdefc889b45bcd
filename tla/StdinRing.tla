----------------------------- MODULE StdinRing ------------------------------
(***************************************************************************)
(* The terminal input: the page writes bytes into a ring in shared memory  *)
(* (writeStdin), the guest of PID 1, the only process that is given the    *)
(* ring, reads them (term_read).  Words 0, 1 and 2 of the ring are the     *)
(* write position, the read position and the count of unread bytes; the    *)
(* page adds to the count atomically, the reader loads it and stores one   *)
(* less.                                                                   *)
(*                                                                         *)
(* Data abstraction: the k-th byte ever typed is the number k.             *)
(***************************************************************************)
EXTENDS Integers, Sequences

CONSTANTS
    Size,       \* slots of the ring (4096)
    MaxTyped,   \* bound: bytes typed
    Lens,       \* lengths a guest asks for
    MaxWait     \* waits of one second that a read makes (30)

ASSUME SizeAssumption == Size \in Nat \ {0}
ASSUME InputAssumption == MaxTyped \in Nat /\ MaxWait \in Nat

VARIABLES
    wpos, rpos, count,  \* control words 0, 1 and 2
    slots,              \* the data bytes
    ppc, more,          \* writeStdin: program point, bytes left of this call
    tpc, len, taken,      \* term_read: program point, bytes asked for, bytes read so far
    waited, old,        \* term_read: waits made; the count it loaded to store one less
    consumed,           \* history: the bytes read
    overrun,            \* history: a byte was written over one not read yet
    lost                \* history: additions to the count that a store took back

page == <<wpos, ppc, more>>
termRead == <<tpc, len, taken, waited, old, consumed>>
stdin == <<page, termRead, rpos, count, slots, overrun, lost>>

StdinTypeOK ==
    /\ wpos \in Nat /\ rpos \in Nat /\ count \in Nat
    /\ slots \in [0 .. Size - 1 -> Nat]
    /\ ppc \in {"idle", "store", "advance", "count", "notify"}
    /\ more \in Nat /\ (ppc \in {"store", "advance", "count"} => more > 0)
    /\ tpc \in {"idle", "check", "enter", "asleep", "loop", "copy", "load", "store"}
    /\ len \in Lens \cup {0} /\ taken \in Nat /\ waited \in 0 .. MaxWait /\ old \in Nat
    /\ consumed \in Seq(Nat) /\ overrun \in BOOLEAN /\ lost \in Nat

StdinInit ==
    /\ wpos = 0 /\ rpos = 0 /\ count = 0 /\ slots = [i \in 0 .. Size - 1 |-> 0]
    /\ ppc = "idle" /\ more = 0
    /\ tpc = "idle" /\ len = 0 /\ taken = 0 /\ waited = 0 /\ old = 0
    /\ consumed = <<>> /\ overrun = FALSE /\ lost = 0

-----------------------------------------------------------------------------
(* writeStdin.  Only the page stores the write position, so that loading it *)
(* is one step with the store of the byte.  It never looks at rpos.         *)

\* A call with n bytes.
Type(n) ==
    /\ ppc = "idle" /\ wpos + n <= MaxTyped
    /\ ppc' = "store" /\ more' = n
    /\ UNCHANGED <<wpos, rpos, count, slots, termRead, overrun, lost>>

StoreByte ==
    /\ ppc = "store" /\ ppc' = "advance"
    /\ slots' = [slots EXCEPT ![wpos % Size] = wpos + 1]
    /\ overrun' = (overrun \/ wpos - rpos >= Size)
    /\ UNCHANGED <<wpos, more, rpos, count, termRead, lost>>

AdvanceWrite ==
    /\ ppc = "advance" /\ ppc' = "count"
    /\ wpos' = wpos + 1
    /\ UNCHANGED <<more, rpos, count, slots, termRead, overrun, lost>>

AddCount ==
    /\ ppc = "count"
    /\ count' = count + 1 /\ more' = more - 1
    /\ ppc' = IF more = 1 THEN "notify" ELSE "store"
    /\ UNCHANGED <<wpos, rpos, slots, termRead, overrun, lost>>

(* Mutant: the page notifies a word nobody waits on. *)
NotifyOther ==
    /\ ppc = "notify" /\ ppc' = "idle"
    /\ UNCHANGED <<wpos, more, rpos, count, slots, termRead, overrun, lost>>

(* After the last byte of a call only; a reader that sleeps goes on. *)
WakeReader ==
    /\ ppc = "notify" /\ ppc' = "idle"
    /\ IF tpc = "asleep" THEN tpc' = "check" /\ waited' = waited + 1
                         ELSE UNCHANGED <<tpc, waited>>
    /\ UNCHANGED <<wpos, more, rpos, count, slots, len, taken, old, consumed, overrun, lost>>

PageStep == StoreByte \/ AdvanceWrite \/ AddCount \/ WakeReader

-----------------------------------------------------------------------------
(* term_read.                                                              *)

BeginTermRead(n) ==
    /\ tpc = "idle" /\ tpc' = "check"
    /\ len' = n /\ taken' = 0 /\ waited' = 0
    /\ UNCHANGED <<page, rpos, count, slots, old, consumed, overrun, lost>>

(* Bytes are there, or MaxWait waits were in vain and the read returns 0. *)
Check ==
    /\ tpc = "check"
    /\ tpc' = IF count # 0 THEN "loop" ELSE IF waited < MaxWait THEN "enter" ELSE "idle"
    /\ UNCHANGED <<page, rpos, count, slots, len, taken, waited, old, consumed, overrun, lost>>

(* Mutant: the reader sleeps without comparing the count again. *)
EnterAnyway ==
    /\ tpc = "enter" /\ tpc' = "asleep" /\ waited' = waited
    /\ UNCHANGED <<page, rpos, count, slots, len, taken, old, consumed, overrun, lost>>

(* Atomics.wait(count, 0): asleep while it is 0, "not-equal" otherwise. *)
Enter ==
    /\ tpc = "enter"
    /\ IF count = 0 THEN tpc' = "asleep" /\ waited' = waited
                    ELSE tpc' = "check" /\ waited' = waited + 1
    /\ UNCHANGED <<page, rpos, count, slots, len, taken, old, consumed, overrun, lost>>

WaitOver ==
    /\ tpc = "asleep" /\ tpc' = "check" /\ waited' = waited + 1
    /\ UNCHANGED <<page, rpos, count, slots, len, taken, old, consumed, overrun, lost>>

(* Mutant: the first byte is copied without looking at the count again, as  *)
(* long as bytes are asked for.                                             *)
LoopUnchecked ==
    /\ tpc = "loop"
    /\ tpc' = IF taken < len THEN "copy" ELSE "idle"
    /\ UNCHANGED <<page, rpos, count, slots, len, taken, waited, old, consumed, overrun, lost>>

Loop ==
    /\ tpc = "loop"
    /\ tpc' = IF taken < len /\ count # 0 THEN "copy" ELSE "idle"
    /\ UNCHANGED <<page, rpos, count, slots, len, taken, waited, old, consumed, overrun, lost>>

(* The byte and the read position, which only the reader stores. *)
CopyByte ==
    /\ tpc = "copy" /\ tpc' = "load"
    /\ consumed' = Append(consumed, slots[rpos % Size])
    /\ rpos' = rpos + 1
    /\ UNCHANGED <<page, count, slots, len, taken, waited, old, overrun, lost>>

(* flag[2] = flag[2] - 1 is a load and a store. *)
LoadCount ==
    /\ tpc = "load" /\ tpc' = "store"
    /\ old' = count
    /\ UNCHANGED <<page, rpos, count, slots, len, taken, waited, consumed, overrun, lost>>

StoreCount ==
    /\ tpc = "store" /\ tpc' = "loop"
    /\ count' = old - 1 /\ lost' = lost + (count - old)
    /\ taken' = taken + 1
    /\ UNCHANGED <<page, rpos, slots, len, waited, old, consumed, overrun>>

ReadStep == Check \/ Enter \/ Loop \/ CopyByte \/ LoadCount \/ StoreCount

StdinNext ==
    \/ \E n \in 1 .. MaxTyped : Type(n)
    \/ PageStep
    \/ \E n \in Lens : BeginTermRead(n)
    \/ ReadStep
    \/ WaitOver

StdinSpec == StdinInit /\ [][StdinNext]_stdin

(* The page's call ends, the reader's thread runs, and the guest, a shell,  *)
(* reads once something was typed and reads on.  The timer of the wait is   *)
(* not assumed to fire.                                                     *)
StdinFairness ==
    /\ WF_stdin(PageStep) /\ WF_stdin(ReadStep)
    /\ WF_stdin(wpos > 0 /\ \E n \in Lens : BeginTermRead(n))

-----------------------------------------------------------------------------
(* What the count says: the bytes between the positions are those it counts, *)
(* the one the page is about to add and the additions that were lost, up to  *)
(* the byte the reader is about to take off.                                 *)
CountKnows ==
    wpos + (IF tpc \in {"load", "store"} THEN 1 ELSE 0)
        = rpos + count + lost + (IF ppc = "count" THEN 1 ELSE 0)

(* Between two looks at the count the reader can rely on what it saw. *)
ReadKnows ==
    /\ tpc \in {"copy", "load", "store"} => count > 0
    /\ tpc = "store" => old \in 1 .. count
    /\ tpc = "asleep" \/ tpc = "enter" => waited < MaxWait

(* The ring holds the unread bytes, unless the page ran a round ahead. *)
RingHolds ==
    ~overrun =>
        /\ wpos - rpos <= Size /\ (ppc = "advance" => wpos - rpos < Size)
        /\ \A k \in rpos + 1 .. wpos : slots[(k - 1) % Size] = k
        /\ ppc = "advance" => slots[wpos % Size] = wpos + 1

(* Unless the page overruns the reader, a guest reads what was typed, in    *)
(* order, each byte once and none before it was stored, whatever happens to *)
(* the count: an addition the reader's store takes back delays bytes, but   *)
(* never makes it read a slot twice or too early.                           *)
InputSound ==
    /\ StdinTypeOK /\ CountKnows /\ ReadKnows /\ RingHolds
    /\ rpos <= wpos
    /\ ~overrun => consumed = [k \in 1 .. rpos |-> k]

(* All the bytes typed are read, except as many as the count lost: the      *)
(* notify after the last byte alone wakes a reader that went to sleep while *)
(* they were stored.                                                        *)
AllButLostRead == (wpos = MaxTyped) ~> (rpos + lost = MaxTyped)
=============================================================================
