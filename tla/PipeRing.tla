------------------------------ MODULE PipeRing ------------------------------
(***************************************************************************)
(* One pipe ring of the bridge's SharedArrayBuffer, used by two execution  *)
(* workers at once: a reader in localPipeRead / localPipeReadv and a       *)
(* writer in localPipeWrite / localPipeWritev.  The header words are       *)
(* write_pos, read_pos and write_closed; every Atomics.load, store, wait   *)
(* and notify of the code is a step of its own, so that the two loops      *)
(* interleave exactly where the program lets them.                         *)
(*                                                                         *)
(* Data abstraction: the k-th byte the writer publishes is the number k,   *)
(* so a lost, duplicated or reordered byte shows in what the reader gets.  *)
(***************************************************************************)
EXTENDS Integers, Sequences

CONSTANTS
    Cap,        \* data.length, PIPE_BUF_SIZE in the code
    Counts,     \* the byte counts guests pass to read and write
    MaxBytes,   \* bound: bytes the writer ever asks to send
    Copies      \* whether dup or fork made copies of the write end

ASSUME CapAssumption == Cap \in Nat /\ Cap >= 2
ASSUME CountsAssumption == Counts \subseteq Nat \ {0}
ASSUME MaxBytesAssumption == MaxBytes \in Nat
ASSUME CopiesAssumption == Copies \in BOOLEAN

VARIABLES
    wp, rp, wclosed,    \* control[0], control[1], control[2]
    data,               \* the ring bytes; 0 where nothing was written yet
    rpc, rmax, rn,      \* reader: program point, maxCount, bytesRead
    rwp, rrp, rbyte,    \* reader: its loads of wp and rp, the byte copied
    wpc, wlen, wn, wwp, \* writer: program point, len, written, its load of wp
    sent,               \* history: bytes published so far
    got,                \* history: the bytes the reader consumed, in order
    eof,                \* history: some read returned 0
    rgone               \* history: the writer was gone when the current read began

ring   == <<wp, rp, wclosed, data>>
reader == <<rpc, rmax, rn, rwp, rrp, rbyte>>
writer == <<wpc, wlen, wn, wwp>>
hist   == <<sent, got, eof, rgone>>
pipeVars   == <<ring, reader, writer, hist>>

Slots == 0 .. Cap - 1
NoWrap(i) == i + 1              \* mutant: the remainder is forgotten
Next1(i) == (i + 1) % Cap      \* (wp + 1) % cap and (rp + 1) % cap
MinOf(a, b) == IF a < b THEN a ELSE b

RPcs == {"idle", "top", "gotwp", "empty", "wait", "asleep", "copy", "store"}
WPcs == {"idle", "top", "gotwp", "put", "publish", "notify", "gone"}

PipeTypeOK ==
    /\ wp \in Slots /\ rp \in Slots /\ wclosed \in BOOLEAN
    /\ data \in [Slots -> Nat]
    /\ rpc \in RPcs /\ rmax \in Nat /\ rn \in Nat
    /\ rwp \in Slots /\ rrp \in Slots /\ rbyte \in Nat
    /\ wpc \in WPcs /\ wlen \in Nat /\ wn \in Nat /\ wwp \in Slots
    /\ sent \in Nat /\ got \in Seq(Nat)
    /\ eof \in BOOLEAN /\ rgone \in BOOLEAN

(* pipe::create zeroes the four header words. *)
PipeInit ==
    /\ wp = 0 /\ rp = 0 /\ wclosed = FALSE
    /\ data = [i \in Slots |-> 0]
    /\ rpc = "idle" /\ rmax = 0 /\ rn = 0 /\ rwp = 0 /\ rrp = 0 /\ rbyte = 0
    /\ wpc = "idle" /\ wlen = 0 /\ wn = 0 /\ wwp = 0
    /\ sent = 0 /\ got = <<>> /\ eof = FALSE /\ rgone = FALSE

-----------------------------------------------------------------------------
(* The reader.                                                             *)

StartRead(max) ==
    /\ rpc = "idle"
    /\ rpc' = "top" /\ rmax' = max /\ rn' = 0 /\ rgone' = (wpc = "gone")
    /\ UNCHANGED <<ring, rwp, rrp, rbyte, writer, sent, got, eof>>

(* localPipeRead clamps the request to the ring's length. *)
BeginRead == \E c \in Counts : StartRead(MinOf(c, Cap))

(* localPipeReadv does not; a vector is the sum of its parts. *)
BeginReadv == \E c1, c2 \in Counts : StartRead(c1 + c2)

(* The return of the call: eof records a result of 0. *)
EndRead ==
    /\ rpc' = "idle" /\ eof' = (eof \/ rn = 0)
    /\ UNCHANGED <<ring, rmax, rn, rwp, rrp, rbyte, writer, sent, got, rgone>>

ReadFull == rpc = "top" /\ rn >= rmax /\ EndRead

(* Mutant: write_pos is loaded once, outside the loop. *)
LoadWpCached ==
    /\ rpc = "top" /\ rn < rmax /\ rpc' = "gotwp"
    /\ UNCHANGED <<ring, rmax, rn, rwp, rrp, rbyte, writer, hist>>

LoadWp ==
    /\ rpc = "top" /\ rn < rmax
    /\ rpc' = "gotwp" /\ rwp' = wp
    /\ UNCHANGED <<ring, rmax, rn, rrp, rbyte, writer, hist>>

LoadRp ==
    /\ rpc = "gotwp"
    /\ rrp' = rp
    /\ rpc' = IF rp = rwp THEN "empty" ELSE "copy"
    /\ UNCHANGED <<ring, rmax, rn, rwp, rbyte, writer, hist>>

(* Mutant: an empty ring ends the call whether or not the writer is there. *)
StopAlways == rpc = "empty" /\ EndRead

(* The ring looked empty: EOF, a short read, or a wait. *)
StopOnEmpty == rpc = "empty" /\ (wclosed \/ rn > 0) /\ EndRead

GoWait ==
    /\ rpc = "empty" /\ ~wclosed /\ rn = 0
    /\ rpc' = "wait"
    /\ UNCHANGED <<ring, rmax, rn, rwp, rrp, rbyte, writer, hist>>

(* Atomics.wait(control, 0, wp, 5000) compares and sleeps in one step. *)
Wait ==
    /\ rpc = "wait"
    /\ rpc' = IF wp = rwp THEN "asleep" ELSE "top"
    /\ UNCHANGED <<ring, rmax, rn, rwp, rrp, rbyte, writer, hist>>

(* Mutant: the timeout re-arms the wait without looking again. *)
WaitAgain == rpc = "asleep" /\ UNCHANGED pipeVars

WaitTimeout ==
    /\ rpc = "asleep" /\ rpc' = "top"
    /\ UNCHANGED <<ring, rmax, rn, rwp, rrp, rbyte, writer, hist>>

Copy ==
    /\ rpc = "copy" /\ rpc' = "store" /\ rbyte' = data[rrp]
    /\ UNCHANGED <<ring, rmax, rn, rwp, rrp, writer, hist>>

Store ==
    /\ rpc = "store" /\ rpc' = "top"
    /\ rp' = Next1(rrp) /\ rn' = rn + 1 /\ got' = Append(got, rbyte)
    /\ UNCHANGED <<wp, wclosed, data, rmax, rwp, rrp, rbyte, writer,
                   sent, eof, rgone>>

ReaderStep == ReadFull \/ LoadWp \/ LoadRp \/ StopOnEmpty \/ GoWait \/ Wait
              \/ Copy \/ Store

-----------------------------------------------------------------------------
(* The writer.                                                             *)

(* localPipeWrite and localPipeWritev: one loop over the bytes asked for. *)
BeginWrite ==
    /\ wpc = "idle"
    /\ \E c \in Counts :
         /\ sent + c <= MaxBytes
         /\ wlen' = c
    /\ wpc' = "top" /\ wn' = 0
    /\ UNCHANGED <<ring, reader, wwp, hist>>

WriteLoadWp ==
    /\ wpc = "top"
    /\ IF wn < wlen THEN wpc' = "gotwp" /\ wwp' = wp
                    ELSE wpc' = "notify" /\ UNCHANGED wwp
    /\ UNCHANGED <<ring, reader, wlen, wn, hist>>

(* Mutant: no check for a full ring. *)
NoFullCheck ==
    /\ wpc = "gotwp" /\ wpc' = "put"
    /\ UNCHANGED <<ring, reader, wlen, wn, wwp, hist>>

(* A full ring ends the call with a short count; nothing blocks. *)
WriteLoadRp ==
    /\ wpc = "gotwp"
    /\ wpc' = IF Next1(wwp) = rp THEN "notify" ELSE "put"
    /\ UNCHANGED <<ring, reader, wlen, wn, wwp, hist>>

Put ==
    /\ wpc = "put" /\ wpc' = "publish"
    /\ data' = [data EXCEPT ![wwp] = sent + 1]
    /\ UNCHANGED <<wp, rp, wclosed, reader, wlen, wn, wwp, hist>>

Publish ==
    /\ wpc = "publish" /\ wpc' = "top"
    /\ wp' = Next1(wwp) /\ wn' = wn + 1 /\ sent' = sent + 1
    /\ UNCHANGED <<rp, wclosed, data, reader, wlen, wwp, got, eof, rgone>>

(* Mutant: the write returns without a notify. *)
NoNotify ==
    /\ wpc = "notify" /\ wpc' = "idle"
    /\ UNCHANGED <<ring, reader, wlen, wn, wwp, hist>>

(* Atomics.notify(control, 0) wakes the reader if it sleeps. *)
Notify ==
    /\ wpc = "notify" /\ wpc' = "idle"
    /\ rpc' = IF rpc = "asleep" THEN "top" ELSE rpc
    /\ UNCHANGED <<ring, rmax, rn, rwp, rrp, rbyte, wlen, wn, wwp, hist>>

(* close(fd) of the end the writer uses: the worker drops its cache entry    *)
(* and the bridge's pipe::close stores write_closed.  It notifies nobody.   *)
CloseWriteEnd ==
    /\ wpc = "idle" /\ wpc' = "gone"
    /\ wclosed' = TRUE
    /\ UNCHANGED <<wp, rp, data, reader, wlen, wn, wwp, hist>>

(* close(fd) of a copy that dup or fork made: nothing counts the copies, so   *)
(* the flag is stored while the writer may be anywhere in its call and will *)
(* go on writing; localPipeWrite does not look at it.                       *)
CloseCopy ==
    /\ Copies /\ wclosed' = TRUE
    /\ UNCHANGED <<wp, rp, data, reader, writer, hist>>

WriterStep == WriteLoadWp \/ WriteLoadRp \/ Put \/ Publish \/ Notify

PipeNext == BeginRead \/ BeginReadv \/ ReaderStep \/ WaitTimeout
        \/ BeginWrite \/ WriterStep \/ CloseWriteEnd \/ CloseCopy

PipeSpec == PipeInit /\ [][PipeNext]_pipeVars

(* Workers are real threads: a call that started keeps running.  The guest  *)
(* behind the reader keeps calling read until it has seen an end of file.   *)
(* The 5 s timeout of a wait is left out: EofSeen alone relies on it.       *)
ReadsOn  == ~eof /\ (BeginRead \/ BeginReadv)
PipeFairness == WF_pipeVars(ReaderStep) /\ WF_pipeVars(WriterStep) /\ WF_pipeVars(ReadsOn)
TimerFires == WF_pipeVars(WaitTimeout)

-----------------------------------------------------------------------------
(* What the ring promises.                                                 *)

Used == IF wp >= rp THEN wp - rp ELSE wp - rp + Cap
At(k) == IF rp + k < Cap THEN rp + k ELSE rp + k - Cap
Content == [k \in 1 .. Used |-> data[At(k - 1)]]

(* Every byte the reader consumed is the next one the writer published:     *)
(* no loss, no duplicate, no reordering through wrap-around and races.      *)
InOrder == \A k \in 1 .. Len(got) : got[k] = k

(* Published and not yet consumed bytes are exactly what lies in the ring   *)
(* between read_pos and write_pos; the ring never overtakes itself.         *)
Conserved == Used = sent - Len(got) /\ \A k \in 1 .. Used : Content[k] = Len(got) + k

(* A read answers 0 only after the write end was closed. *)
EofOnlyAfterClose == eof => wclosed

(* The end of file a read reports is final when that read began after the   *)
(* writer closed its end: every published byte was consumed before it.      *)
LateEofIsFinal ==
    [][(rpc = "empty" /\ rpc' = "idle" /\ rn = 0 /\ rgone) => Len(got) = sent]_pipeVars

(* Any end of file comes after the last byte ("write end closed = EOF").    *)
(* Not even one writer without copies is given that.                        *)
EofAfterAllBytes == [][(eof' /\ ~eof) => Len(got) = sent]_pipeVars

(* No lost wake-up: without the 5 s timeout, the notify at the end of each  *)
(* write alone delivers every published byte to a guest that reads on.      *)
AllDelivered == \A k \in 1 .. MaxBytes : (sent >= k) ~> (Len(got) >= k \/ eof)

(* A blocked reader also learns of the close, if the timer of its wait       *)
(* fires: pipe::close notifies nobody.                                      *)
EofSeen == TimerFires => (wclosed ~> eof)

(* The strengthening that makes the four invariants inductive: what each    *)
(* program point knows about the two indices it has loaded.                 *)
Dist(a, b) == IF b >= a THEN b - a ELSE b - a + Cap
ReaderKnows ==
    /\ rpc # "idle" => rmax >= 1
    /\ rpc = "gotwp" => Dist(rp, rwp) <= Used
    /\ rpc \in {"copy", "store"} => rrp = rp /\ rp # wp
    /\ rpc = "store" => rbyte = Len(got) + 1
    /\ rpc = "empty" => rrp = rp /\ rwp = rp
WriterKnows ==
    /\ wpc \in {"gotwp", "put", "publish"} => wwp = wp
    /\ wpc \in {"put", "publish"} => Next1(wp) # rp
    /\ wpc = "publish" => data[wp] = sent + 1
    /\ wpc = "gone" => wclosed
    /\ wpc \in {"gotwp", "put", "publish"} => wn < wlen
    /\ wpc \in {"top", "gotwp", "put", "publish"} => sent + wlen - wn <= MaxBytes
CloseKnows ==
    /\ rgone => wpc = "gone"
    /\ (rgone /\ rpc \in {"gotwp", "empty"}) => rwp = wp
PipeInv == /\ PipeTypeOK /\ InOrder /\ Conserved /\ EofOnlyAfterClose
        /\ ReaderKnows /\ WriterKnows /\ CloseKnows

(* The ring as an abstract pipe, closed when its writer is gone. *)
Fifo == INSTANCE BytePipe WITH Bytes <- 1 .. MaxBytes, buf <- Content, taken <- got, closed <- wpc = "gone"
Implements == Fifo!Spec
=============================================================================
