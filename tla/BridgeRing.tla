----------------------------- MODULE BridgeRing -----------------------------
(***************************************************************************)
(* The request ring between the kernel worker (callBridge) and the WASIX   *)
(* bridge (main): RING_SLOTS slots in shared memory, a write position the  *)
(* kernel advances and a read position the bridge advances.  The kernel    *)
(* blocks in Atomics.wait on a slot's status for at most CALL_TIMEOUT_MS.  *)
(* The bridge's plain atomic store of the status wakes nobody, so a kernel *)
(* that already sleeps leaves its wait by the timeout only.                *)
(*                                                                         *)
(* Data abstraction: a request is its request id, the answer to request r  *)
(* is the record [kind |-> "res", id |-> r].                               *)
(***************************************************************************)
EXTENDS Integers, FiniteSets

CONSTANTS
    RingSlots,  \* RING_SLOTS
    MaxCalls,   \* bound: calls the kernel makes
    MaxStall    \* bound: kernel timeouts while the bridge is inside one request

ASSUME RingAssumption == RingSlots \in Nat \ {0}
ASSUME BoundAssumption == MaxCalls \in Nat /\ MaxStall \in Nat
ASSUME StallAssumption == MaxStall + 2 <= RingSlots

VARIABLES
    writePos, readPos,  \* ring header words 0 and 1
    status,             \* status[s]: SLOT_STATUS, 0 free, 1 request, 2 response
    payload,            \* payload[s]: SLOT_PAYLOAD and SLOT_ERROR of slot s
    kpc, kslot, kid,    \* callBridge: program point, slot index, request id
    kans,               \* callBridge: the answer it loaded
    bpc, breq,          \* bridge main loop: program point, request it loaded
    stall,              \* kernel timeouts since the bridge took its request
    executed,           \* history: how often each request was dispatched
    returned            \* history: what each call returned

kernel == <<kpc, kslot, kid, kans>>
vars == <<writePos, readPos, status, payload, kernel, bpc, breq, stall, executed, returned>>

Ids == 1 .. MaxCalls
Index == 0 .. RingSlots - 1
None == [kind |-> "none", id |-> 0]
Req(r) == [kind |-> "req", id |-> r]
Res(r) == [kind |-> "res", id |-> r]
Timeout == [kind |-> "err110", id |-> 0]
Cells == [kind : {"none", "req", "res", "err110"}, id : Nat]

TypeOK ==
    /\ writePos \in Nat /\ readPos \in Nat
    /\ status \in [Index -> 0 .. 2]
    /\ payload \in [Index -> Cells]
    /\ kpc \in {"idle", "claimed", "filled", "posted", "asleep", "timedout",
                "ready", "read"}
    /\ kslot \in Index /\ kid \in Nat /\ kans \in Cells
    /\ bpc \in {"poll", "taken", "fetched", "dispatched", "responded"}
    /\ breq \in Nat /\ stall \in Nat
    /\ executed \in [Ids -> Nat]
    /\ returned \in [Ids -> Cells]

(* main zeroes the ring before the kernel gets the buffer. *)
Init ==
    /\ writePos = 0 /\ readPos = 0
    /\ status = [s \in Index |-> 0] /\ payload = [s \in Index |-> None]
    /\ kpc = "idle" /\ kslot = 0 /\ kid = 0 /\ kans = None
    /\ bpc = "poll" /\ breq = 0 /\ stall = 0
    /\ executed = [r \in Ids |-> 0] /\ returned = [r \in Ids |-> None]

-----------------------------------------------------------------------------
(* callBridge.                                                             *)

(* Mutant: the position is used as the slot index. *)
ClaimNoWrap ==
    /\ kpc = "idle" /\ kid < MaxCalls
    /\ kid' = kid + 1 /\ kslot' = writePos
    /\ writePos' = writePos + 1 /\ kpc' = "claimed"
    /\ UNCHANGED <<readPos, status, payload, kans, bpc, breq, stall, executed, returned>>

(* reqId = add(header[2], 1), writePos = add(header[0], 1): request r goes  *)
(* to position r - 1.                                                       *)
Claim ==
    /\ kpc = "idle" /\ kid < MaxCalls
    /\ kid' = kid + 1 /\ kslot' = writePos % RingSlots
    /\ writePos' = writePos + 1 /\ kpc' = "claimed"
    /\ UNCHANGED <<readPos, status, payload, kans, bpc, breq, stall, executed, returned>>

(* The loop that waits for a free slot ends only when the status is 0. *)
Fill ==
    /\ kpc = "claimed" /\ status[kslot] = 0
    /\ payload' = [payload EXCEPT ![kslot] = Req(kid)]
    /\ kpc' = "filled"
    /\ UNCHANGED <<writePos, readPos, status, kslot, kid, kans, bpc, breq, stall,
                   executed, returned>>

Post ==
    /\ kpc = "filled" /\ kpc' = "posted"
    /\ status' = [status EXCEPT ![kslot] = 1]
    /\ UNCHANGED <<writePos, readPos, payload, kslot, kid, kans, bpc, breq, stall,
                   executed, returned>>

(* Mutant: the result is read without waiting for the response. *)
NoWait ==
    /\ kpc = "posted" /\ kpc' = "ready"
    /\ UNCHANGED <<writePos, readPos, status, payload, kslot, kid, kans, bpc, breq,
                   stall, executed, returned>>

(* Atomics.wait(status, 1): asleep while it is 1, "not-equal" otherwise. *)
AwaitAnswer ==
    /\ kpc = "posted"
    /\ kpc' = IF status[kslot] = 1 THEN "asleep" ELSE "ready"
    /\ UNCHANGED <<writePos, readPos, status, payload, kslot, kid, kans, bpc, breq,
                   stall, executed, returned>>

TimedOut ==
    /\ kpc = "asleep" /\ kpc' = "timedout"
    /\ bpc # "poll" => stall < MaxStall
    /\ stall' = IF bpc = "poll" THEN 0 ELSE stall + 1
    /\ UNCHANGED <<writePos, readPos, status, payload, kslot, kid, kans, bpc, breq,
                   executed, returned>>

Abandon ==
    /\ kpc = "timedout" /\ kpc' = "idle"
    /\ status' = [status EXCEPT ![kslot] = 0]
    /\ returned' = [returned EXCEPT ![kid] = Timeout]
    /\ UNCHANGED <<writePos, readPos, payload, kslot, kid, kans, bpc, breq, stall, executed>>

(* Mutant: the kernel goes back to sleep on the answer. *)
SleepAgain ==
    /\ kpc = "ready" /\ kpc' = "posted"
    /\ UNCHANGED <<writePos, readPos, status, payload, kslot, kid, kans, bpc, breq,
                   stall, executed, returned>>

ReadAnswer ==
    /\ kpc = "ready" /\ kpc' = "read"
    /\ kans' = payload[kslot]
    /\ UNCHANGED <<writePos, readPos, status, payload, kslot, kid, bpc, breq, stall,
                   executed, returned>>

(* Mutant: the slot is not given back. *)
KeepStatus ==
    /\ kpc = "read" /\ kpc' = "idle"
    /\ returned' = [returned EXCEPT ![kid] = kans]
    /\ UNCHANGED <<writePos, readPos, status, payload, kslot, kid, kans, bpc, breq, stall, executed>>

Release ==
    /\ kpc = "read" /\ kpc' = "idle"
    /\ status' = [status EXCEPT ![kslot] = 0]
    /\ returned' = [returned EXCEPT ![kid] = kans]
    /\ UNCHANGED <<writePos, readPos, payload, kslot, kid, kans, bpc, breq, stall, executed>>

KernelStep == Fill \/ Post \/ AwaitAnswer \/ Abandon \/ ReadAnswer \/ Release

-----------------------------------------------------------------------------
(* The bridge's main loop.                                                 *)

Cur == readPos % RingSlots

(* Mutant: the positions alone decide; the status is not verified. *)
PollUnchecked ==
    /\ bpc = "poll" /\ readPos # writePos
    /\ bpc' = "taken" /\ stall' = 0
    /\ UNCHANGED <<writePos, readPos, status, payload, kernel, breq, executed, returned>>

(* An empty ring or a slot whose status is not 1 sends the loop round again. *)
Poll ==
    /\ bpc = "poll" /\ readPos # writePos /\ status[Cur] = 1
    /\ bpc' = "taken" /\ stall' = 0
    /\ UNCHANGED <<writePos, readPos, status, payload, kernel, breq, executed, returned>>

Fetch ==
    /\ bpc = "taken" /\ bpc' = "fetched"
    /\ breq' = payload[Cur].id
    /\ UNCHANGED <<writePos, readPos, status, payload, kernel, stall, executed, returned>>

(* The handler's effect and its result, stored over the request. *)
Dispatch ==
    /\ bpc = "fetched" /\ bpc' = "dispatched"
    /\ executed' = [executed EXCEPT ![breq] = @ + 1]
    /\ payload' = [payload EXCEPT ![Cur] = Res(breq)]
    /\ UNCHANGED <<writePos, readPos, status, kernel, breq, stall, returned>>

Respond ==
    /\ bpc = "dispatched" /\ bpc' = "responded"
    /\ status' = [status EXCEPT ![Cur] = 2]
    /\ UNCHANGED <<writePos, readPos, payload, kernel, breq, stall, executed, returned>>

(* Mutant: read_pos is not advanced and the response is taken back, as if  *)
(* the request had to be retried.                                          *)
Retry ==
    /\ bpc = "responded" /\ bpc' = "taken"
    /\ UNCHANGED <<writePos, readPos, status, payload, kernel, breq, stall, executed, returned>>

Advance ==
    /\ bpc = "responded" /\ bpc' = "poll"
    /\ readPos' = readPos + 1
    /\ UNCHANGED <<writePos, status, payload, kernel, breq, stall, executed, returned>>

BridgeStep == Poll \/ Fetch \/ Dispatch \/ Respond \/ Advance

Next == Claim \/ KernelStep \/ TimedOut \/ BridgeStep

Spec == Init /\ [][Next]_vars

(* Both sides are threads that keep running, and a sleeping kernel's timer  *)
(* fires.                                                                   *)
Fairness == WF_vars(KernelStep) /\ WF_vars(TimedOut) /\ WF_vars(BridgeStep)

-----------------------------------------------------------------------------
(* A call returns its own answer or a timeout, never another call's answer, *)
(* through late responses and reuse of slots.                               *)
OwnAnswer == \A r \in Ids : returned[r] \in {None, Timeout, Res(r)}

(* The bridge dispatches no request twice. *)
AtMostOnce == \A r \in Ids : executed[r] <= 1

(* A call that returns an answer was dispatched exactly once. *)
AnsweredWasExecuted == \A r \in Ids : returned[r] = Res(r) => executed[r] = 1

(* Requests are dispatched in the order in which the kernel made them. *)
DispatchInOrder ==
    [][bpc = "fetched" /\ bpc' = "dispatched"
         => \A r \in Ids : r > breq => executed[r] = 0]_vars

(* Once its request is in the slot, the kernel leaves the call: with the    *)
(* answer or by CALL_TIMEOUT_MS.                                            *)
PostedReturns == (kpc = "posted") ~> (kpc = "idle")

(* A response that lies in a slot no call and no dispatch is using belongs  *)
(* to a call that timed out while the bridge was executing it: the race is  *)
(* the only way a slot stays occupied.                                      *)
LeftoverTimedOut ==
    \A s \in Index :
        (status[s] = 2 /\ (kpc = "idle" \/ kslot # s) /\ (bpc = "poll" \/ Cur # s))
        => returned[payload[s].id] = Timeout /\ executed[payload[s].id] = 1

(***************************************************************************)
(* The invariant of the proofs (RingProofs).                               *)
(***************************************************************************)
(* The request the bridge is inside of, and whether its call is over. *)
Serving == IF bpc = "taken" THEN payload[Cur].id ELSE breq
Over(r) == r < kid \/ (r = kid /\ kpc = "idle")

(* What lies in the slot of a call that waits: its request, the result of   *)
(* it below a status that still says request, or the response.              *)
InSlot ==
    \/ status[kslot] = 1 /\ payload[kslot] = Req(kid) /\ executed[kid] = 0
    \/ status[kslot] = 1 /\ executed[kid] = 1 /\ bpc = "dispatched" /\ breq = kid
    \/ status[kslot] = 2 /\ payload[kslot] = Res(kid) /\ executed[kid] = 1

(* Call kid is the last one and has position kid - 1; later ones have left  *)
(* no trace.  Only a call that waits has a request in a slot.               *)
CallKnows ==
    /\ writePos = kid /\ kid <= MaxCalls
    /\ \A r \in Ids : r > kid => executed[r] = 0 /\ returned[r] = None
    /\ kpc # "idle" => kid >= 1 /\ kslot = (kid - 1) % RingSlots /\ returned[kid] = None
    /\ kpc \in {"claimed", "filled"} => executed[kid] = 0
    /\ kpc = "filled" => payload[kslot] = Req(kid)
    /\ kpc \in {"posted", "asleep", "timedout"} => InSlot
    /\ kpc \in {"ready", "read"} => status[kslot] = 2 /\ payload[kslot] = Res(kid) /\ executed[kid] = 1
    /\ kpc = "read" => kans = Res(kid)
    /\ \A s \in Index : status[s] = 1 => s = kslot /\ kpc \in {"posted", "asleep", "timedout"}

(* The bridge's slot is the one of the request it serves, and the kernel is  *)
(* not a round ahead: every call it left since, except one, was a timeout    *)
(* that stall counts.                                                        *)
ServiceKnows ==
    bpc # "poll" =>
        /\ Serving \in Ids /\ Serving <= kid /\ Cur = (Serving - 1) % RingSlots
        /\ kid - Serving + (IF kpc \in {"idle", "timedout"} THEN 1 ELSE 0) <= stall + 1
        /\ kid = Serving => kpc \notin {"claimed", "filled"}
        /\ \A r \in Ids : r > Serving => executed[r] = 0
        /\ executed[Serving] = IF bpc \in {"taken", "fetched"} THEN 0 ELSE 1
        /\ bpc \in {"dispatched", "responded"} => payload[Cur] = Res(breq)
        /\ bpc # "responded" => status[Cur] # 2
        /\ Over(Serving) /\ (bpc = "responded" => status[Cur] = 2) => returned[Serving] = Timeout

IInv ==
    /\ TypeOK /\ stall <= MaxStall
    /\ CallKnows /\ ServiceKnows
    /\ OwnAnswer /\ AtMostOnce /\ AnsweredWasExecuted
    /\ LeftoverTimedOut /\ \A s \in Index : status[s] = 2 => payload[s].id \in Ids
=============================================================================
