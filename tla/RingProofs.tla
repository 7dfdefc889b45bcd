----------------------------- MODULE RingProofs ------------------------------
(***************************************************************************)
(* Proofs about the two rings that join single threads: BridgeRing for     *)
(* every number of slots and calls, then StdinRing for every size of the   *)
(* ring, number of bytes and number of waits.                              *)
(***************************************************************************)
EXTENDS BridgeRing, StdinRing, TLAPS

USE RingAssumption, BoundAssumption, StallAssumption

(* Positions less than a round apart that share a slot are the same. *)
LEMMA SameSlot ==
    ASSUME NEW a \in Nat, NEW b \in Nat, a <= b, b - a < RingSlots, a % RingSlots = b % RingSlots
    PROVE  a = b
<1> DEFINE i == a \div RingSlots
           j == b \div RingSlots
<1>1. /\ i \in Nat /\ a = RingSlots * i + (a % RingSlots)
      /\ j \in Nat /\ b = RingSlots * j + (b % RingSlots)
  BY SMT
<1>2. RingSlots * (j - i) < RingSlots /\ RingSlots * (j - i) >= 0
  BY <1>1, SMT
<1>3. j - i = 0
  BY <1>1, <1>2, SMT
<1> QED BY <1>1, <1>3, SMT

(* A position names a slot. *)
LEMMA SlotOf == ASSUME NEW a \in Nat PROVE a % RingSlots \in Index
BY DEF Index

(* While the bridge is inside a request, a later call is in another slot. *)
LEMMA Apart ==
    ASSUME IInv, bpc # "poll", kpc # "idle", kslot = Cur
    PROVE  kid = Serving
<1>1. /\ Serving \in Nat /\ kid \in Nat /\ Serving >= 1 /\ Serving <= kid /\ kid - Serving < RingSlots
  BY DEF IInv, TypeOK, ServiceKnows, Ids
<1>2. (Serving - 1) % RingSlots = (kid - 1) % RingSlots
  BY DEF IInv, ServiceKnows, CallKnows
<1>3. Serving - 1 = kid - 1
  <2> DEFINE a == Serving - 1
             b == kid - 1
  <2>1. a \in Nat /\ b \in Nat /\ a <= b /\ b - a < RingSlots
    BY <1>1
  <2>2. a % RingSlots = b % RingSlots
    BY <1>2
  <2> HIDE DEF a, b
  <2>3. a = b
    BY <2>1, <2>2, SameSlot
  <2> QED BY <2>3 DEF a, b
<1> QED BY <1>1, <1>3

(* Requests, results and timeouts are contents of a slot. *)
LEMMA CellTypes ==
    /\ \A r \in Nat : Req(r) \in Cells /\ Res(r) \in Cells
    /\ None \in Cells /\ Timeout \in Cells
    /\ \A c \in Cells : c.id \in Nat
BY DEF Cells, Req, Res, None, Timeout

(* No step leaves the types. *)
LEMMA TypeStep == TypeOK /\ Next => TypeOK'
<1> SUFFICES ASSUME TypeOK, Next PROVE TypeOK'
  OBVIOUS
<1> USE DEF TypeOK, kernel
<1>1. CASE Claim
  <2>1. kslot' \in Index
    BY <1>1, SlotOf DEF Claim
  <2> QED BY <1>1, <2>1 DEF Claim
<1>2. CASE Fill
  BY <1>2, CellTypes DEF Fill
<1>3. CASE Post
  BY <1>3 DEF Post
<1>4. CASE AwaitAnswer
  BY <1>4 DEF AwaitAnswer
<1>5. CASE TimedOut
  BY <1>5 DEF TimedOut
<1>6. CASE Abandon
  <2>1. returned' \in [Ids -> Cells]
    BY <1>6, CellTypes DEF Abandon
  <2> QED BY <1>6, <2>1 DEF Abandon
<1>7. CASE ReadAnswer
  BY <1>7 DEF ReadAnswer
<1>8. CASE Release
  <2>1. returned' \in [Ids -> Cells]
    BY <1>8 DEF Release
  <2> QED BY <1>8, <2>1 DEF Release
<1>9. CASE Poll
  BY <1>9 DEF Poll
<1>10. CASE Fetch
  BY <1>10, SlotOf, CellTypes DEF Fetch, Cur
<1>11. CASE Dispatch
  <2>1. executed' \in [Ids -> Nat]
    <3>1. \A r \in Ids : executed[r] + 1 \in Nat
      OBVIOUS
    <3> QED BY <1>11, <3>1 DEF Dispatch
  <2>2. payload' \in [Index -> Cells]
    BY <1>11, CellTypes DEF Dispatch, Cur
  <2> QED BY <1>11, <2>1, <2>2 DEF Dispatch
<1>12. CASE Respond
  <2>1. status' \in [Index -> 0 .. 2]
    <3>1. status' = [status EXCEPT ![Cur] = 2]
      BY <1>12 DEF Respond
    <3>2. 2 \in 0 .. 2
      OBVIOUS
    <3> HIDE DEF TypeOK
    <3>3. status \in [Index -> 0 .. 2]
      BY DEF TypeOK
    <3> QED BY <3>1, <3>2, <3>3
  <2> QED BY <1>12, <2>1 DEF Respond
<1>13. CASE Advance
  BY <1>13 DEF Advance
<1> QED
  BY <1>1, <1>2, <1>3, <1>4, <1>5, <1>6, <1>7, <1>8, <1>9, <1>10, <1>11, <1>12, <1>13 DEF Next, KernelStep, BridgeStep

(* The zeroed ring satisfies the invariant. *)
LEMMA InitInv == Init => IInv
<1> SUFFICES ASSUME Init PROVE IInv
  OBVIOUS
<1> USE DEF Init
<1>1. TypeOK
  BY CellTypes DEF TypeOK, Index
<1>2. CallKnows /\ ServiceKnows
  BY DEF CallKnows, ServiceKnows, Index
<1>3. OwnAnswer /\ AtMostOnce /\ AnsweredWasExecuted
  BY DEF OwnAnswer, AtMostOnce, AnsweredWasExecuted, None, Res
<1>4. LeftoverTimedOut /\ \A s \in Index : status[s] = 2 => payload[s].id \in Ids
  BY DEF LeftoverTimedOut
<1> QED BY <1>1, <1>2, <1>3, <1>4 DEF IInv

(* Claiming a position adds a call that has left no trace; the kernel comes one closer to a full round ahead. *)
LEMMA ClaimInv == IInv /\ Claim => IInv'
<1> SUFFICES ASSUME IInv, Claim PROVE IInv'
  OBVIOUS
<1>1. TypeOK'
  BY TypeStep DEF IInv, Next, KernelStep, BridgeStep
<1> USE DEF IInv, Claim, kernel
<1>2. stall' <= MaxStall
  OBVIOUS
<1>3. CallKnows'
  BY DEF CallKnows, TypeOK, Ids
<1>4. ServiceKnows'
  <2> SUFFICES ASSUME bpc' # "poll" PROVE ServiceKnows'
    BY DEF ServiceKnows
  <2>0. bpc # "poll" /\ Serving' = Serving /\ Cur' = Cur /\ Serving \in Nat /\ kid \in Nat /\ stall \in Nat
    BY DEF ServiceKnows, TypeOK, Serving, Cur, Ids
  <2>1. /\ Serving' \in Ids /\ Serving' <= kid' /\ Cur' = (Serving' - 1) % RingSlots
        /\ kid' - Serving' + (IF kpc' \in {"idle", "timedout"} THEN 1 ELSE 0) <= stall' + 1
        /\ kid' = Serving' => kpc' \notin {"claimed", "filled"}
    BY <2>0 DEF ServiceKnows
  <2>2. /\ \A r \in Ids : r > Serving' => executed'[r] = 0
        /\ executed'[Serving'] = IF bpc' \in {"taken", "fetched"} THEN 0 ELSE 1
    BY DEF ServiceKnows, Serving, Cur
  <2>3. /\ bpc' \in {"dispatched", "responded"} => payload'[Cur'] = Res(breq')
        /\ bpc' # "responded" => status'[Cur'] # 2
    BY DEF ServiceKnows, Cur
  <2>4. Over(Serving)' /\ (bpc' = "responded" => status'[Cur'] = 2) => returned'[Serving'] = Timeout
    BY <2>0 DEF ServiceKnows, Over
  <2> QED BY <2>1, <2>2, <2>3, <2>4 DEF ServiceKnows
<1>5. OwnAnswer' /\ AtMostOnce' /\ AnsweredWasExecuted'
  BY DEF OwnAnswer, AtMostOnce, AnsweredWasExecuted
<1>6. LeftoverTimedOut' /\ \A s \in Index : status'[s] = 2 => payload'[s].id \in Ids
  BY Apart DEF LeftoverTimedOut, CallKnows, ServiceKnows, TypeOK, Serving, Over, Cur, Ids, Req, Res, None, Timeout
<1> QED BY <1>1, <1>2, <1>3, <1>4, <1>5, <1>6

(* A request is stored into a slot the bridge is not inside of (Apart). *)
LEMMA FillInv == IInv /\ Fill => IInv'
<1> SUFFICES ASSUME IInv, Fill PROVE IInv'
  OBVIOUS
<1>1. TypeOK'
  BY TypeStep DEF IInv, Next, KernelStep, BridgeStep
<1> USE DEF IInv, Fill, kernel
<1>2. stall' <= MaxStall
  OBVIOUS
<1>3. CallKnows'
  BY DEF CallKnows, TypeOK
<1>4. ServiceKnows'
  <2> SUFFICES ASSUME bpc' # "poll" PROVE ServiceKnows'
    BY DEF ServiceKnows
  <2>a. bpc # "poll" /\ kslot # Cur
    BY Apart DEF ServiceKnows
  <2>0. Serving' = Serving /\ Cur' = Cur /\ Serving \in Nat /\ kid \in Nat /\ stall \in Nat
    BY <2>a DEF ServiceKnows, TypeOK, Serving, Cur, Ids
  <2>1. /\ Serving' \in Ids /\ Serving' <= kid' /\ Cur' = (Serving' - 1) % RingSlots
        /\ kid' - Serving' + (IF kpc' \in {"idle", "timedout"} THEN 1 ELSE 0) <= stall' + 1
        /\ kid' = Serving' => kpc' \notin {"claimed", "filled"}
    BY <2>0, <2>a DEF ServiceKnows
  <2>2. /\ \A r \in Ids : r > Serving' => executed'[r] = 0
        /\ executed'[Serving'] = IF bpc' \in {"taken", "fetched"} THEN 0 ELSE 1
    BY Apart DEF ServiceKnows, CallKnows, Serving, Cur, InSlot
  <2>3. /\ bpc' \in {"dispatched", "responded"} => payload'[Cur'] = Res(breq')
        /\ bpc' # "responded" => status'[Cur'] # 2
    BY Apart DEF ServiceKnows, Cur
  <2>4. Over(Serving)' /\ (bpc' = "responded" => status'[Cur'] = 2) => returned'[Serving'] = Timeout
    BY <2>0, <2>a DEF ServiceKnows, Over
  <2> QED BY <2>1, <2>2, <2>3, <2>4 DEF ServiceKnows
<1>5. OwnAnswer' /\ AtMostOnce' /\ AnsweredWasExecuted'
  BY DEF OwnAnswer, AtMostOnce, AnsweredWasExecuted
<1>6. LeftoverTimedOut' /\ \A s \in Index : status'[s] = 2 => payload'[s].id \in Ids
  BY Apart DEF LeftoverTimedOut, CallKnows, ServiceKnows, TypeOK, Serving, Over, Cur, Ids, Req, Res, None, Timeout
<1> QED BY <1>1, <1>2, <1>3, <1>4, <1>5, <1>6

(* Posting makes the filled slot the only one that says request. *)
LEMMA PostInv == IInv /\ Post => IInv'
<1> SUFFICES ASSUME IInv, Post PROVE IInv'
  OBVIOUS
<1>1. TypeOK'
  BY TypeStep DEF IInv, Next, KernelStep, BridgeStep
<1> USE DEF IInv, Post, kernel
<1>2. stall' <= MaxStall
  OBVIOUS
<1>3. CallKnows'
  BY DEF CallKnows, TypeOK, InSlot
<1>4. ServiceKnows'
  <2> SUFFICES ASSUME bpc' # "poll" PROVE ServiceKnows'
    BY DEF ServiceKnows
  <2>1. /\ Serving' \in Ids /\ Serving' <= kid' /\ Cur' = (Serving' - 1) % RingSlots
        /\ kid' - Serving' + (IF kpc' \in {"idle", "timedout"} THEN 1 ELSE 0) <= stall' + 1
        /\ kid' = Serving' => kpc' \notin {"claimed", "filled"}
    BY DEF ServiceKnows, Serving, Cur
  <2>2. /\ \A r \in Ids : r > Serving' => executed'[r] = 0
        /\ executed'[Serving'] = IF bpc' \in {"taken", "fetched"} THEN 0 ELSE 1
    BY DEF ServiceKnows, Serving, Cur
  <2>3. /\ bpc' \in {"dispatched", "responded"} => payload'[Cur'] = Res(breq')
        /\ bpc' # "responded" => status'[Cur'] # 2
    BY DEF ServiceKnows, Cur
  <2>4. Over(Serving)' /\ (bpc' = "responded" => status'[Cur'] = 2) => returned'[Serving'] = Timeout
    BY Apart DEF ServiceKnows, CallKnows, TypeOK, Serving, Over, Cur, Ids, InSlot
  <2> QED BY <2>1, <2>2, <2>3, <2>4 DEF ServiceKnows
<1>5. OwnAnswer' /\ AtMostOnce' /\ AnsweredWasExecuted'
  BY DEF OwnAnswer, AtMostOnce, AnsweredWasExecuted
<1>6. LeftoverTimedOut' /\ \A s \in Index : status'[s] = 2 => payload'[s].id \in Ids
  BY Apart DEF LeftoverTimedOut, CallKnows, ServiceKnows, TypeOK, Serving, Over, Cur, Ids, Req, Res, None, Timeout
<1> QED BY <1>1, <1>2, <1>3, <1>4, <1>5, <1>6

(* A kernel that finds its slot changed finds its own response. *)
LEMMA WaitInv == IInv /\ AwaitAnswer => IInv'
<1> SUFFICES ASSUME IInv, AwaitAnswer PROVE IInv'
  OBVIOUS
<1>1. TypeOK'
  BY TypeStep DEF IInv, Next, KernelStep, BridgeStep
<1> USE DEF IInv, AwaitAnswer, kernel
<1>2. stall' <= MaxStall
  OBVIOUS
<1>3. CallKnows'
  BY DEF CallKnows, InSlot
<1>4. ServiceKnows'
  <2> SUFFICES ASSUME bpc' # "poll" PROVE ServiceKnows'
    BY DEF ServiceKnows
  <2>1. /\ Serving' \in Ids /\ Serving' <= kid' /\ Cur' = (Serving' - 1) % RingSlots
        /\ kid' - Serving' + (IF kpc' \in {"idle", "timedout"} THEN 1 ELSE 0) <= stall' + 1
        /\ kid' = Serving' => kpc' \notin {"claimed", "filled"}
    BY DEF ServiceKnows, Serving, Cur
  <2>2. /\ \A r \in Ids : r > Serving' => executed'[r] = 0
        /\ executed'[Serving'] = IF bpc' \in {"taken", "fetched"} THEN 0 ELSE 1
    BY DEF ServiceKnows, Serving, Cur
  <2>3. /\ bpc' \in {"dispatched", "responded"} => payload'[Cur'] = Res(breq')
        /\ bpc' # "responded" => status'[Cur'] # 2
    BY DEF ServiceKnows, Cur
  <2>4. Over(Serving)' /\ (bpc' = "responded" => status'[Cur'] = 2) => returned'[Serving'] = Timeout
    BY Apart DEF ServiceKnows, CallKnows, TypeOK, Serving, Over, Cur, Ids, InSlot
  <2> QED BY <2>1, <2>2, <2>3, <2>4 DEF ServiceKnows
<1>5. OwnAnswer' /\ AtMostOnce' /\ AnsweredWasExecuted'
  BY DEF OwnAnswer, AtMostOnce, AnsweredWasExecuted
<1>6. LeftoverTimedOut' /\ \A s \in Index : status'[s] = 2 => payload'[s].id \in Ids
  BY Apart DEF LeftoverTimedOut, CallKnows, ServiceKnows, TypeOK, Serving, Over, Cur, Ids, Req, Res, None, Timeout
<1> QED BY <1>1, <1>2, <1>3, <1>4, <1>5, <1>6

(* A timeout while the bridge serves a request is counted by stall. *)
LEMMA TimedOutInv == IInv /\ TimedOut => IInv'
<1> SUFFICES ASSUME IInv, TimedOut PROVE IInv'
  OBVIOUS
<1>1. TypeOK'
  BY TypeStep DEF IInv, Next, KernelStep, BridgeStep
<1> USE DEF IInv, TimedOut, kernel
<1>2. stall' <= MaxStall
  BY DEF TypeOK
<1>3. CallKnows'
  BY DEF CallKnows, InSlot
<1>4. ServiceKnows'
  <2> SUFFICES ASSUME bpc' # "poll" PROVE ServiceKnows'
    BY DEF ServiceKnows
  <2>0. bpc # "poll" /\ Serving' = Serving /\ Cur' = Cur /\ Serving \in Nat /\ kid \in Nat /\ stall \in Nat
    BY DEF ServiceKnows, TypeOK, Serving, Cur, Ids
  <2>1. /\ Serving' \in Ids /\ Serving' <= kid' /\ Cur' = (Serving' - 1) % RingSlots
        /\ kid' - Serving' + (IF kpc' \in {"idle", "timedout"} THEN 1 ELSE 0) <= stall' + 1
        /\ kid' = Serving' => kpc' \notin {"claimed", "filled"}
    BY <2>0 DEF ServiceKnows
  <2>2. /\ \A r \in Ids : r > Serving' => executed'[r] = 0
        /\ executed'[Serving'] = IF bpc' \in {"taken", "fetched"} THEN 0 ELSE 1
    BY DEF ServiceKnows, Serving, Cur
  <2>3. /\ bpc' \in {"dispatched", "responded"} => payload'[Cur'] = Res(breq')
        /\ bpc' # "responded" => status'[Cur'] # 2
    BY DEF ServiceKnows, Cur
  <2>4. Over(Serving)' /\ (bpc' = "responded" => status'[Cur'] = 2) => returned'[Serving'] = Timeout
    BY <2>0 DEF ServiceKnows, Over
  <2> QED BY <2>1, <2>2, <2>3, <2>4 DEF ServiceKnows
<1>5. OwnAnswer' /\ AtMostOnce' /\ AnsweredWasExecuted'
  BY DEF OwnAnswer, AtMostOnce, AnsweredWasExecuted
<1>6. LeftoverTimedOut' /\ \A s \in Index : status'[s] = 2 => payload'[s].id \in Ids
  BY Apart DEF LeftoverTimedOut, CallKnows, ServiceKnows, TypeOK, Serving, Over, Cur, Ids, Req, Res, None, Timeout
<1> QED BY <1>1, <1>2, <1>3, <1>4, <1>5, <1>6

(* Giving up returns Timeout, so that a call served after it is over is a timed-out one. *)
LEMMA AbandonInv == IInv /\ Abandon => IInv'
<1> SUFFICES ASSUME IInv, Abandon PROVE IInv'
  OBVIOUS
<1>1. TypeOK'
  BY TypeStep DEF IInv, Next, KernelStep, BridgeStep
<1> USE DEF IInv, Abandon, kernel
<1>2. stall' <= MaxStall
  OBVIOUS
<1>3. CallKnows'
  BY DEF CallKnows, TypeOK
<1>4. ServiceKnows'
  <2> SUFFICES ASSUME bpc' # "poll" PROVE ServiceKnows'
    BY DEF ServiceKnows
  <2>1. /\ Serving' \in Ids /\ Serving' <= kid' /\ Cur' = (Serving' - 1) % RingSlots
        /\ kid' - Serving' + (IF kpc' \in {"idle", "timedout"} THEN 1 ELSE 0) <= stall' + 1
        /\ kid' = Serving' => kpc' \notin {"claimed", "filled"}
    BY DEF ServiceKnows, Serving, Cur
  <2>2. /\ \A r \in Ids : r > Serving' => executed'[r] = 0
        /\ executed'[Serving'] = IF bpc' \in {"taken", "fetched"} THEN 0 ELSE 1
    BY DEF ServiceKnows, Serving, Cur
  <2>3. /\ bpc' \in {"dispatched", "responded"} => payload'[Cur'] = Res(breq')
        /\ bpc' # "responded" => status'[Cur'] # 2
    BY DEF ServiceKnows, Cur
  <2>4. Over(Serving)' /\ (bpc' = "responded" => status'[Cur'] = 2) => returned'[Serving'] = Timeout
    BY Apart DEF ServiceKnows, CallKnows, TypeOK, Serving, Over, Cur, Ids, InSlot
  <2> QED BY <2>1, <2>2, <2>3, <2>4 DEF ServiceKnows
<1>5. OwnAnswer' /\ AtMostOnce' /\ AnsweredWasExecuted'
  BY DEF OwnAnswer, AtMostOnce, AnsweredWasExecuted, Res, Timeout
<1>6. LeftoverTimedOut' /\ \A s \in Index : status'[s] = 2 => payload'[s].id \in Ids
  BY Apart DEF LeftoverTimedOut, CallKnows, ServiceKnows, TypeOK, Serving, Over, Cur, Ids, Req, Res, None, Timeout
<1> QED BY <1>1, <1>2, <1>3, <1>4, <1>5, <1>6

(* The response below the kernel is the result of its own call. *)
LEMMA ReadAnswerInv == IInv /\ ReadAnswer => IInv'
<1> SUFFICES ASSUME IInv, ReadAnswer PROVE IInv'
  OBVIOUS
<1>1. TypeOK'
  BY TypeStep DEF IInv, Next, KernelStep, BridgeStep
<1> USE DEF IInv, ReadAnswer, kernel
<1>2. stall' <= MaxStall
  OBVIOUS
<1>3. CallKnows'
  BY DEF CallKnows
<1>4. ServiceKnows'
  <2> SUFFICES ASSUME bpc' # "poll" PROVE ServiceKnows'
    BY DEF ServiceKnows
  <2>1. /\ Serving' \in Ids /\ Serving' <= kid' /\ Cur' = (Serving' - 1) % RingSlots
        /\ kid' - Serving' + (IF kpc' \in {"idle", "timedout"} THEN 1 ELSE 0) <= stall' + 1
        /\ kid' = Serving' => kpc' \notin {"claimed", "filled"}
    BY DEF ServiceKnows, Serving, Cur
  <2>2. /\ \A r \in Ids : r > Serving' => executed'[r] = 0
        /\ executed'[Serving'] = IF bpc' \in {"taken", "fetched"} THEN 0 ELSE 1
    BY DEF ServiceKnows, Serving, Cur
  <2>3. /\ bpc' \in {"dispatched", "responded"} => payload'[Cur'] = Res(breq')
        /\ bpc' # "responded" => status'[Cur'] # 2
    BY DEF ServiceKnows, Cur
  <2>4. Over(Serving)' /\ (bpc' = "responded" => status'[Cur'] = 2) => returned'[Serving'] = Timeout
    BY Apart DEF ServiceKnows, CallKnows, TypeOK, Serving, Over, Cur, Ids, InSlot
  <2> QED BY <2>1, <2>2, <2>3, <2>4 DEF ServiceKnows
<1>5. OwnAnswer' /\ AtMostOnce' /\ AnsweredWasExecuted'
  BY DEF OwnAnswer, AtMostOnce, AnsweredWasExecuted
<1>6. LeftoverTimedOut' /\ \A s \in Index : status'[s] = 2 => payload'[s].id \in Ids
  BY Apart DEF LeftoverTimedOut, CallKnows, ServiceKnows, TypeOK, Serving, Over, Cur, Ids, Req, Res, None, Timeout
<1> QED BY <1>1, <1>2, <1>3, <1>4, <1>5, <1>6

(* Only the call being served, after its response, gives its slot back with an answer. *)
LEMMA ReleaseInv == IInv /\ Release => IInv'
<1> SUFFICES ASSUME IInv, Release PROVE IInv'
  OBVIOUS
<1>1. TypeOK'
  BY TypeStep DEF IInv, Next, KernelStep, BridgeStep
<1> USE DEF IInv, Release, kernel
<1>2. stall' <= MaxStall
  OBVIOUS
<1>3. CallKnows'
  BY DEF CallKnows
<1>4. ServiceKnows'
  <2> SUFFICES ASSUME bpc' # "poll" PROVE ServiceKnows'
    BY DEF ServiceKnows
  <2>0. bpc # "poll" /\ Serving' = Serving /\ Cur' = Cur /\ Serving \in Nat /\ kid \in Nat /\ stall \in Nat
    BY DEF ServiceKnows, TypeOK, Serving, Cur, Ids
  <2>a. kid = Serving /\ kslot = Cur /\ status[Cur] = 2
    <3>1. kid \in Ids /\ executed[kid] = 1
      BY <2>0 DEF CallKnows, Ids
    <3>2. kid = Serving
      BY <2>0, <3>1 DEF ServiceKnows
    <3> QED BY <2>0, <3>2 DEF ServiceKnows, CallKnows
  <2>b. status'[Cur] = 0
    BY <2>a DEF TypeOK
  <2>1. /\ Serving' \in Ids /\ Serving' <= kid' /\ Cur' = (Serving' - 1) % RingSlots
        /\ kid' - Serving' + (IF kpc' \in {"idle", "timedout"} THEN 1 ELSE 0) <= stall' + 1
        /\ kid' = Serving' => kpc' \notin {"claimed", "filled"}
    BY <2>0, <2>a DEF ServiceKnows
  <2>2. /\ \A r \in Ids : r > Serving' => executed'[r] = 0
        /\ executed'[Serving'] = IF bpc' \in {"taken", "fetched"} THEN 0 ELSE 1
    BY DEF ServiceKnows, Serving, Cur
  <2>3. /\ bpc' \in {"dispatched", "responded"} => payload'[Cur'] = Res(breq')
        /\ bpc' # "responded" => status'[Cur'] # 2
    BY DEF ServiceKnows, Cur
  <2>4. Over(Serving)' /\ (bpc' = "responded" => status'[Cur'] = 2) => returned'[Serving'] = Timeout
    BY <2>0, <2>a, <2>b DEF ServiceKnows
  <2> QED BY <2>1, <2>2, <2>3, <2>4 DEF ServiceKnows
<1>5. OwnAnswer' /\ AtMostOnce' /\ AnsweredWasExecuted'
  BY DEF OwnAnswer, AtMostOnce, AnsweredWasExecuted, CallKnows
<1>6. LeftoverTimedOut' /\ \A s \in Index : status'[s] = 2 => payload'[s].id \in Ids
  BY Apart DEF LeftoverTimedOut, CallKnows, ServiceKnows, TypeOK, Serving, Over, Cur, Ids, Req, Res, None, Timeout
<1> QED BY <1>1, <1>2, <1>3, <1>4, <1>5, <1>6

(* A slot that says request is the one of the call that waits. *)
LEMMA PollInv == IInv /\ Poll => IInv'
<1> SUFFICES ASSUME IInv, Poll PROVE IInv'
  OBVIOUS
<1>1. TypeOK'
  BY TypeStep DEF IInv, Next, KernelStep, BridgeStep
<1> USE DEF IInv, Poll, kernel
<1>2. stall' <= MaxStall
  OBVIOUS
<1>3. CallKnows'
  BY DEF CallKnows, InSlot
<1>4. ServiceKnows'
  <2> SUFFICES ASSUME bpc' # "poll" PROVE ServiceKnows'
    OBVIOUS
  <2>1. Cur \in Index /\ Cur = kslot /\ kpc \in {"posted", "asleep", "timedout"} /\ InSlot
    BY SlotOf DEF CallKnows, TypeOK, Cur
  <2>2. payload[Cur] = Req(kid) /\ executed[kid] = 0 /\ kid \in Ids /\ kid \in Nat /\ Cur = (kid - 1) % RingSlots
    BY <2>1 DEF InSlot, CallKnows, TypeOK, Ids
  <2>3. Serving' = kid /\ Cur' = Cur /\ bpc' = "taken" /\ stall' = 0
    BY <2>2 DEF Serving, Cur, Req
  <2>4. \A r \in Ids : r > kid => executed[r] = 0
    BY DEF CallKnows
  <2>5. kid - kid + (IF kpc \in {"idle", "timedout"} THEN 1 ELSE 0) <= 0 + 1
    BY <2>2
  <2>6. ~Over(kid)
    BY <2>1, <2>2 DEF Over
  <2> QED BY <2>1, <2>2, <2>3, <2>4, <2>5, <2>6 DEF ServiceKnows, Over
<1>5. OwnAnswer' /\ AtMostOnce' /\ AnsweredWasExecuted'
  BY DEF OwnAnswer, AtMostOnce, AnsweredWasExecuted
<1>6. LeftoverTimedOut' /\ \A s \in Index : status'[s] = 2 => payload'[s].id \in Ids
  BY Apart DEF LeftoverTimedOut, CallKnows, ServiceKnows, TypeOK, Serving, Over, Cur, Ids, Req, Res, None, Timeout
<1> QED BY <1>1, <1>2, <1>3, <1>4, <1>5, <1>6

(* The request the bridge loads is the one it was taken for. *)
LEMMA FetchInv == IInv /\ Fetch => IInv'
<1> SUFFICES ASSUME IInv, Fetch PROVE IInv'
  OBVIOUS
<1>1. TypeOK'
  BY TypeStep DEF IInv, Next, KernelStep, BridgeStep
<1> USE DEF IInv, Fetch, kernel
<1>2. stall' <= MaxStall
  OBVIOUS
<1>3. CallKnows'
  BY DEF CallKnows, InSlot
<1>4. ServiceKnows'
  <2> SUFFICES ASSUME bpc' # "poll" PROVE ServiceKnows'
    OBVIOUS
  <2>1. /\ Serving' \in Ids /\ Serving' <= kid' /\ Cur' = (Serving' - 1) % RingSlots
        /\ kid' - Serving' + (IF kpc' \in {"idle", "timedout"} THEN 1 ELSE 0) <= stall' + 1
        /\ kid' = Serving' => kpc' \notin {"claimed", "filled"}
    BY DEF ServiceKnows, Serving, Cur
  <2>2. /\ \A r \in Ids : r > Serving' => executed'[r] = 0
        /\ executed'[Serving'] = IF bpc' \in {"taken", "fetched"} THEN 0 ELSE 1
    BY DEF ServiceKnows, Serving
  <2>3. /\ bpc' \in {"dispatched", "responded"} => payload'[Cur'] = Res(breq')
        /\ bpc' # "responded" => status'[Cur'] # 2
    BY DEF ServiceKnows, Cur
  <2>4. Over(Serving)' /\ (bpc' = "responded" => status'[Cur'] = 2) => returned'[Serving'] = Timeout
    BY Apart DEF ServiceKnows, CallKnows, TypeOK, Serving, Over, Cur, Ids, InSlot
  <2> QED BY <2>1, <2>2, <2>3, <2>4 DEF ServiceKnows
<1>5. OwnAnswer' /\ AtMostOnce' /\ AnsweredWasExecuted'
  BY DEF OwnAnswer, AtMostOnce, AnsweredWasExecuted
<1>6. LeftoverTimedOut' /\ \A s \in Index : status'[s] = 2 => payload'[s].id \in Ids
  BY Apart DEF LeftoverTimedOut, CallKnows, ServiceKnows, TypeOK, Serving, Over, Cur, Ids, Req, Res, None, Timeout
<1> QED BY <1>1, <1>2, <1>3, <1>4, <1>5, <1>6

(* The request is executed for the first time and its result replaces it in its own slot. *)
LEMMA DispatchInv == IInv /\ Dispatch => IInv'
<1> SUFFICES ASSUME IInv, Dispatch PROVE IInv'
  OBVIOUS
<1>1. TypeOK'
  BY TypeStep DEF IInv, Next, KernelStep, BridgeStep
<1> USE DEF IInv, Dispatch, kernel
<1>2. stall' <= MaxStall
  OBVIOUS
<1>3. CallKnows'
  BY Apart DEF CallKnows, TypeOK, InSlot, ServiceKnows, Serving
<1>4. ServiceKnows'
  <2> SUFFICES ASSUME bpc' # "poll" PROVE ServiceKnows'
    OBVIOUS
  <2>1. /\ Serving' \in Ids /\ Serving' <= kid' /\ Cur' = (Serving' - 1) % RingSlots
        /\ kid' - Serving' + (IF kpc' \in {"idle", "timedout"} THEN 1 ELSE 0) <= stall' + 1
        /\ kid' = Serving' => kpc' \notin {"claimed", "filled"}
    BY DEF ServiceKnows, Serving, Cur
  <2>2. /\ \A r \in Ids : r > Serving' => executed'[r] = 0
        /\ executed'[Serving'] = IF bpc' \in {"taken", "fetched"} THEN 0 ELSE 1
    BY DEF ServiceKnows, TypeOK, Serving
  <2>3. /\ bpc' \in {"dispatched", "responded"} => payload'[Cur'] = Res(breq')
        /\ bpc' # "responded" => status'[Cur'] # 2
    <3>1. Cur \in Index /\ Cur' = Cur
      BY SlotOf DEF Cur, TypeOK
    <3> QED BY <3>1 DEF ServiceKnows, TypeOK
  <2>4. Over(Serving)' /\ (bpc' = "responded" => status'[Cur'] = 2) => returned'[Serving'] = Timeout
    BY Apart DEF ServiceKnows, CallKnows, TypeOK, Serving, Over, Cur, Ids, InSlot
  <2> QED BY <2>1, <2>2, <2>3, <2>4 DEF ServiceKnows
<1>5. OwnAnswer' /\ AtMostOnce' /\ AnsweredWasExecuted'
  BY DEF OwnAnswer, AtMostOnce, AnsweredWasExecuted, ServiceKnows, Serving
<1>6. LeftoverTimedOut' /\ \A s \in Index : status'[s] = 2 => payload'[s].id \in Ids
  BY Apart DEF LeftoverTimedOut, CallKnows, ServiceKnows, TypeOK, Serving, Over, Cur, Ids, Req, Res, None, Timeout
<1> QED BY <1>1, <1>2, <1>3, <1>4, <1>5, <1>6

(* A response is seen by the call it answers, or lies in a slot of a call that timed out. *)
LEMMA RespondInv == IInv /\ Respond => IInv'
<1> SUFFICES ASSUME IInv, Respond PROVE IInv'
  OBVIOUS
<1>1. TypeOK'
  BY TypeStep DEF IInv, Next, KernelStep, BridgeStep
<1> USE DEF IInv, Respond, kernel
<1>2. stall' <= MaxStall
  OBVIOUS
<1>3. CallKnows'
  BY DEF CallKnows, TypeOK, InSlot, Req, Res, ServiceKnows, Serving
<1>4. ServiceKnows'
  <2> SUFFICES ASSUME bpc' # "poll" PROVE ServiceKnows'
    OBVIOUS
  <2>1. /\ Serving' \in Ids /\ Serving' <= kid' /\ Cur' = (Serving' - 1) % RingSlots
        /\ kid' - Serving' + (IF kpc' \in {"idle", "timedout"} THEN 1 ELSE 0) <= stall' + 1
        /\ kid' = Serving' => kpc' \notin {"claimed", "filled"}
    BY DEF ServiceKnows, Serving, Cur
  <2>2. /\ \A r \in Ids : r > Serving' => executed'[r] = 0
        /\ executed'[Serving'] = IF bpc' \in {"taken", "fetched"} THEN 0 ELSE 1
    BY DEF ServiceKnows, Serving
  <2>3. /\ bpc' \in {"dispatched", "responded"} => payload'[Cur'] = Res(breq')
        /\ bpc' # "responded" => status'[Cur'] # 2
    BY DEF ServiceKnows, Cur
  <2>4. Over(Serving)' /\ (bpc' = "responded" => status'[Cur'] = 2) => returned'[Serving'] = Timeout
    BY Apart DEF ServiceKnows, CallKnows, TypeOK, Serving, Over, Cur, Ids, InSlot
  <2> QED BY <2>1, <2>2, <2>3, <2>4 DEF ServiceKnows
<1>5. OwnAnswer' /\ AtMostOnce' /\ AnsweredWasExecuted'
  BY DEF OwnAnswer, AtMostOnce, AnsweredWasExecuted
<1>6. LeftoverTimedOut' /\ \A s \in Index : status'[s] = 2 => payload'[s].id \in Ids
  BY Apart DEF LeftoverTimedOut, CallKnows, ServiceKnows, TypeOK, Serving, Over, Cur, Ids, Req, Res, None, Timeout
<1> QED BY <1>1, <1>2, <1>3, <1>4, <1>5, <1>6

(* When the bridge goes on, a response left behind belongs to a call that timed out. *)
LEMMA AdvanceInv == IInv /\ Advance => IInv'
<1> SUFFICES ASSUME IInv, Advance PROVE IInv'
  OBVIOUS
<1>1. TypeOK'
  BY TypeStep DEF IInv, Next, KernelStep, BridgeStep
<1> USE DEF IInv, Advance, kernel
<1>2. stall' <= MaxStall
  OBVIOUS
<1>3. CallKnows'
  BY DEF CallKnows, InSlot
<1>4. ServiceKnows'
  <2> SUFFICES ASSUME bpc' # "poll" PROVE ServiceKnows'
    BY DEF ServiceKnows
  <2>1. /\ Serving' \in Ids /\ Serving' <= kid' /\ Cur' = (Serving' - 1) % RingSlots
        /\ kid' - Serving' + (IF kpc' \in {"idle", "timedout"} THEN 1 ELSE 0) <= stall' + 1
        /\ kid' = Serving' => kpc' \notin {"claimed", "filled"}
    OBVIOUS
  <2>2. /\ \A r \in Ids : r > Serving' => executed'[r] = 0
        /\ executed'[Serving'] = IF bpc' \in {"taken", "fetched"} THEN 0 ELSE 1
    OBVIOUS
  <2>3. /\ bpc' \in {"dispatched", "responded"} => payload'[Cur'] = Res(breq')
        /\ bpc' # "responded" => status'[Cur'] # 2
    OBVIOUS
  <2>4. Over(Serving)' /\ (bpc' = "responded" => status'[Cur'] = 2) => returned'[Serving'] = Timeout
    OBVIOUS
  <2> QED BY <2>1, <2>2, <2>3, <2>4
<1>5. OwnAnswer' /\ AtMostOnce' /\ AnsweredWasExecuted'
  BY DEF OwnAnswer, AtMostOnce, AnsweredWasExecuted
<1>6. LeftoverTimedOut' /\ \A s \in Index : status'[s] = 2 => payload'[s].id \in Ids
  BY Apart DEF LeftoverTimedOut, CallKnows, ServiceKnows, TypeOK, Serving, Over, Cur, Ids, Req, Res, None, Timeout
<1> QED BY <1>1, <1>2, <1>3, <1>4, <1>5, <1>6

(* The invariant behind every property of the ring: what lies in a slot,    *)
(* which call it belongs to, and that the kernel is less than a round ahead *)
(* of the bridge.                                                           *)
THEOREM Inductive == Spec => []IInv
<1>1. IInv /\ [Next]_vars => IInv'
  <2> SUFFICES ASSUME IInv, [Next]_vars PROVE IInv'
    OBVIOUS
  <2>1. CASE Next
    BY <2>1, ClaimInv, FillInv, PostInv, WaitInv, TimedOutInv, AbandonInv, ReadAnswerInv,
       ReleaseInv, PollInv, FetchInv, DispatchInv, RespondInv, AdvanceInv
       DEF Next, KernelStep, BridgeStep
  <2>2. CASE UNCHANGED vars
    BY <2>2 DEF vars, kernel, IInv, TypeOK, CallKnows, ServiceKnows, InSlot, Serving, Over, Cur,
       OwnAnswer, AtMostOnce, AnsweredWasExecuted, LeftoverTimedOut
  <2> QED BY <2>1, <2>2
<1> QED BY <1>1, InitInv, PTL DEF Spec

(* A call returns its own answer or a timeout, through late responses and   *)
(* any number of rounds of the ring.                                        *)
THEOREM OwnAnswerCorrect == Spec => []OwnAnswer
<1>1. IInv => OwnAnswer
  BY DEF IInv
<1> QED BY <1>1, Inductive, PTL

(* No request is dispatched twice, and an answer that was returned was      *)
(* computed once.                                                           *)
THEOREM ExecutionsCorrect == Spec => [](AtMostOnce /\ AnsweredWasExecuted)
<1>1. IInv => AtMostOnce /\ AnsweredWasExecuted
  BY DEF IInv
<1> QED BY <1>1, Inductive, PTL

(* A response left in a slot belongs to a call that timed out while the     *)
(* bridge was executing it.                                                 *)
THEOREM LeftoverCorrect == Spec => []LeftoverTimedOut
<1>1. IInv => LeftoverTimedOut
  BY DEF IInv
<1> QED BY <1>1, Inductive, PTL

(* The bridge dispatches the requests in the order the kernel made them.    *)
THEOREM DispatchInOrderCorrect == Spec => DispatchInOrder
<1>1. IInv /\ [Next]_vars =>
        [bpc = "fetched" /\ bpc' = "dispatched" => \A r \in Ids : r > breq => executed[r] = 0]_vars
  BY DEF IInv, ServiceKnows, Serving
<1> QED BY <1>1, Inductive, PTL DEF Spec, DispatchInOrder

-----------------------------------------------------------------------------
(* The terminal input ring. *)
USE SizeAssumption, InputAssumption

(* Positions less than a round apart have different slots. *)
LEMMA InputApart ==
    ASSUME NEW a \in Nat, NEW b \in Nat, a < b, b - a < Size
    PROVE  a % Size # b % Size
<1> SUFFICES ASSUME a % Size = b % Size PROVE FALSE
  OBVIOUS
<1> DEFINE i == a \div Size
           j == b \div Size
<1>1. /\ i \in Nat /\ a = Size * i + (a % Size)
      /\ j \in Nat /\ b = Size * j + (b % Size)
  BY SMT
<1>2. b - a = Size * (j - i)
  BY <1>1, SMT
<1>3. Size * (j - i) < Size /\ Size * (j - i) > 0
  BY <1>2, SMT
<1>4. j - i <= 0 \/ j - i >= 1
  BY <1>1
<1> QED BY <1>1, <1>3, <1>4, SMT

(* A position names a slot. *)
LEMMA InputSlotOf == ASSUME NEW a \in Nat PROVE a % Size \in 0 .. Size - 1
OBVIOUS

(* An appended byte continues the bytes read so far. *)
LEMMA ReadOn ==
    ASSUME NEW n \in Nat
    PROVE  Append([k \in 1 .. n |-> k], n + 1) = [k \in 1 .. n + 1 |-> k]
<1> DEFINE s == [k \in 1 .. n |-> k]
<1>1. s \in Seq(Nat) /\ Len(s) = n
  OBVIOUS
<1>2. /\ DOMAIN Append(s, n + 1) = 1 .. n + 1
      /\ \A k \in 1 .. n + 1 : Append(s, n + 1)[k] = k
  BY <1>1
<1> QED BY <1>1, <1>2

(* The page stores a byte: into a slot no unread byte is in, or the ring is *)
(* overrun from now on.                                                     *)
LEMMA StoreStep == ASSUME InputSound, StoreByte PROVE InputSound'
<1> USE DEF InputSound, StoreByte, termRead
<1>1. StdinTypeOK'
  <2>1. slots' \in [0 .. Size - 1 -> Nat]
    <3>1. slots \in [0 .. Size - 1 -> Nat] /\ wpos + 1 \in Nat
      BY DEF StdinTypeOK
    <3>2. slots' = [slots EXCEPT ![wpos % Size] = wpos + 1]
      OBVIOUS
    <3> QED BY <3>1, <3>2, Zenon
  <2>2. overrun' \in BOOLEAN
    BY Zenon
  <2> QED BY <2>1, <2>2 DEF StdinTypeOK
<1>2. CountKnows' /\ ReadKnows' /\ rpos' <= wpos' /\ (~overrun' => consumed' = [k \in 1 .. rpos' |-> k])
  BY DEF CountKnows, ReadKnows, StdinTypeOK
<1>3. RingHolds'
  <2> SUFFICES ASSUME ~overrun'
               PROVE  /\ wpos - rpos < Size /\ slots'[wpos % Size] = wpos + 1
                      /\ \A k \in rpos + 1 .. wpos : slots'[(k - 1) % Size] = k
    BY DEF RingHolds, StdinTypeOK
  <2>1. ~overrun /\ wpos - rpos < Size
    <3>1. ~overrun /\ ~(wpos - rpos >= Size)
      BY Zenon
    <3> QED BY <3>1 DEF StdinTypeOK
  <2>2. slots'[wpos % Size] = wpos + 1
    BY InputSlotOf DEF StdinTypeOK
  <2>3. ASSUME NEW k \in rpos + 1 .. wpos PROVE slots'[(k - 1) % Size] = k
    <3> DEFINE a == k - 1
    <3>1. a \in Nat /\ a < wpos /\ wpos - a < Size
      BY <2>1 DEF StdinTypeOK
    <3>2. a % Size # wpos % Size /\ a % Size \in 0 .. Size - 1
      BY <3>1, InputApart, InputSlotOf DEF StdinTypeOK
    <3>3. slots[a % Size] = k
      BY <2>1 DEF RingHolds
    <3> QED BY <3>2, <3>3 DEF StdinTypeOK
  <2> QED BY <2>1, <2>2, <2>3
<1> QED BY <1>1, <1>2, <1>3

(* The reader copies a byte that the count promised: it lies in its slot. *)
LEMMA CopyStep == ASSUME InputSound, CopyByte PROVE InputSound'
<1> USE DEF InputSound, CopyByte, page
<1>1. rpos < wpos
  BY DEF CountKnows, ReadKnows, StdinTypeOK
<1>2. slots[rpos % Size] \in Nat
  BY InputSlotOf DEF StdinTypeOK
<1>3. StdinTypeOK'
  BY <1>2 DEF StdinTypeOK
<1>4. CountKnows' /\ ReadKnows' /\ rpos' <= wpos'
  BY <1>1 DEF CountKnows, ReadKnows, StdinTypeOK
<1>5. RingHolds'
  BY DEF RingHolds, StdinTypeOK
<1>6. ~overrun' => consumed' = [k \in 1 .. rpos' |-> k]
  <2> SUFFICES ASSUME ~overrun PROVE consumed' = [k \in 1 .. rpos' |-> k]
    OBVIOUS
  <2>1. rpos + 1 \in rpos + 1 .. wpos /\ (rpos + 1) - 1 = rpos
    BY <1>1 DEF StdinTypeOK
  <2>2. slots[rpos % Size] = rpos + 1
    BY <2>1 DEF RingHolds
  <2> QED BY <2>2, ReadOn DEF StdinTypeOK
<1> QED BY <1>3, <1>4, <1>5, <1>6

(* The other steps change a control word or a program point. *)
LEMMA OtherSteps ==
    ASSUME InputSound, [StdinNext]_stdin, ~StoreByte, ~CopyByte
    PROVE  InputSound'
<1> USE DEF InputSound, StdinTypeOK, CountKnows, ReadKnows, RingHolds, page, termRead
<1>1. CASE \E n \in 1 .. MaxTyped : Type(n)
  BY <1>1 DEF Type
<1>2. CASE AdvanceWrite
  <2> USE <1>2 DEF AdvanceWrite
  <2>1. StdinTypeOK'
    OBVIOUS
  <2>2. CountKnows' /\ ReadKnows' /\ rpos' <= wpos' /\ (~overrun' => consumed' = [k \in 1 .. rpos' |-> k])
    OBVIOUS
  <2>3. RingHolds'
    <3> SUFFICES ASSUME ~overrun
                 PROVE  wpos' - rpos <= Size /\ \A k \in rpos + 1 .. wpos' : slots[(k - 1) % Size] = k
      OBVIOUS
    <3>1. /\ wpos - rpos < Size /\ slots[wpos % Size] = wpos + 1
          /\ \A k \in rpos + 1 .. wpos : slots[(k - 1) % Size] = k
      OBVIOUS
    <3>2. ASSUME NEW k \in rpos + 1 .. wpos' PROVE k \in rpos + 1 .. wpos \/ k - 1 = wpos
      OBVIOUS
    <3> QED BY <3>1, <3>2
  <2> QED BY <2>1, <2>2, <2>3
<1>3. CASE AddCount
  BY <1>3 DEF AddCount
<1>4. CASE WakeReader
  BY <1>4 DEF WakeReader
<1>5. CASE \E n \in Lens : BeginTermRead(n)
  BY <1>5 DEF BeginTermRead
<1>6. CASE Check
  BY <1>6 DEF Check
<1>7. CASE Enter
  BY <1>7 DEF Enter
<1>8. CASE WaitOver
  BY <1>8 DEF WaitOver
<1>9. CASE Loop
  BY <1>9 DEF Loop
<1>10. CASE LoadCount
  BY <1>10 DEF LoadCount
<1>11. CASE StoreCount
  BY <1>11 DEF StoreCount
<1>12. CASE UNCHANGED stdin
  BY <1>12 DEF stdin
<1> QED BY <1>1, <1>2, <1>3, <1>4, <1>5, <1>6, <1>7, <1>8, <1>9, <1>10, <1>11, <1>12
        DEF StdinNext, PageStep, ReadStep

(* term_read gets what writeStdin wrote, in order, each byte once and none  *)
(* before it was stored, unless the page runs a round ahead, for every size *)
(* of the ring and whatever additions the count loses.                      *)
THEOREM InputCorrect == StdinSpec => []InputSound
<1>1. StdinInit => InputSound
  <2> SUFFICES ASSUME StdinInit PROVE InputSound
    OBVIOUS
  <2>1. StdinTypeOK
    <3>1. slots \in [0 .. Size - 1 -> Nat]
      BY DEF StdinInit
    <3>2. consumed \in Seq(Nat)
      BY DEF StdinInit
    <3>3. waited \in 0 .. MaxWait /\ len \in Lens \cup {0} /\ 0 \in Nat
      BY DEF StdinInit
    <3>4. overrun \in BOOLEAN /\ ppc \notin {"store", "advance", "count"}
      BY DEF StdinInit
    <3> QED BY <3>1, <3>2, <3>3, <3>4, Zenon DEF StdinInit, StdinTypeOK
  <2>2. consumed = [k \in 1 .. rpos |-> k]
    BY DEF StdinInit
  <2> QED BY <2>1, <2>2 DEF StdinInit, InputSound, CountKnows, ReadKnows, RingHolds
<1>2. InputSound /\ [StdinNext]_stdin => InputSound'
  BY StoreStep, CopyStep, OtherSteps
<1> QED BY <1>1, <1>2, PTL DEF StdinSpec
=============================================================================
