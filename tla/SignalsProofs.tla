----------------------------- MODULE SignalsProofs -----------------------------
(***************************************************************************)
(* Proofs about Signals, for any number of signals, dispositions, masks    *)
(* and calls and every guest: no deliverable signal is left without        *)
(* attention; handlers return to the registers and the mask they           *)
(* interrupted, until one has started in a delicate place.                 *)
(***************************************************************************)
EXTENDS Signals, FiniteSetTheorems, SequenceTheorems, TLAPS

Fields == {"signals", "sigmask", "attention", "restored", "interrupted", "hands", "cpu", "frame", "calls", "ended",
           "ctx", "skipped", "orderly"}
Answers == {"ok", "eintr", "fail"}
Cpus == [sig : 0 .. NumSignals, stack : {"main", "alt"}, depth : Nat, ax : Answers]
Contexts == [cpu : Cpus, sigmask : SUBSET Sigs]
Waits == {"sigsuspend", "ppoll", "pause"}
WaitCalls == [kind : Waits, oldmask : SUBSET Sigs]
Calls == [kind : {"sigprocmask"}] \cup WaitCalls

(* A record of Signals but for its history, and frames where handlers expect them. *)
At(c) == <<c.stack, c.depth>>
Placed(c, f) == c.sig # 0 => At(c) \in DOMAIN f
FramesOK(f) == \A p \in DOMAIN f : f[p] \in Contexts /\ Placed(f[p].cpu, f)
Base(s) ==
    /\ DOMAIN s = Fields
    /\ s.signals \subseteq Sigs /\ s.sigmask \subseteq Sigs /\ s.hands \in [Sigs -> Hands]
    /\ s.attention \in BOOLEAN /\ s.restored \in BOOLEAN /\ s.interrupted \in BOOLEAN
    /\ s.ended \in BOOLEAN /\ s.skipped \in BOOLEAN /\ s.orderly \in BOOLEAN
    /\ s.cpu \in Cpus /\ s.calls \in Seq(Calls)
    /\ FramesOK(s.frame) /\ Placed(s.cpu, s.frame)

(* The contexts below the running one: on the main stack, each saved in the frame of the *)
(* handler above it.  A handler on the alternate stack is the last.                      *)
Top(q) == q[Len(q)]
Place(c) == <<c.sig, c.stack, c.depth>>
Bottoms(q) ==
    \A i \in 1 .. Len(q) - 1 : q[i].cpu.stack = "main" /\ q[i].cpu.depth = i - 1 /\ (q[i].cpu.sig = 0 <=> i = 1)
Saved(q, f) == \A i \in 2 .. Len(q) - 1 : <<"main", i - 1>> \in DOMAIN f /\ f[<<"main", i - 1>>].cpu = q[i - 1].cpu
StackOK(s) ==
    /\ s.ctx \in Seq(Contexts) /\ Len(s.ctx) >= 1
    /\ Bottoms(s.ctx) /\ Saved(s.ctx, s.frame)
    /\ Place(s.cpu) = Place(Top(s.ctx).cpu) /\ (s.cpu.sig = 0 <=> Len(s.ctx) = 1)
    /\ Len(s.ctx) >= 2 => Here(s) \in DOMAIN s.frame /\ s.frame[Here(s)].cpu = s.ctx[Len(s.ctx) - 1].cpu
    /\ \/ s.cpu.stack = "main" /\ s.cpu.depth = Len(s.ctx) - 1
       \/ s.cpu.stack = "alt" /\ s.cpu.depth = 1 /\ Len(s.ctx) >= 2

(* The masks: a frame holds the mask of the context below, but for the frame of a handler *)
(* that a call with a temporary mask waits for: that call holds it instead.               *)
TopMask(s) == s.sigmask = Top(s.ctx).sigmask
FrameMasks(s) == \A i \in 2 .. Len(s.ctx) - 1 : s.frame[<<"main", i - 1>>].sigmask = s.ctx[i - 1].sigmask
LastMask(s) == Len(s.ctx) >= 2 => s.frame[Here(s)].sigmask = s.ctx[Len(s.ctx) - 1].sigmask
Settled(s) == StackOK(s) /\ FrameMasks(s) /\ LastMask(s) /\ TopMask(s)

Inside(s) == s.calls # <<>>
Loops(q, n) == \A i \in 1 .. n : q[i].kind = "sigprocmask"
Free(s) == Loops(s.calls, Len(s.calls)) /\ Settled(s)
Awaits(s) ==
    /\ Inside(s) /\ Loops(s.calls, Len(s.calls) - 1) /\ Top(s.calls) \in WaitCalls
    /\ StackOK(s) /\ FrameMasks(s) /\ TopMask(s) /\ Len(s.ctx) >= 2
    /\ Top(s.calls).oldmask = s.ctx[Len(s.ctx) - 1].sigmask
    /\ Top(s.calls).kind = "pause" => LastMask(s)

(* An orderly thread: it waits for no handler with a mask of its own, or for the last one. *)
IInv(s) == Base(s) /\ (Inside(s) => ~s.restored) /\ (Free(s) \/ Awaits(s))

AttentionOK(s) ==
    ~s.ended /\ s.calls = <<>> /\ s.cpu.sig = 0 /\ Pending(s) # {} => s.attention \/ s.skipped

-----------------------------------------------------------------------------
LEMMA PutAxEffect ==
  ASSUME NEW s, NEW v, NEW t, t = PutAx(s, v), Base(s), v \in Answers
  PROVE  /\ Base(t)
         /\ t.cpu.sig = s.cpu.sig /\ t.cpu.stack = s.cpu.stack /\ t.cpu.depth = s.cpu.depth
         /\ t.signals = s.signals /\ t.sigmask = s.sigmask /\ t.hands = s.hands /\ t.frame = s.frame
         /\ t.attention = s.attention /\ t.restored = s.restored /\ t.interrupted = s.interrupted
         /\ t.calls = s.calls /\ t.ended = s.ended /\ t.ctx = s.ctx /\ t.skipped = s.skipped /\ t.orderly = s.orderly
<1>1. /\ DOMAIN t = Fields /\ t.cpu = [s.cpu EXCEPT !.ax = v]
      /\ t.signals = s.signals /\ t.sigmask = s.sigmask /\ t.hands = s.hands /\ t.frame = s.frame
      /\ t.attention = s.attention /\ t.restored = s.restored /\ t.interrupted = s.interrupted
      /\ t.calls = s.calls /\ t.ended = s.ended /\ t.ctx = s.ctx /\ t.skipped = s.skipped /\ t.orderly = s.orderly
  BY DEF PutAx, Base, Fields
<1>2. t.cpu \in Cpus /\ t.cpu.sig = s.cpu.sig /\ t.cpu.stack = s.cpu.stack /\ t.cpu.depth = s.cpu.depth
  BY <1>1 DEF Base, Cpus
<1> QED
  BY <1>1, <1>2 DEF Base, Placed, At

LEMMA DeliverEffect ==
  ASSUME NEW s, Base(s), NEW sig \in Sigs, NEW t, t = DeliverSignal(s, sig),
         NEW h, h = s.hands[sig], NEW p, p = FramePosition(s, h)
  PROVE  /\ Base(t) /\ t.cpu.sig = sig /\ t.cpu.sig # 0 /\ At(t.cpu) = p /\ t.cpu.stack = p[1] /\ t.cpu.depth = p[2]
         /\ t.sigmask = s.sigmask \cup h.mask \cup (IF h.nodefer THEN {} ELSE {sig})
         /\ t.frame = With(s.frame, p, Context(s.cpu, s.sigmask))
         /\ t.ctx = Append(Replaced(s.ctx, Context(s.cpu, s.ctx[Len(s.ctx)].sigmask)), Context(t.cpu, t.sigmask))
         /\ t.signals = s.signals /\ t.hands = s.hands
         /\ t.attention = s.attention /\ t.restored = s.restored /\ t.interrupted = s.interrupted
         /\ t.calls = s.calls /\ t.ended = s.ended /\ t.skipped = s.skipped /\ t.orderly = (s.orderly /\ ~Delicate(s))
<1> DEFINE cpu == [s.cpu EXCEPT !.sig = sig, !.stack = p[1], !.depth = p[2]]
           f == With(s.frame, p, Context(s.cpu, s.sigmask))
<1>1. /\ DOMAIN t = Fields /\ t.cpu = cpu
      /\ t.sigmask = s.sigmask \cup h.mask \cup (IF h.nodefer THEN {} ELSE {sig})
      /\ t.frame = f
      /\ t.signals = s.signals /\ t.hands = s.hands
      /\ t.attention = s.attention /\ t.restored = s.restored /\ t.interrupted = s.interrupted
      /\ t.calls = s.calls /\ t.ended = s.ended /\ t.skipped = s.skipped /\ t.orderly = (s.orderly /\ ~Delicate(s))
  BY DEF DeliverSignal, Base, Fields, MaskInHandler
<1>2. t.ctx = Append(Replaced(s.ctx, Context(s.cpu, s.ctx[Len(s.ctx)].sigmask)), Context(t.cpu, t.sigmask))
  BY <1>1 DEF DeliverSignal, Base, Fields, MaskInHandler
<1>3. h \in Hands /\ h.mask \subseteq Sigs /\ sig \in 0 .. NumSignals /\ sig # 0
  BY SignalBounds DEF Base, Sigs
<1>4. p = <<p[1], p[2]>> /\ p[1] \in {"main", "alt"} /\ p[2] \in Nat
  BY DEF FramePosition, Base, Cpus
<1>5. cpu \in Cpus /\ cpu.sig = sig /\ cpu.stack = p[1] /\ cpu.depth = p[2]
  BY <1>3, <1>4 DEF Base, Cpus
<1>6. Context(s.cpu, s.sigmask) \in Contexts /\ Context(s.cpu, s.sigmask).cpu = s.cpu
  BY DEF Base, Context, Contexts
<1>7. DOMAIN f = DOMAIN s.frame \cup {p} /\ f[p] = Context(s.cpu, s.sigmask) /\ \A q \in DOMAIN f : q # p => f[q] = s.frame[q]
  BY DEF With
<1>8. FramesOK(f)
  BY <1>6, <1>7 DEF FramesOK, Base, Placed
<1>9. At(cpu) = p /\ Placed(cpu, f)
  BY <1>4, <1>5, <1>7 DEF At, Placed
<1>10. t.sigmask \subseteq Sigs
  BY <1>1, <1>3 DEF Base
<1>11. Base(t)
  BY <1>1, <1>5, <1>8, <1>9, <1>10 DEF Base
<1> QED
  BY <1>1, <1>2, <1>3, <1>5, <1>9, <1>11

\* Where no place is delicate, no C function waits with a mask of its own.
LEMMA NotDelicate ==
  ASSUME NEW s, Base(s), ~Delicate(s)
  PROVE  s.cpu.stack = "main" /\ ~Awaits(s)
<1>1. s.cpu.stack = "main"
  BY DEF Delicate, Base, Cpus
<1>2. CASE Awaits(s)
  <2>1. Top(s.calls).kind # "sigprocmask" /\ Len(s.calls) \in DOMAIN s.calls
    BY <1>2 DEF Awaits, WaitCalls, Waits, Inside, Base
  <2> QED
    BY <2>1 DEF Delicate, Top
<1> QED
  BY <1>1, <1>2

LEMMA DeliverOrderly ==
  ASSUME NEW s, Base(s), NEW sig \in Sigs, NEW t, t = DeliverSignal(s, sig), t.orderly
  PROVE  s.orderly /\ s.cpu.stack = "main" /\ ~Delicate(s) /\ ~Awaits(s)
<1>1. t.orderly = (s.orderly /\ ~Delicate(s))
  BY DeliverEffect
<1>2. s.orderly /\ ~Delicate(s)
  BY <1>1
<1> QED
  BY <1>2, NotDelicate

LEMMA HighestOf ==
  ASSUME NEW S \in SUBSET Sigs, S # {}
  PROVE  Highest(S) \in S
<1> DEFINE D == {x \in Sigs : \E y \in S : x <= y}
           f == [x \in D |-> x + 1]
<1>1. SUFFICES ASSUME \A x \in S : \E y \in S : ~(y <= x) PROVE FALSE
  BY DEF Highest
<1>2. Sigs \subseteq Nat \ {0} /\ 1 \in D /\ \A x \in D : x + 1 \in D
  <2>1. ASSUME NEW x \in D PROVE x + 1 \in D
    <3>1. PICK y \in S : x <= y
      OBVIOUS
    <3>2. PICK z \in S : ~(z <= y)
      BY <1>1
    <3>3. x \in Int /\ y \in Int /\ z \in Int /\ 1 <= x /\ z <= NumSignals /\ NumSignals \in Int
      BY SignalBounds DEF Sigs
    <3>4. x + 1 <= z /\ x + 1 \in Int /\ 1 <= x + 1 /\ x + 1 <= NumSignals
      BY <3>1, <3>2, <3>3
    <3>5. x + 1 \in Sigs
      BY <3>3, <3>4 DEF Sigs
    <3> QED
      BY <3>4, <3>5
  <2>2. Sigs \subseteq Nat \ {0} /\ 1 \in Sigs /\ \A y \in S : 1 <= y
    BY SignalBounds DEF Sigs
  <2> QED
    BY <2>1, <2>2
<1>3. IsFiniteSet(D)
  <2>1. IsFiniteSet(Sigs)
    BY SignalBounds, FS_Interval DEF Sigs
  <2> QED
    BY <2>1, FS_Subset
<1>4. IsFiniteSet(D \ {1}) /\ Cardinality(D \ {1}) < Cardinality(D)
  <2>1. Cardinality(D) \in Nat /\ Cardinality(D \ {1}) \in Nat /\ Cardinality(D \ {1}) = Cardinality(D) - 1
    BY <1>2, <1>3, FS_RemoveElement, FS_CardinalityType
  <2> QED
    BY <1>3, <2>1, FS_RemoveElement
<1>5. f \in [D -> D \ {1}] /\ \A x \in D : f[x] = x + 1 /\ x \in Nat
  <2>1. \A x \in D : x \in Nat \ {0} /\ x + 1 \in D /\ x + 1 # 1
    BY <1>2
  <2> HIDE DEF D
  <2> QED
    BY <2>1
<1> HIDE DEF D, f
<1>6. \E x, y \in D : x # y /\ f[x] = f[y]
  BY <1>3, <1>4, <1>5, FS_PigeonHole
<1> QED
  BY <1>5, <1>6

LEMMA ResultEffect ==
  ASSUME NEW s, NEW v, NEW t, t = Result(s, v), Base(s), v \in Answers
  PROVE  /\ Base(t) /\ t.cpu.sig = s.cpu.sig /\ t.cpu.stack = s.cpu.stack /\ t.cpu.depth = s.cpu.depth
         /\ t.signals = s.signals /\ t.sigmask = s.sigmask /\ t.hands = s.hands /\ t.frame = s.frame
         /\ t.attention = s.attention /\ t.restored = s.restored /\ t.interrupted = s.interrupted
         /\ t.calls = s.calls /\ t.ended = s.ended /\ t.ctx = s.ctx /\ t.skipped = s.skipped /\ t.orderly = s.orderly
         /\ s.interrupted => t = s
<1>1. CASE s.interrupted \/ s.ended
  BY <1>1 DEF Result
<1>2. CASE ~(s.interrupted \/ s.ended)
  <2>1. t = [s EXCEPT !.cpu.ax = v]
    BY <1>2 DEF Result, PutAx
  <2>2. /\ DOMAIN t = Fields /\ t.cpu = [s.cpu EXCEPT !.ax = v]
        /\ t.signals = s.signals /\ t.sigmask = s.sigmask /\ t.hands = s.hands /\ t.frame = s.frame
        /\ t.attention = s.attention /\ t.restored = s.restored /\ t.interrupted = s.interrupted
        /\ t.calls = s.calls /\ t.ended = s.ended /\ t.ctx = s.ctx /\ t.skipped = s.skipped /\ t.orderly = s.orderly
    BY <2>1 DEF Base, Fields
  <2>3. t.cpu \in Cpus /\ t.cpu.sig = s.cpu.sig /\ t.cpu.stack = s.cpu.stack /\ t.cpu.depth = s.cpu.depth
    BY <2>2 DEF Base, Cpus
  <2>4. Base(t) /\ ~s.interrupted
    BY <1>2, <2>2, <2>3 DEF Base, Placed, At
  <2> QED
    BY <2>2, <2>3, <2>4
<1> QED
  BY <1>1, <1>2

(* What taking a signal does: u is the state without the signal. *)
Delivered(s, u, t, sig) ==
    /\ sig \in Pending(s) /\ Base(u) /\ t = DeliverSignal(u, sig)
    /\ u.signals = s.signals \ {sig} /\ u.cpu = s.cpu /\ u.sigmask = s.sigmask /\ u.hands = s.hands
    /\ u.frame = s.frame /\ u.ctx = s.ctx /\ u.calls = s.calls /\ u.attention = s.attention
    /\ u.restored = s.restored /\ u.interrupted = s.interrupted /\ u.ended = s.ended /\ u.skipped = s.skipped /\ u.orderly = s.orderly
    /\ s.hands[sig].handler = "fn"
NotDelivered(s, t) ==
    /\ t.signals \subseteq s.signals /\ t.cpu = s.cpu /\ t.sigmask = s.sigmask /\ t.frame = s.frame /\ t.ctx = s.ctx
    /\ Pending(t) = {} \/ t.ended \/ t.skipped
    /\ s.ended => t.ended
    /\ s.skipped => t.skipped
    /\ t.orderly = s.orderly

LEMMA ConsumeEffect ==
  ASSUME NEW s, Base(s), NEW c, c = ConsumeSignal(s)
  PROVE  /\ Base(c.s) /\ c.s.hands = s.hands /\ c.s.attention = s.attention /\ c.s.restored = s.restored
         /\ c.s.interrupted = s.interrupted /\ c.s.calls = s.calls /\ (c.s.orderly => s.orderly)
         /\ \/ c.delivered = 0 /\ NotDelivered(s, c.s)
            \/ c.delivered # 0 /\ \E u : Delivered(s, u, c.s, c.delivered)
<1> DEFINE sig == Highest(Pending(s))
           u == [s EXCEPT !.signals = @ \ {sig}]
<1>1. CASE Pending(s) = {}
  <2>1. c.s = s /\ c.delivered = 0
    BY <1>1 DEF ConsumeSignal, Consumed
  <2> QED
    BY <1>1, <2>1 DEF NotDelivered
<1>2. CASE Pending(s) # {}
  <2>1. sig \in Pending(s) /\ sig \in Sigs /\ sig # 0
    <3>1. Pending(s) \in SUBSET Sigs
      BY DEF Pending, Base
    <3>2. sig \in Pending(s)
      BY <1>2, <3>1, HighestOf
    <3> QED
      BY <3>1, <3>2, SignalBounds DEF Sigs
  <2>2. /\ DOMAIN u = Fields /\ u.signals = s.signals \ {sig} /\ u.cpu = s.cpu /\ u.sigmask = s.sigmask
        /\ u.hands = s.hands /\ u.frame = s.frame /\ u.ctx = s.ctx /\ u.calls = s.calls
        /\ u.attention = s.attention /\ u.restored = s.restored /\ u.interrupted = s.interrupted
        /\ u.ended = s.ended /\ u.skipped = s.skipped /\ u.orderly = s.orderly
    BY DEF Base, Fields
  <2>3. Base(u)
    BY <2>2 DEF Base
  <2>4. /\ Fatal(u, sig) <=> Fatal(s, sig)
        /\ Ignored(u, sig) <=> Ignored(s, sig)
        /\ Fatal(s, sig) => ~Ignored(s, sig)
    BY <2>2 DEF Fatal, Ignored
  <2> HIDE DEF u, sig
  <2>5. CASE Fatal(s, sig)
    <3>1. c = Consumed(Terminate(u), 0)
      BY <1>2, <2>4, <2>5 DEF ConsumeSignal, u, sig
    <3>2. c.s = [u EXCEPT !.ended = TRUE] /\ c.delivered = 0
      BY <3>1 DEF Consumed, Terminate
    <3>3. /\ DOMAIN c.s = Fields /\ c.s.signals = u.signals /\ c.s.cpu = u.cpu /\ c.s.sigmask = u.sigmask
          /\ c.s.hands = u.hands /\ c.s.frame = u.frame /\ c.s.ctx = u.ctx /\ c.s.calls = u.calls
          /\ c.s.attention = u.attention /\ c.s.restored = u.restored /\ c.s.interrupted = u.interrupted
          /\ c.s.ended = TRUE /\ c.s.skipped = u.skipped /\ c.s.orderly = u.orderly
      BY <2>2, <3>2 DEF Fields
    <3>4. Base(c.s)
      BY <2>3, <3>3 DEF Base
    <3> QED
      BY <2>2, <3>2, <3>3, <3>4 DEF NotDelivered
  <2>6. CASE ~Fatal(s, sig) /\ Ignored(s, sig)
    <3>1. c = Consumed([u EXCEPT !.skipped = TRUE], 0)
      BY <1>2, <2>6 DEF ConsumeSignal, u, sig
    <3>2. c.s = [u EXCEPT !.skipped = TRUE] /\ c.delivered = 0
      BY <3>1 DEF Consumed
    <3>3. /\ DOMAIN c.s = Fields /\ c.s.signals = u.signals /\ c.s.cpu = u.cpu /\ c.s.sigmask = u.sigmask
          /\ c.s.hands = u.hands /\ c.s.frame = u.frame /\ c.s.ctx = u.ctx /\ c.s.calls = u.calls
          /\ c.s.attention = u.attention /\ c.s.restored = u.restored /\ c.s.interrupted = u.interrupted
          /\ c.s.ended = u.ended /\ c.s.skipped = TRUE /\ c.s.orderly = u.orderly
      BY <2>2, <3>2 DEF Fields
    <3>4. Base(c.s)
      BY <2>3, <3>3 DEF Base
    <3> QED
      BY <2>2, <3>2, <3>3, <3>4 DEF NotDelivered
  <2>7. CASE ~Fatal(s, sig) /\ ~Ignored(s, sig)
    <3>1. c = Consumed(DeliverSignal(u, sig), sig)
      BY <1>2, <2>7 DEF ConsumeSignal, u, sig
    <3>2. c.s = DeliverSignal(u, sig) /\ c.delivered = sig
      BY <3>1 DEF Consumed
    <3>3. s.hands[sig].handler = "fn"
      <4>1. s.hands[sig] \in Hands
        BY <2>1 DEF Base
      <4>2. s.hands[sig].handler \in {"dfl", "ign", "fn"}
        BY <4>1, SignalBounds DEF Handlers
      <4> QED
        BY <2>7, <4>2 DEF Fatal, Ignored
    <3>4. /\ Base(c.s) /\ c.s.hands = u.hands /\ c.s.attention = u.attention /\ c.s.restored = u.restored
          /\ c.s.interrupted = u.interrupted /\ c.s.calls = u.calls
          /\ c.s.orderly = (u.orderly /\ ~Delicate(u))
      BY <2>1, <2>3, <3>2, DeliverEffect
    <3>6. c.s.orderly => s.orderly
      BY <2>2, <3>4
    <3>5. Delivered(s, u, c.s, sig)
      BY <2>1, <2>2, <2>3, <3>2, <3>3 DEF Delivered
    <3> QED
      BY <2>1, <2>2, <3>2, <3>4, <3>5, <3>6
  <2> QED
    BY <2>5, <2>6, <2>7
<1> QED
  BY <1>1, <1>2

-----------------------------------------------------------------------------
(* Attention, for every guest. *)

LEMMA ConsumeAttention ==
  ASSUME NEW s, Base(s), NEW c, c = ConsumeSignal(s)
  PROVE  /\ Base(c.s) /\ AttentionOK(c.s)
         /\ c.delivered # 0 => c.s.cpu.sig # 0
         /\ c.delivered = 0 => NotDelivered(s, c.s)
<1>1. Base(c.s)
  BY ConsumeEffect
<1>2. CASE c.delivered = 0 /\ NotDelivered(s, c.s)
  BY <1>1, <1>2 DEF NotDelivered, AttentionOK
<1>3. ASSUME c.delivered # 0, NEW u, Delivered(s, u, c.s, c.delivered)
      PROVE  c.s.cpu.sig # 0 /\ AttentionOK(c.s)
  <2>1. c.delivered \in Sigs /\ Base(u) /\ c.s = DeliverSignal(u, c.delivered)
    BY <1>3 DEF Delivered, Pending, Base
  <2>2. c.s.cpu.sig # 0
    BY <2>1, DeliverEffect
  <2> QED
    BY <2>2 DEF AttentionOK
<1> QED
  BY <1>1, <1>2, <1>3, ConsumeEffect

LEMMA ClearAttention ==
  ASSUME NEW s, Base(s), NEW t, t = [s EXCEPT !.attention = FALSE]
  PROVE  /\ Base(t) /\ t.cpu = s.cpu /\ t.signals = s.signals /\ t.sigmask = s.sigmask /\ t.frame = s.frame
         /\ t.attention = FALSE /\ t.restored = s.restored /\ t.interrupted = s.interrupted
         /\ t.calls = s.calls /\ t.ended = s.ended /\ t.ctx = s.ctx /\ t.hands = s.hands /\ t.orderly = s.orderly
<1>1. /\ DOMAIN t = Fields /\ t.cpu = s.cpu /\ t.hands = s.hands
      /\ t.signals = s.signals /\ t.sigmask = s.sigmask /\ t.frame = s.frame
      /\ t.attention = FALSE /\ t.restored = s.restored /\ t.interrupted = s.interrupted
      /\ t.calls = s.calls /\ t.ended = s.ended /\ t.ctx = s.ctx /\ t.skipped = s.skipped /\ t.orderly = s.orderly
  BY DEF Base, Fields
<1>2. Base(t)
  BY <1>1 DEF Base
<1> QED
  BY <1>1, <1>2

LEMMA CheckAttention ==
  ASSUME NEW s, Base(s), NEW t, t = CheckForSignals(s)
  PROVE  Base(t) /\ AttentionOK(t) /\ t.calls = s.calls /\ (t.orderly => s.orderly)
<1>1. CASE Pending(s) # {}
  <2>1. t = ConsumeSignal(s).s
    BY <1>1 DEF CheckForSignals
  <2> QED
    BY <2>1, ConsumeAttention, ConsumeEffect
<1>2. CASE Pending(s) = {}
  <2>1. t = [s EXCEPT !.attention = FALSE]
    BY <1>2 DEF CheckForSignals
  <2>2. Base(t) /\ t.signals = s.signals /\ t.sigmask = s.sigmask /\ t.calls = s.calls /\ t.orderly = s.orderly
    BY <2>1, ClearAttention
  <2> QED
    BY <1>2, <2>2 DEF AttentionOK, Pending
<1> QED
  BY <1>1, <1>2

LEMMA AwaitEffect ==
  ASSUME NEW s, NEW call, NEW t, t = Await(s, call), Base(s), call \in Calls
  PROVE  /\ Base(t) /\ ~t.restored
         /\ t.cpu = s.cpu /\ t.signals = s.signals /\ t.sigmask = s.sigmask /\ t.frame = s.frame
         /\ t.attention = s.attention /\ t.interrupted = s.interrupted
         /\ t.ended = s.ended /\ t.ctx = s.ctx /\ t.hands = s.hands /\ t.orderly = s.orderly
         /\ Inside(t)
<1>1. /\ DOMAIN t = Fields /\ t.cpu = s.cpu /\ t.hands = s.hands
      /\ t.signals = s.signals /\ t.sigmask = s.sigmask /\ t.frame = s.frame
      /\ t.attention = s.attention /\ t.restored = FALSE /\ t.interrupted = s.interrupted
      /\ t.calls = Append(s.calls, call) /\ t.ended = s.ended /\ t.ctx = s.ctx /\ t.skipped = s.skipped /\ t.orderly = s.orderly
  BY DEF Base, Fields, Await
<1>2. t.calls \in Seq(Calls) /\ t.calls # <<>>
  <2>1. s.calls \in Seq(Calls)
    BY DEF Base
  <2> QED
    BY <1>1, <2>1
<1>3. Base(t)
  BY <1>1, <1>2 DEF Base
<1> QED
  BY <1>1, <1>2, <1>3 DEF Inside

LEMMA AwaitCalls ==
  ASSUME NEW s, NEW call, NEW t, t = Await(s, call), Base(s), call \in Calls
  PROVE  /\ Top(t.calls) = call /\ Len(t.calls) = Len(s.calls) + 1 /\ Len(s.calls) \in Nat
         /\ \A i \in 1 .. Len(s.calls) : t.calls[i] = s.calls[i]
<1>1. t.calls = Append(s.calls, call) /\ s.calls \in Seq(Calls)
  BY DEF Base, Fields, Await
<1> QED
  BY <1>1 DEF Top

LEMMA LeaveEffect ==
  ASSUME NEW s, NEW t, t = Leave(s), Base(s), Inside(s)
  PROVE  /\ Base(t) /\ ~t.restored
         /\ t.cpu = s.cpu /\ t.signals = s.signals /\ t.sigmask = s.sigmask /\ t.frame = s.frame
         /\ t.attention = s.attention /\ t.interrupted = s.interrupted
         /\ t.ended = s.ended /\ t.ctx = s.ctx /\ t.hands = s.hands /\ t.orderly = s.orderly
         /\ Top(s.calls) \in Calls
<1>1. /\ DOMAIN t = Fields /\ t.cpu = s.cpu /\ t.hands = s.hands
      /\ t.signals = s.signals /\ t.sigmask = s.sigmask /\ t.frame = s.frame
      /\ t.attention = s.attention /\ t.restored = FALSE /\ t.interrupted = s.interrupted
      /\ t.calls = SubSeq(s.calls, 1, Len(s.calls) - 1) /\ t.ended = s.ended /\ t.ctx = s.ctx /\ t.skipped = s.skipped /\ t.orderly = s.orderly
  BY DEF Base, Fields, Leave, AllButLast
<1>2. t.calls \in Seq(Calls) /\ Top(s.calls) \in Calls
  <2>1. s.calls \in Seq(Calls) /\ Len(s.calls) \in Nat /\ Len(s.calls) # 0
    BY DEF Base, Inside
  <2>2. \A i \in 1 .. Len(s.calls) - 1 : s.calls[i] \in Calls
    BY <2>1
  <2>3. SubSeq(s.calls, 1, Len(s.calls) - 1) \in Seq(Calls)
    BY <2>1, <2>2
  <2> QED
    BY <1>1, <2>1, <2>3 DEF Top
<1>3. Base(t)
  BY <1>1, <1>2 DEF Base
<1> QED
  BY <1>1, <1>2, <1>3

LEMMA LeaveCalls ==
  ASSUME NEW s, NEW t, t = Leave(s), Base(s), Inside(s)
  PROVE  /\ Len(t.calls) = Len(s.calls) - 1 /\ Len(s.calls) \in Nat /\ Len(t.calls) \in Nat
         /\ \A i \in 1 .. Len(t.calls) : t.calls[i] = s.calls[i]
<1>1. t.calls = SubSeq(s.calls, 1, Len(s.calls) - 1)
  BY DEF Base, Fields, Leave, AllButLast
<1>2. s.calls \in Seq(Calls) /\ Len(s.calls) \in Nat /\ Len(s.calls) # 0
  BY DEF Base, Inside
<1>3. \A i \in 1 .. Len(s.calls) - 1 : s.calls[i] \in Calls
  BY <1>2
<1>4. /\ Len(SubSeq(s.calls, 1, Len(s.calls) - 1)) = Len(s.calls) - 1
      /\ \A i \in 1 .. Len(s.calls) - 1 : SubSeq(s.calls, 1, Len(s.calls) - 1)[i] = s.calls[i]
  BY <1>2, <1>3
<1> QED
  BY <1>1, <1>2, <1>4

LEMMA LoopAttention ==
  ASSUME NEW s, Base(s), NEW t, t = SigprocmaskLoop(s)
  PROVE  Base(t) /\ AttentionOK(t) /\ Len(t.calls) >= Len(s.calls) /\ (t.orderly => s.orderly)
<1>0. PICK call : call = [kind |-> "sigprocmask"]
  OBVIOUS
<1>1. PICK c : c = ConsumeSignal(s)
  OBVIOUS
<1>2. Base(c.s) /\ AttentionOK(c.s) /\ (c.delivered # 0 => c.s.cpu.sig # 0)
      /\ c.s.calls = s.calls /\ Len(s.calls) \in Nat /\ (c.s.orderly => s.orderly)
  <2>1. Len(s.calls) \in Nat
    BY DEF Base
  <2> QED
    BY <1>1, <2>1, ConsumeAttention, ConsumeEffect
<1>3. CASE c.delivered = 0 \/ ~CanRecurse(s)
  <2>1. t = Result(c.s, "ok") /\ "ok" \in Answers
    BY <1>1, <1>3 DEF SigprocmaskLoop, Answers
  <2>2. /\ Base(t) /\ t.cpu.sig = c.s.cpu.sig /\ t.signals = c.s.signals /\ t.sigmask = c.s.sigmask
        /\ t.attention = c.s.attention /\ t.calls = c.s.calls /\ t.ended = c.s.ended /\ t.skipped = c.s.skipped /\ t.orderly = c.s.orderly
    BY <1>2, <2>1, ResultEffect
  <2> QED
    BY <1>2, <2>2 DEF AttentionOK, Pending
<1>4. CASE ~(c.delivered = 0 \/ ~CanRecurse(s))
  <2>1. t = Await(c.s, call) /\ call \in Calls
    BY <1>0, <1>1, <1>4 DEF SigprocmaskLoop, Calls
  <2>2. Base(c.s) /\ t = Await(c.s, call) /\ call \in Calls
    BY <1>2, <2>1
  <2>3. Base(t) /\ Inside(t) /\ t.orderly = c.s.orderly
    BY ONLY <2>2, AwaitEffect
  <2>4. Len(t.calls) = Len(c.s.calls) + 1
    BY ONLY <2>2, AwaitCalls
  <2>5. Len(t.calls) >= Len(s.calls)
    BY <1>2, <2>4
  <2> QED
    BY <1>2, <2>3, <2>5 DEF AttentionOK, Inside
<1> QED
  BY <1>3, <1>4

LEMMA PopEffect ==
  ASSUME NEW s, NEW call, NEW t, t = Pop(s, call), Base(s), call \in WaitCalls
  PROVE  /\ Base(t) /\ t.cpu.sig = s.cpu.sig /\ t.cpu.stack = s.cpu.stack /\ t.cpu.depth = s.cpu.depth
         /\ t.signals = s.signals /\ t.frame = s.frame /\ t.attention = s.attention /\ t.restored = s.restored
         /\ t.interrupted = s.interrupted /\ t.calls = s.calls /\ t.ended = s.ended /\ t.ctx = s.ctx
         /\ t.skipped = s.skipped /\ t.orderly = s.orderly /\ t.sigmask = IF call.kind = "pause" THEN s.sigmask ELSE call.oldmask
         /\ s.interrupted => t.cpu = s.cpu
<1>1. PICK r : r = IF call.kind = "pause" THEN s ELSE [s EXCEPT !.sigmask = call.oldmask]
  OBVIOUS
<1>2. /\ DOMAIN r = Fields /\ r.cpu = s.cpu /\ r.signals = s.signals /\ r.frame = s.frame /\ r.hands = s.hands
      /\ r.attention = s.attention /\ r.restored = s.restored /\ r.interrupted = s.interrupted
      /\ r.calls = s.calls /\ r.ended = s.ended /\ r.ctx = s.ctx /\ r.skipped = s.skipped /\ r.orderly = s.orderly
      /\ r.sigmask = IF call.kind = "pause" THEN s.sigmask ELSE call.oldmask
  BY <1>1 DEF Base, Fields
<1>3. Base(r)
  <2>1. r.sigmask \subseteq Sigs
    BY <1>2 DEF Base, WaitCalls
  <2> QED
    BY <1>2, <2>1 DEF Base
<1>4. t = Result(r, "fail") /\ "fail" \in Answers
  BY <1>1 DEF Pop, Answers
<1>5. /\ Base(t) /\ t.cpu.sig = r.cpu.sig /\ t.cpu.stack = r.cpu.stack /\ t.cpu.depth = r.cpu.depth
      /\ t.signals = r.signals /\ t.sigmask = r.sigmask /\ t.frame = r.frame
      /\ t.attention = r.attention /\ t.restored = r.restored /\ t.interrupted = r.interrupted
      /\ t.calls = r.calls /\ t.ended = r.ended /\ t.ctx = r.ctx /\ t.skipped = r.skipped /\ t.orderly = r.orderly
      /\ r.interrupted => t = r
  BY <1>3, <1>4, ResultEffect
<1> QED
  BY <1>2, <1>5

(* CheckInterrupt step by step: p is the state with the answer of a call that fails, q the *)
(* one with interrupted set.                                                               *)
LEMMA InterruptEffect ==
  ASSUME NEW s, Base(s), NEW call \in WaitCalls, NEW t, t = CheckInterrupt(s, call)
  PROVE  \E p, c, q :
           /\ p = PutAx(s, "eintr") /\ Base(p) /\ c = ConsumeSignal(p)
           /\ \/ c.delivered # 0 /\ CanRecurse(s) /\ t = Await(c.s, call)
              \/ /\ ~(c.delivered # 0 /\ CanRecurse(s)) /\ t = Pop(q, call) /\ Base(q)
                 /\ q.interrupted = (c.delivered # 0) /\ q.cpu = c.s.cpu /\ q.signals = c.s.signals
                 /\ q.sigmask = c.s.sigmask /\ q.frame = c.s.frame /\ q.attention = c.s.attention
                 /\ q.restored = c.s.restored /\ q.calls = c.s.calls /\ q.ended = c.s.ended
                 /\ q.ctx = c.s.ctx /\ q.skipped = c.s.skipped /\ q.orderly = (c.s.orderly /\ c.delivered = 0)
<1>1. PICK p : p = PutAx(s, "eintr")
  OBVIOUS
<1>2. Base(p)
  BY <1>1, PutAxEffect DEF Answers
<1>3. PICK c : c = ConsumeSignal(p)
  OBVIOUS
<1>4. Base(c.s)
  BY <1>2, <1>3, ConsumeEffect
<1>5. PICK q : q = [c.s EXCEPT !.interrupted = c.delivered # 0, !.orderly = @ /\ c.delivered = 0]
  OBVIOUS
<1>6. /\ DOMAIN q = Fields /\ q.interrupted = (c.delivered # 0) /\ q.cpu = c.s.cpu /\ q.signals = c.s.signals
      /\ q.sigmask = c.s.sigmask /\ q.frame = c.s.frame /\ q.attention = c.s.attention /\ q.hands = c.s.hands
      /\ q.restored = c.s.restored /\ q.calls = c.s.calls /\ q.ended = c.s.ended
      /\ q.ctx = c.s.ctx /\ q.skipped = c.s.skipped /\ q.orderly = (c.s.orderly /\ c.delivered = 0)
  BY <1>4, <1>5 DEF Base, Fields
<1>7. Base(q)
  BY <1>4, <1>6 DEF Base
<1>8. t = IF c.delivered # 0 /\ CanRecurse(s) THEN Await(c.s, call) ELSE Pop(q, call)
  BY <1>1, <1>3, <1>5 DEF CheckInterrupt
<1> QED
  BY <1>1, <1>2, <1>3, <1>6, <1>7, <1>8

\* o is the state the call was made in: with the mask of the caller, nothing was deliverable.
LEMMA InterruptAttention ==
  ASSUME NEW s, Base(s), NEW call \in WaitCalls, NEW t, t = CheckInterrupt(s, call),
         NEW o, AttentionOK(o), o.ended \/ ~(o.calls = <<>> /\ o.attention),
         o.ended = s.ended, o.calls = s.calls, o.cpu.sig = s.cpu.sig, o.signals = s.signals, o.skipped = s.skipped,
         o.sigmask = IF call.kind = "pause" THEN s.sigmask ELSE call.oldmask
  PROVE  Base(t) /\ AttentionOK(t) /\ Len(t.calls) >= Len(s.calls) /\ (t.orderly => s.orderly)
<1>1. PICK p, c, q :
           /\ p = PutAx(s, "eintr") /\ Base(p) /\ c = ConsumeSignal(p)
           /\ \/ c.delivered # 0 /\ CanRecurse(s) /\ t = Await(c.s, call)
              \/ /\ ~(c.delivered # 0 /\ CanRecurse(s)) /\ t = Pop(q, call) /\ Base(q)
                 /\ q.interrupted = (c.delivered # 0) /\ q.cpu = c.s.cpu /\ q.signals = c.s.signals
                 /\ q.sigmask = c.s.sigmask /\ q.frame = c.s.frame /\ q.attention = c.s.attention
                 /\ q.restored = c.s.restored /\ q.calls = c.s.calls /\ q.ended = c.s.ended
                 /\ q.ctx = c.s.ctx /\ q.skipped = c.s.skipped /\ q.orderly = (c.s.orderly /\ c.delivered = 0)
  BY InterruptEffect
<1>2. Base(c.s) /\ c.s.calls = p.calls /\ (c.delivered # 0 => c.s.cpu.sig # 0) /\ (c.delivered = 0 => NotDelivered(p, c.s))
  BY <1>1, ConsumeAttention, ConsumeEffect
<1>0. c.s.calls = s.calls /\ Len(s.calls) \in Nat /\ (c.s.orderly => s.orderly)
  <2>1. p.calls = s.calls /\ p.orderly = s.orderly
    BY <1>1, PutAxEffect DEF Answers
  <2>2. c.s.orderly => p.orderly
    BY <1>1, ConsumeEffect
  <2> QED
    BY <1>2, <2>1, <2>2 DEF Base
<1>3. CASE t = Await(c.s, call)
  <2>1. call \in Calls
    BY DEF Calls
  <2>2. Base(c.s) /\ t = Await(c.s, call) /\ call \in Calls
    BY <1>2, <1>3, <2>1
  <2>3. Base(t) /\ Inside(t) /\ t.orderly = c.s.orderly
    BY ONLY <2>2, AwaitEffect
  <2>4. Len(t.calls) = Len(c.s.calls) + 1
    BY ONLY <2>2, AwaitCalls
  <2>5. Len(t.calls) >= Len(s.calls)
    BY <1>0, <2>4
  <2> QED
    BY <1>0, <2>3, <2>5 DEF AttentionOK, Inside
<1>4. CASE t = Pop(q, call) /\ Base(q) /\ q.cpu = c.s.cpu /\ q.signals = c.s.signals /\ q.sigmask = c.s.sigmask
           /\ q.calls = c.s.calls /\ q.ended = c.s.ended /\ q.skipped = c.s.skipped /\ q.orderly = (c.s.orderly /\ c.delivered = 0)
  <2>5. t.orderly => s.orderly
    <3>1. t.orderly = q.orderly
      BY <1>4, PopEffect
    <3> QED
      BY <1>0, <1>4, <3>1
  <2>1. /\ Base(t) /\ t.cpu.sig = q.cpu.sig /\ t.signals = q.signals /\ t.calls = q.calls /\ t.ended = q.ended
        /\ t.skipped = q.skipped /\ t.orderly = q.orderly /\ t.sigmask = IF call.kind = "pause" THEN q.sigmask ELSE call.oldmask
    BY <1>4, PopEffect
  <2>4. Len(t.calls) >= Len(s.calls)
    BY <1>0, <1>4, <2>1
  <2>2. CASE c.delivered # 0
    BY <1>2, <1>4, <2>1, <2>2, <2>4, <2>5 DEF AttentionOK
  <2>3. CASE c.delivered = 0
    <3>1. /\ p.signals = s.signals /\ p.sigmask = s.sigmask /\ p.calls = s.calls /\ p.ended = s.ended
          /\ p.skipped = s.skipped /\ p.orderly = s.orderly /\ p.cpu.sig = s.cpu.sig
      BY <1>1, PutAxEffect DEF Answers
    <3>2. /\ t.signals \subseteq o.signals /\ t.sigmask = o.sigmask /\ t.cpu.sig = o.cpu.sig /\ t.calls = o.calls
          /\ o.ended => t.ended
          /\ o.skipped => t.skipped
      BY <1>2, <1>4, <2>1, <2>3, <3>1 DEF NotDelivered
    <3>3. Pending(t) \subseteq Pending(o)
      BY <3>2 DEF Pending
    <3> QED
      BY <2>1, <2>4, <2>5, <3>2, <3>3 DEF AttentionOK
  <2> QED
    BY <2>2, <2>3
<1> QED
  BY <1>1, <1>3, <1>4

LEMMA ResumeAttention ==
  ASSUME NEW s, Base(s), Inside(s), s.attention, NEW r, r = Resume(s)
  PROVE  Base(r) /\ AttentionOK(r) /\ (r.orderly => s.orderly)
<1>1. PICK call, t, u : call = Top(s.calls) /\ t = Leave(s) /\ u = [t EXCEPT !.interrupted = TRUE]
  OBVIOUS
<1>2. Base(t) /\ t.attention = s.attention /\ call \in Calls /\ t.orderly = s.orderly
  BY <1>1, LeaveEffect
<1>3. r = IF call.kind = "sigprocmask" THEN SigprocmaskLoop(t) ELSE Pop(u, call)
  BY <1>1 DEF Resume, Top
<1>4. CASE call.kind = "sigprocmask"
  <2>1. r = SigprocmaskLoop(t)
    BY <1>3, <1>4
  <2> QED
    BY <1>2, <2>1, LoopAttention
<1>5. CASE call.kind # "sigprocmask"
  <2>1. r = Pop(u, call) /\ call \in WaitCalls
    BY <1>2, <1>3, <1>5 DEF Calls
  <2>2. Base(u) /\ u.attention = t.attention /\ u.orderly = t.orderly
    <3>1. /\ DOMAIN u = Fields /\ u.cpu = t.cpu /\ u.hands = t.hands
          /\ u.signals = t.signals /\ u.sigmask = t.sigmask /\ u.frame = t.frame
          /\ u.attention = t.attention /\ u.restored = t.restored /\ u.interrupted = TRUE
          /\ u.calls = t.calls /\ u.ended = t.ended /\ u.ctx = t.ctx /\ u.skipped = t.skipped /\ u.orderly = t.orderly
      BY <1>1, <1>2 DEF Base, Fields
    <3>2. Base(u)
      BY <1>2, <3>1 DEF Base
    <3> QED
      BY <3>1, <3>2
  <2>3. Base(r) /\ r.attention = u.attention /\ r.orderly = u.orderly
    BY <2>1, <2>2, PopEffect
  <2>4. r.attention
    BY <1>2, <2>2, <2>3
  <2> QED
    BY <1>2, <2>2, <2>3, <2>4 DEF AttentionOK
<1> QED
  BY <1>4, <1>5

LEMMA ActorAttention ==
  ASSUME NEW s, Base(s), Inside(s), AttentionOK(s), NEW t, t = SignalActor(s)
  PROVE  Base(t) /\ AttentionOK(t)
<1>1. PICK r : r = Resume(s)
  OBVIOUS
<1>2. CASE s.ended \/ ~s.attention
  <2>1. t = s
    BY <1>2 DEF SignalActor
  <2> QED
    BY <2>1
<1>3. CASE ~(s.ended \/ ~s.attention) /\ ~s.restored
  <2>1. t = CheckForSignals(s)
    BY <1>3 DEF SignalActor
  <2> QED
    BY <2>1, CheckAttention
<1>4. CASE ~(s.ended \/ ~s.attention) /\ s.restored
  <2>1. Base(r) /\ AttentionOK(r)
    BY <1>1, <1>4, ResumeAttention
  <2>2. t = r \/ t = CheckForSignals(r)
    BY <1>1, <1>4 DEF SignalActor
  <2> QED
    BY <2>1, <2>2, CheckAttention
<1> QED
  BY <1>2, <1>3, <1>4

\* Execute as an operator of the state before and the state the instruction leaves.
Executed(s, x) == IF s.calls = <<>> \/ Len(x.calls) > Len(s.calls) THEN x ELSE SignalActor(x)

LEMMA ExecutedAttention ==
  ASSUME NEW s, Base(s), NEW x, Base(x), AttentionOK(x), Len(x.calls) >= Len(s.calls), NEW t, t = Executed(s, x)
  PROVE  Base(t) /\ AttentionOK(t)
<1>1. CASE s.calls = <<>> \/ Len(x.calls) > Len(s.calls)
  BY <1>1 DEF Executed
<1>2. CASE ~(s.calls = <<>> \/ Len(x.calls) > Len(s.calls))
  <2>1. t = SignalActor(x)
    BY <1>2 DEF Executed
  <2>2. Inside(x)
    BY <1>2 DEF Inside, Base
  <2> QED
    BY <2>1, <2>2, ActorAttention
<1> QED
  BY <1>1, <1>2

\* What was not orderly before the loop looked is not after it.
LEMMA ExecutedOrderly ==
  ASSUME NEW s, Base(s), NEW x, Base(x), Len(x.calls) >= Len(s.calls), NEW t, t = Executed(s, x), t.orderly
  PROVE  x.orderly
<1>1. CASE t = x
  BY <1>1
<1>2. CASE t # x
  <2>1. PICK r : r = Resume(x)
    OBVIOUS
  <2>2. t = SignalActor(x) /\ Inside(x)
    BY <1>2 DEF Executed, Inside, Base
  <2>3. x.attention /\ (t = r \/ t = CheckForSignals(r) \/ t = CheckForSignals(x))
    BY <1>2, <2>1, <2>2 DEF SignalActor
  <2>4. Base(r) /\ (r.orderly => x.orderly)
    BY <2>1, <2>2, <2>3, ResumeAttention
  <2> QED
    BY <2>3, <2>4, CheckAttention
<1> QED
  BY <1>1, <1>2

-----------------------------------------------------------------------------
(* The instructions: what each leaves, before the loop around it. *)

Unstarted(s, e) ==
    /\ e.cpu = s.cpu /\ e.signals = s.signals /\ e.sigmask = s.sigmask /\ e.frame = s.frame /\ e.hands = s.hands
    /\ e.attention = s.attention /\ e.restored = s.restored /\ e.interrupted = FALSE /\ e.calls = s.calls
    /\ e.ended = s.ended /\ e.ctx = s.ctx /\ e.skipped = s.skipped /\ e.orderly = s.orderly

LEMMA EnteredEffect ==
  ASSUME Base(g), NEW e, e = Entered
  PROVE  Base(e) /\ Unstarted(g, e)
<1>1. DOMAIN e = Fields /\ Unstarted(g, e)
  BY DEF Base, Fields, Entered, Unstarted
<1>2. Base(e)
  BY <1>1 DEF Base, Unstarted
<1> QED
  BY <1>1, <1>2

LEMMA SignalsChanged ==
  ASSUME NEW s, NEW S, NEW t, t = [s EXCEPT !.signals = S], Base(s), S \subseteq Sigs
  PROVE  /\ Base(t) /\ t.signals = S
         /\ t.cpu = s.cpu /\ t.sigmask = s.sigmask /\ t.frame = s.frame /\ t.hands = s.hands
         /\ t.attention = s.attention /\ t.restored = s.restored /\ t.interrupted = s.interrupted
         /\ t.calls = s.calls /\ t.ended = s.ended /\ t.ctx = s.ctx /\ t.skipped = s.skipped /\ t.orderly = s.orderly
<1>1. /\ DOMAIN t = Fields /\ t.signals = S
      /\ t.cpu = s.cpu /\ t.sigmask = s.sigmask /\ t.frame = s.frame /\ t.hands = s.hands
      /\ t.attention = s.attention /\ t.restored = s.restored /\ t.interrupted = s.interrupted
      /\ t.calls = s.calls /\ t.ended = s.ended /\ t.ctx = s.ctx /\ t.skipped = s.skipped /\ t.orderly = s.orderly
  BY DEF Base, Fields
<1>2. Base(t)
  BY <1>1 DEF Base
<1> QED
  BY <1>1, <1>2

LEMMA Ended ==
  ASSUME NEW s, NEW t, t = Terminate(s), Base(s)
  PROVE  /\ Base(t) /\ t.ended /\ t.signals = s.signals
         /\ t.cpu = s.cpu /\ t.sigmask = s.sigmask /\ t.frame = s.frame /\ t.hands = s.hands
         /\ t.attention = s.attention /\ t.restored = s.restored /\ t.interrupted = s.interrupted
         /\ t.calls = s.calls /\ t.ctx = s.ctx /\ t.skipped = s.skipped /\ t.orderly = s.orderly
<1>1. /\ DOMAIN t = Fields /\ t.ended = TRUE /\ t.signals = s.signals
      /\ t.cpu = s.cpu /\ t.sigmask = s.sigmask /\ t.frame = s.frame /\ t.hands = s.hands
      /\ t.attention = s.attention /\ t.restored = s.restored /\ t.interrupted = s.interrupted
      /\ t.calls = s.calls /\ t.ctx = s.ctx /\ t.skipped = s.skipped /\ t.orderly = s.orderly
  BY DEF Base, Fields, Terminate
<1>2. Base(t)
  BY <1>1 DEF Base
<1> QED
  BY <1>1, <1>2

\* What tkill does: the signal waits, ends the process, is ignored or starts its handler in u.
TkillOutcome(s, sig, x) ==
    \/ /\ sig \in s.sigmask
       /\ \E u : /\ Base(u) /\ x = Result(u, "ok") /\ u.signals = s.signals \cup {sig}
                 /\ u.cpu = s.cpu /\ u.sigmask = s.sigmask /\ u.frame = s.frame /\ u.hands = s.hands
                 /\ u.attention = s.attention /\ u.restored = s.restored /\ u.interrupted = s.interrupted
                 /\ u.calls = s.calls /\ u.ended = s.ended /\ u.ctx = s.ctx /\ u.skipped = s.skipped /\ u.orderly = s.orderly
    \/ sig \notin s.sigmask /\ x = Terminate(s)
    \/ sig \notin s.sigmask /\ x = Result(s, "ok")
    \/ /\ sig \notin s.sigmask /\ s.hands[sig].handler = "fn"
       /\ \E u : /\ Base(u) /\ x = DeliverSignal(u, sig) /\ u.interrupted = TRUE
                 /\ u.cpu.sig = s.cpu.sig /\ u.cpu.stack = s.cpu.stack /\ u.cpu.depth = s.cpu.depth
                 /\ u.signals = s.signals /\ u.sigmask = s.sigmask /\ u.frame = s.frame /\ u.hands = s.hands
                 /\ u.attention = s.attention /\ u.restored = s.restored
                 /\ u.calls = s.calls /\ u.ended = s.ended /\ u.ctx = s.ctx /\ u.skipped = s.skipped /\ u.orderly = s.orderly

LEMMA TkillEffect ==
  ASSUME NEW s, NEW sig \in Sigs, NEW x, x = SysTkill(s, sig), Base(s)
  PROVE  TkillOutcome(s, sig, x)
<1>1. CASE sig \in s.sigmask
  <2>1. PICK S, u : S = s.signals \cup {sig} /\ u = [s EXCEPT !.signals = S]
    OBVIOUS
  <2>2. x = Result(u, "ok") /\ S \subseteq Sigs
    BY <1>1, <2>1 DEF SysTkill, Base
  <2>3. /\ Base(u) /\ u.signals = S
        /\ u.cpu = s.cpu /\ u.sigmask = s.sigmask /\ u.frame = s.frame /\ u.hands = s.hands
        /\ u.attention = s.attention /\ u.restored = s.restored /\ u.interrupted = s.interrupted
        /\ u.calls = s.calls /\ u.ended = s.ended /\ u.ctx = s.ctx /\ u.skipped = s.skipped /\ u.orderly = s.orderly
    BY <2>1, <2>2, SignalsChanged
  <2> QED
    BY <1>1, <2>1, <2>2, <2>3 DEF TkillOutcome
<1>2. CASE sig \notin s.sigmask /\ Fatal(s, sig)
  <2>1. ~Ignored(s, sig)
    BY <1>2 DEF Fatal, Ignored
  <2>2. x = Terminate(s)
    BY <1>2, <2>1 DEF SysTkill
  <2> QED
    BY <1>2, <2>2 DEF TkillOutcome
<1>3. CASE sig \notin s.sigmask /\ ~Fatal(s, sig) /\ Ignored(s, sig)
  <2>1. x = Result(s, "ok")
    BY <1>3 DEF SysTkill
  <2> QED
    BY <1>3, <2>1 DEF TkillOutcome
<1>4. CASE sig \notin s.sigmask /\ ~Fatal(s, sig) /\ ~Ignored(s, sig)
  <2>1. PICK p, u : p = PutAx(s, "ok") /\ u = [p EXCEPT !.interrupted = TRUE]
    OBVIOUS
  <2>2. x = DeliverSignal(u, sig)
    BY <1>4, <2>1 DEF SysTkill
  <2>3. /\ Base(p) /\ p.cpu.sig = s.cpu.sig /\ p.cpu.stack = s.cpu.stack /\ p.cpu.depth = s.cpu.depth
        /\ p.signals = s.signals /\ p.sigmask = s.sigmask /\ p.frame = s.frame /\ p.hands = s.hands
        /\ p.attention = s.attention /\ p.restored = s.restored
        /\ p.calls = s.calls /\ p.ended = s.ended /\ p.ctx = s.ctx /\ p.skipped = s.skipped /\ p.orderly = s.orderly
    BY <2>1, PutAxEffect DEF Answers
  <2>4. /\ DOMAIN u = Fields /\ u.interrupted = TRUE /\ u.cpu = p.cpu
        /\ u.signals = p.signals /\ u.sigmask = p.sigmask /\ u.frame = p.frame /\ u.hands = p.hands
        /\ u.attention = p.attention /\ u.restored = p.restored
        /\ u.calls = p.calls /\ u.ended = p.ended /\ u.ctx = p.ctx /\ u.skipped = p.skipped /\ u.orderly = p.orderly
    BY <2>1, <2>3 DEF Base, Fields
  <2>5. Base(u)
    BY <2>3, <2>4 DEF Base
  <2>6. s.hands[sig].handler = "fn"
    <3>1. s.hands[sig].handler \in {"dfl", "ign", "fn"}
      BY SignalBounds DEF Base, Handlers
    <3> QED
      BY <1>4, <3>1 DEF Fatal, Ignored
  <2> QED
    BY <1>4, <2>2, <2>3, <2>4, <2>5, <2>6 DEF TkillOutcome
<1> QED
  BY <1>1, <1>2, <1>3, <1>4

LEMMA SigactionEffect ==
  ASSUME NEW s, Base(s), NEW sig \in Sigs, NEW hand \in Hands, NEW x, x = SysSigaction(s, sig, hand)
  PROVE  \E u : /\ Base(u) /\ x = Result(u, "ok") /\ u.signals \subseteq s.signals
                /\ u.cpu = s.cpu /\ u.sigmask = s.sigmask /\ u.frame = s.frame
                /\ u.attention = s.attention /\ u.restored = s.restored /\ u.interrupted = s.interrupted
                /\ u.calls = s.calls /\ u.ended = s.ended /\ u.ctx = s.ctx /\ u.skipped = s.skipped /\ u.orderly = s.orderly
<1>1. PICK t : t = [s EXCEPT !.hands[sig] = hand]
  OBVIOUS
<1>8. PICK S : S = IF Ignored(t, sig) THEN t.signals \ {sig} ELSE t.signals
  OBVIOUS
<1>9. PICK u : u = [t EXCEPT !.signals = S]
  OBVIOUS
<1>2. /\ DOMAIN t = Fields /\ t.hands = [s.hands EXCEPT ![sig] = hand]
      /\ t.cpu = s.cpu /\ t.signals = s.signals /\ t.sigmask = s.sigmask /\ t.frame = s.frame
      /\ t.attention = s.attention /\ t.restored = s.restored /\ t.interrupted = s.interrupted
      /\ t.calls = s.calls /\ t.ended = s.ended /\ t.ctx = s.ctx /\ t.skipped = s.skipped /\ t.orderly = s.orderly
  BY <1>1 DEF Base, Fields
<1>3. t.hands \in [Sigs -> Hands]
  BY <1>2 DEF Base
<1>4. Base(t)
  BY <1>2, <1>3 DEF Base
<1>5. S \subseteq s.signals /\ S \subseteq Sigs
  BY <1>2, <1>8 DEF Base
<1>6. /\ Base(u) /\ u.signals = S
      /\ u.cpu = t.cpu /\ u.sigmask = t.sigmask /\ u.frame = t.frame
      /\ u.attention = t.attention /\ u.restored = t.restored /\ u.interrupted = t.interrupted
      /\ u.calls = t.calls /\ u.ended = t.ended /\ u.ctx = t.ctx /\ u.skipped = t.skipped /\ u.orderly = t.orderly
  BY ONLY <1>4, <1>5, <1>9, SignalsChanged
<1>7. x = Result(u, "ok")
  <2>1. u = [t EXCEPT !.signals = IF Ignored(t, sig) THEN @ \ {sig} ELSE @]
    BY <1>8, <1>9
  <2> QED
    BY <1>1, <2>1 DEF SysSigaction
<1> QED
  BY <1>2, <1>5, <1>6, <1>7

\* The new mask is also that of the running context.
Remasked(q, mask) == Replaced(q, Context(q[Len(q)].cpu, mask))
SigprocmaskOutcome(s, x) ==
    \E u, mask : /\ Base(u) /\ x = SigprocmaskLoop(u) /\ mask \subseteq Sigs /\ u.sigmask = mask
                 /\ u.cpu.sig = s.cpu.sig /\ u.cpu.stack = s.cpu.stack /\ u.cpu.depth = s.cpu.depth
                 /\ u.signals = s.signals /\ u.frame = s.frame /\ u.hands = s.hands
                 /\ u.attention = s.attention /\ u.restored = s.restored /\ u.interrupted = s.interrupted
                 /\ u.calls = s.calls /\ u.ended = s.ended /\ u.skipped = s.skipped /\ u.orderly = s.orderly
                 /\ u.ctx = Remasked(s.ctx, mask)

LEMMA SigprocmaskEffect ==
  ASSUME NEW s, NEW how \in {"block", "unblock", "setmask"}, NEW set \in Masks,
         NEW x, x = SysSigprocmask(s, how, set), Base(s)
  PROVE  SigprocmaskOutcome(s, x)
<1>1. PICK mask : mask = NewMask(s, how, set)
  OBVIOUS
<1>2. mask \subseteq Sigs
  <2>1. set \subseteq Sigs /\ s.sigmask \subseteq Sigs
    BY SignalBounds DEF Base
  <2>2. CASE how = "block"
    BY <1>1, <2>1, <2>2 DEF NewMask
  <2>3. CASE how = "unblock"
    BY <1>1, <2>1, <2>3 DEF NewMask
  <2>4. CASE how = "setmask"
    BY <1>1, <2>1, <2>4 DEF NewMask
  <2> QED
    BY <2>2, <2>3, <2>4
<1>3. PICK q : q = Replaced(s.ctx, Context(s.ctx[Len(s.ctx)].cpu, mask))
  OBVIOUS
<1>8. PICK t : t = [s EXCEPT !.sigmask = mask, !.ctx = q]
  OBVIOUS
<1>9. PICK u : u = PutAx(t, "ok")
  OBVIOUS
<1>4. /\ DOMAIN t = Fields /\ t.sigmask = mask /\ t.ctx = q /\ t.cpu = s.cpu
      /\ t.signals = s.signals /\ t.frame = s.frame /\ t.hands = s.hands
      /\ t.attention = s.attention /\ t.restored = s.restored /\ t.interrupted = s.interrupted
      /\ t.calls = s.calls /\ t.ended = s.ended /\ t.skipped = s.skipped /\ t.orderly = s.orderly
  BY <1>8 DEF Base, Fields
<1>5. Base(t)
  BY <1>2, <1>4 DEF Base
<1>6. /\ Base(u) /\ u.cpu.sig = t.cpu.sig /\ u.cpu.stack = t.cpu.stack /\ u.cpu.depth = t.cpu.depth
      /\ u.signals = t.signals /\ u.sigmask = t.sigmask /\ u.hands = t.hands /\ u.frame = t.frame
      /\ u.attention = t.attention /\ u.restored = t.restored /\ u.interrupted = t.interrupted
      /\ u.calls = t.calls /\ u.ended = t.ended /\ u.ctx = t.ctx /\ u.skipped = t.skipped /\ u.orderly = t.orderly
  BY <1>5, <1>9, PutAxEffect DEF Answers
<1>7. x = SigprocmaskLoop(u)
  <2>1. t = [s EXCEPT !.sigmask = mask, !.ctx = Replaced(@, Context(@[Len(@)].cpu, mask))]
    BY <1>3, <1>8
  <2> QED
    BY <1>1, <1>9, <2>1 DEF SysSigprocmask
<1> QED
  BY <1>2, <1>3, <1>4, <1>6, <1>7 DEF Remasked, SigprocmaskOutcome

LEMMA SuspendEffect ==
  ASSUME NEW s, Base(s), NEW kind \in Waits, NEW mask \in Masks, NEW x, x = SysSuspend(s, kind, mask)
  PROVE  \E u, call : /\ Base(u) /\ call \in WaitCalls /\ call.kind = kind /\ call.oldmask = s.sigmask
                      /\ x = CheckInterrupt(u, call)
                      /\ kind = "pause" => u.sigmask = s.sigmask
                      /\ u.cpu = s.cpu /\ u.signals = s.signals /\ u.frame = s.frame /\ u.hands = s.hands
                      /\ u.attention = s.attention /\ u.restored = s.restored /\ u.interrupted = s.interrupted
                      /\ u.calls = s.calls /\ u.ended = s.ended /\ u.ctx = s.ctx /\ u.skipped = s.skipped /\ u.orderly = s.orderly
<1>1. PICK u, call : /\ u = (IF kind = "pause" THEN s ELSE [s EXCEPT !.sigmask = mask])
                     /\ call = [kind |-> kind, oldmask |-> s.sigmask]
  OBVIOUS
<1>2. call \in WaitCalls /\ call.kind = kind /\ call.oldmask = s.sigmask
  BY <1>1 DEF WaitCalls, Base
<1>3. x = CheckInterrupt(u, call)
  BY <1>1 DEF SysSuspend
<1>4. /\ DOMAIN u = Fields /\ u.cpu = s.cpu /\ u.signals = s.signals /\ u.frame = s.frame /\ u.hands = s.hands
      /\ u.attention = s.attention /\ u.restored = s.restored /\ u.interrupted = s.interrupted
      /\ u.calls = s.calls /\ u.ended = s.ended /\ u.ctx = s.ctx /\ u.skipped = s.skipped /\ u.orderly = s.orderly
      /\ u.sigmask = IF kind = "pause" THEN s.sigmask ELSE mask
  BY <1>1 DEF Base, Fields
<1>5. u.sigmask \subseteq Sigs
  BY <1>4, SignalBounds DEF Base
<1>6. Base(u)
  BY <1>4, <1>5 DEF Base
<1> QED
  BY <1>2, <1>3, <1>4, <1>6

LEMMA SigRestoreEffect ==
  ASSUME NEW s, Base(s), s.cpu.sig # 0, NEW x, x = SigRestore(s)
  PROVE  /\ Base(x) /\ Here(s) \in DOMAIN s.frame /\ s.frame[Here(s)] \in Contexts
         /\ x.cpu = s.frame[Here(s)].cpu /\ x.sigmask = s.frame[Here(s)].sigmask
         /\ x.restored = TRUE /\ x.attention = TRUE /\ x.interrupted = TRUE /\ x.skipped = FALSE /\ x.orderly = s.orderly
         /\ x.ctx = WithoutLast(s.ctx) /\ x.signals = s.signals /\ x.hands = s.hands /\ x.frame = s.frame
         /\ x.calls = s.calls /\ x.ended = s.ended
<1>1. PICK f : f = s.frame[Here(s)]
  OBVIOUS
<1>2. Here(s) \in DOMAIN s.frame
  BY DEF Base, Placed, At, Here
<1>3. f \in Contexts /\ Placed(f.cpu, s.frame)
  BY <1>1, <1>2 DEF Base, FramesOK
<1>4. /\ DOMAIN x = Fields /\ x.cpu = f.cpu /\ x.sigmask = f.sigmask
      /\ x.restored = TRUE /\ x.attention = TRUE /\ x.interrupted = TRUE /\ x.skipped = FALSE /\ x.orderly = s.orderly
      /\ x.ctx = WithoutLast(s.ctx) /\ x.signals = s.signals /\ x.hands = s.hands /\ x.frame = s.frame
      /\ x.calls = s.calls /\ x.ended = s.ended
  BY <1>1 DEF Base, Fields, SigRestore
<1>5. f.cpu \in Cpus /\ f.sigmask \subseteq Sigs
  BY <1>3 DEF Contexts
<1>6. Base(x)
  BY <1>3, <1>4, <1>5 DEF Base
<1> QED
  BY <1>1, <1>2, <1>3, <1>4, <1>6

-----------------------------------------------------------------------------
(* AttentionKept. *)

LEMMA TkillAttention ==
  ASSUME Base(g), AttentionOK(g), NEW sig \in Sigs, Tkill(sig)
  PROVE  Base(g') /\ AttentionOK(g') /\ (g'.orderly => g.orderly)
<1>1. PICK e, x : e = Entered /\ x = SysTkill(e, sig)
  OBVIOUS
<1>2. g' = Executed(g, x)
  BY <1>1 DEF Tkill, Execute, Executed
<1>3. Base(e) /\ Unstarted(g, e)
  BY <1>1, EnteredEffect
<1>4. /\ e.calls = g.calls /\ e.cpu = g.cpu /\ e.signals = g.signals /\ e.sigmask = g.sigmask /\ e.skipped = g.skipped /\ e.orderly = g.orderly
      /\ e.attention = g.attention /\ e.ended = g.ended /\ e.orderly = g.orderly
  BY <1>3 DEF Unstarted
<1>5. Base(x) /\ AttentionOK(x) /\ x.calls = g.calls /\ (x.orderly => g.orderly)
  <2>1. ASSUME sig \in e.sigmask, NEW u, Base(u), x = Result(u, "ok"), u.signals = e.signals \cup {sig},
               u.cpu = e.cpu, u.sigmask = e.sigmask, u.attention = e.attention,
               u.calls = e.calls, u.ended = e.ended, u.skipped = e.skipped /\ u.orderly = e.orderly
        PROVE  Base(x) /\ AttentionOK(x) /\ x.calls = g.calls /\ (x.orderly => g.orderly)
    <3>1. /\ Base(x) /\ x.cpu.sig = u.cpu.sig /\ x.signals = u.signals /\ x.sigmask = u.sigmask
          /\ x.attention = u.attention /\ x.calls = u.calls /\ x.ended = u.ended /\ x.skipped = u.skipped /\ x.orderly = u.orderly
      BY <2>1, ResultEffect DEF Answers
    <3>2. Pending(x) = Pending(g)
      BY <1>4, <2>1, <3>1 DEF Pending
    <3> QED
      BY <1>4, <2>1, <3>1, <3>2 DEF AttentionOK
  <2>2. CASE x = Terminate(e)
    BY <1>3, <1>4, <2>2, Ended DEF AttentionOK
  <2>3. CASE x = Result(e, "ok")
    <3>1. /\ Base(x) /\ x.cpu.sig = e.cpu.sig /\ x.signals = e.signals /\ x.sigmask = e.sigmask
          /\ x.attention = e.attention /\ x.calls = e.calls /\ x.ended = e.ended /\ x.skipped = e.skipped /\ x.orderly = e.orderly
      BY <1>3, <2>3, ResultEffect DEF Answers
    <3> QED
      BY <1>4, <3>1 DEF AttentionOK, Pending
  <2>4. ASSUME NEW u, Base(u), x = DeliverSignal(u, sig), u.calls = e.calls, u.orderly = e.orderly
        PROVE  Base(x) /\ AttentionOK(x) /\ x.calls = g.calls /\ (x.orderly => g.orderly)
    <3>1. Base(x) /\ x.cpu.sig # 0 /\ x.calls = u.calls
      BY <2>4, DeliverEffect
    <3>2. x.orderly => u.orderly
      BY <2>4, DeliverOrderly
    <3> QED
      BY <1>4, <2>4, <3>1, <3>2 DEF AttentionOK
  <2>5. \/ /\ sig \in e.sigmask
           /\ \E u : /\ Base(u) /\ x = Result(u, "ok") /\ u.signals = e.signals \cup {sig}
                     /\ u.cpu = e.cpu /\ u.sigmask = e.sigmask /\ u.attention = e.attention
                     /\ u.calls = e.calls /\ u.ended = e.ended /\ u.skipped = e.skipped /\ u.orderly = e.orderly
        \/ x = Terminate(e)
        \/ x = Result(e, "ok")
        \/ \E u : Base(u) /\ x = DeliverSignal(u, sig) /\ u.calls = e.calls /\ u.orderly = e.orderly
    <3>1. TkillOutcome(e, sig, x)
      BY <1>1, <1>3, TkillEffect
    <3> QED
      BY <3>1 DEF TkillOutcome
  <2> QED
    BY <2>1, <2>2, <2>3, <2>4, <2>5
<1> QED
  BY <1>2, <1>5, ExecutedAttention, ExecutedOrderly DEF Base

LEMMA SigactionAttention ==
  ASSUME Base(g), AttentionOK(g), NEW sig \in Sigs, NEW hand \in Hands, Sigaction(sig, hand)
  PROVE  Base(g') /\ AttentionOK(g') /\ (g'.orderly => g.orderly)
<1>1. PICK e, x : e = Entered /\ x = SysSigaction(e, sig, hand)
  OBVIOUS
<1>2. g' = Executed(g, x)
  BY <1>1 DEF Sigaction, Execute, Executed
<1>3. Base(e) /\ Unstarted(g, e)
  BY <1>1, EnteredEffect
<1>4. /\ e.calls = g.calls /\ e.cpu = g.cpu /\ e.signals = g.signals /\ e.sigmask = g.sigmask /\ e.skipped = g.skipped /\ e.orderly = g.orderly
      /\ e.attention = g.attention /\ e.ended = g.ended /\ e.orderly = g.orderly
  BY <1>3 DEF Unstarted
<1>5. PICK u : /\ Base(u) /\ x = Result(u, "ok") /\ u.signals \subseteq e.signals
               /\ u.cpu = e.cpu /\ u.sigmask = e.sigmask /\ u.attention = e.attention
               /\ u.calls = e.calls /\ u.ended = e.ended /\ u.skipped = e.skipped /\ u.orderly = e.orderly
  BY <1>1, <1>3, SigactionEffect
<1>6. /\ Base(x) /\ x.cpu.sig = u.cpu.sig /\ x.signals = u.signals /\ x.sigmask = u.sigmask
      /\ x.attention = u.attention /\ x.calls = u.calls /\ x.ended = u.ended /\ x.skipped = u.skipped /\ x.orderly = u.orderly
  BY <1>5, ResultEffect DEF Answers
<1>7. Pending(x) \subseteq Pending(g)
  BY <1>4, <1>5, <1>6 DEF Pending
<1>8. AttentionOK(x) /\ x.calls = g.calls /\ x.orderly = g.orderly
  BY <1>4, <1>5, <1>6, <1>7 DEF AttentionOK
<1> QED
  BY <1>2, <1>6, <1>8, ExecutedAttention, ExecutedOrderly DEF Base

LEMMA SigprocmaskAttention ==
  ASSUME Base(g), AttentionOK(g), NEW how \in {"block", "unblock", "setmask"}, NEW set \in Masks, Sigprocmask(how, set)
  PROVE  Base(g') /\ AttentionOK(g') /\ (g'.orderly => g.orderly)
<1>1. PICK e, x : e = Entered /\ x = SysSigprocmask(e, how, set)
  OBVIOUS
<1>2. g' = Executed(g, x)
  BY <1>1 DEF Sigprocmask, Execute, Executed
<1>3. Base(e) /\ e.calls = g.calls /\ e.orderly = g.orderly
  BY <1>1, EnteredEffect DEF Unstarted
<1>4. PICK u : Base(u) /\ x = SigprocmaskLoop(u) /\ u.calls = e.calls /\ u.orderly = e.orderly
  BY <1>1, <1>3, SigprocmaskEffect DEF SigprocmaskOutcome
<1>5. Base(x) /\ AttentionOK(x) /\ Len(x.calls) >= Len(g.calls) /\ (x.orderly => g.orderly)
  BY <1>3, <1>4, LoopAttention
<1> QED
  BY <1>2, <1>5, ExecutedAttention, ExecutedOrderly

LEMMA SuspendAttention ==
  ASSUME Base(g), AttentionOK(g), NEW kind \in Waits, NEW mask \in Masks, Suspend(kind, mask)
  PROVE  Base(g') /\ AttentionOK(g') /\ (g'.orderly => g.orderly)
<1>1. PICK e, x : e = Entered /\ x = SysSuspend(e, kind, mask)
  OBVIOUS
<1>2. g' = Executed(g, x) /\ ~(g.calls = <<>> /\ g.attention)
  BY <1>1 DEF Suspend, Syscall, Runs, Execute, Executed
<1>3. Base(e) /\ Unstarted(g, e)
  BY <1>1, EnteredEffect
<1>4. /\ e.calls = g.calls /\ e.cpu = g.cpu /\ e.signals = g.signals /\ e.sigmask = g.sigmask /\ e.skipped = g.skipped /\ e.orderly = g.orderly
      /\ e.attention = g.attention /\ e.ended = g.ended /\ e.orderly = g.orderly
  BY <1>3 DEF Unstarted
<1>5. PICK u, call : /\ Base(u) /\ call \in WaitCalls /\ call.kind = kind /\ call.oldmask = e.sigmask
                     /\ x = CheckInterrupt(u, call) /\ (kind = "pause" => u.sigmask = e.sigmask)
                     /\ u.cpu = e.cpu /\ u.signals = e.signals
                     /\ u.calls = e.calls /\ u.ended = e.ended /\ u.skipped = e.skipped /\ u.orderly = e.orderly
  BY <1>1, <1>3, SuspendEffect
<1>6. /\ g.ended = u.ended /\ g.calls = u.calls /\ g.cpu.sig = u.cpu.sig /\ g.signals = u.signals
      /\ g.skipped = u.skipped /\ g.orderly = u.orderly /\ g.sigmask = IF call.kind = "pause" THEN u.sigmask ELSE call.oldmask
  BY <1>4, <1>5
<1>7. Base(x) /\ AttentionOK(x) /\ Len(x.calls) >= Len(u.calls) /\ (x.orderly => u.orderly)
  BY <1>2, <1>5, <1>6, InterruptAttention
<1> QED
  BY <1>2, <1>4, <1>5, <1>6, <1>7, ExecutedAttention, ExecutedOrderly

LEMMA SigreturnAttention ==
  ASSUME Base(g), Sigreturn
  PROVE  Base(g') /\ AttentionOK(g') /\ (g'.orderly => g.orderly)
<1>1. PICK x : x = SigRestore(g)
  OBVIOUS
<1>2. g' = Executed(g, x) /\ g.cpu.sig # 0
  BY <1>1 DEF Sigreturn, Execute, Executed
<1>3. Base(x) /\ x.attention = TRUE /\ x.calls = g.calls /\ x.orderly = g.orderly
  BY <1>1, <1>2, SigRestoreEffect
<1>4. AttentionOK(x)
  BY <1>3 DEF AttentionOK
<1>5. Len(x.calls) >= Len(g.calls)
  BY <1>3 DEF Base
<1>6. g'.orderly => x.orderly
  BY <1>2, <1>3, <1>5, ExecutedOrderly
<1> QED
  BY <1>2, <1>3, <1>4, <1>5, <1>6, ExecutedAttention

(* The first state, and the steps. *)
LEMMA FirstBase ==
  ASSUME SignalsInit
  PROVE  Base(g) /\ AttentionOK(g)
<1>1. /\ DOMAIN g = Fields /\ g.signals = {} /\ g.sigmask = {} /\ g.attention = FALSE /\ g.restored = FALSE
      /\ g.interrupted = FALSE /\ g.hands = FirstHands /\ g.cpu = Main /\ g.frame = <<>> /\ g.calls = <<>>
      /\ g.ended = FALSE /\ g.skipped = FALSE /\ g.orderly = TRUE
  BY DEF SignalsInit, Fields
<1>2. Main \in Cpus /\ Main.sig = 0
  BY SignalBounds DEF Main, Cpus, Answers
<1>3. FramesOK(g.frame) /\ Placed(g.cpu, g.frame)
  BY <1>1, <1>2 DEF FramesOK, Placed
<1>4. g.calls \in Seq(Calls) /\ g.hands \in [Sigs -> Hands]
  BY <1>1, SignalBounds
<1> QED
  BY <1>1, <1>2, <1>3, <1>4 DEF Base, AttentionOK, Pending

LEMMA StepAttention ==
  ASSUME Base(g), AttentionOK(g), [SignalsNext]_thread
  PROVE  Base(g') /\ AttentionOK(g') /\ (g'.orderly => g.orderly)
<1>1. ASSUME NEW sig \in Sigs, Tkill(sig) PROVE Base(g') /\ AttentionOK(g') /\ (g'.orderly => g.orderly)
  BY <1>1, TkillAttention
<1>2. ASSUME NEW sig \in Sigs, NEW hand \in Hands, Sigaction(sig, hand) PROVE Base(g') /\ AttentionOK(g') /\ (g'.orderly => g.orderly)
  BY <1>2, SigactionAttention
<1>3. ASSUME NEW how \in {"block", "unblock", "setmask"}, NEW set \in Masks, Sigprocmask(how, set)
      PROVE Base(g') /\ AttentionOK(g') /\ (g'.orderly => g.orderly)
  BY <1>3, SigprocmaskAttention
<1>4. ASSUME NEW kind \in {"sigsuspend", "ppoll", "pause"}, NEW mask \in Masks, Suspend(kind, mask)
      PROVE Base(g') /\ AttentionOK(g') /\ (g'.orderly => g.orderly)
  BY <1>4, SuspendAttention DEF Waits
<1>5. CASE Kill
  BY <1>5, Ended DEF Kill, AttentionOK
<1>6. CASE Sigreturn
  BY <1>6, SigreturnAttention
<1>7. CASE Compute
  <2>1. g' = Executed(g, g)
    BY <1>7 DEF Compute, Execute, Executed
  <2> QED
    BY <2>1, ExecutedAttention, ExecutedOrderly DEF Base
<1>8. CASE Actor
  BY <1>8, CheckAttention DEF Actor
<1>9. CASE UNCHANGED thread
  <2>1. g' = g
    BY <1>9 DEF thread
  <2> QED
    BY <2>1
<1> QED
  BY <1>1, <1>2, <1>3, <1>4, <1>5, <1>6, <1>7, <1>8, <1>9 DEF SignalsNext

\* No deliverable signal is left without attention: whatever the guest installs, blocks and
\* awaits, at any depth, the main program never runs past a signal that is pending and not
\* blocked unless the loop is going to look for it (attention of struct Machine) or a call
\* has taken an ignored signal (ConsumeSignal, SigRestore, the ends of the waiting calls).
THEOREM AttentionKeptCorrect == SignalsSpec => []AttentionKept
<1>1. SignalsInit => Base(g) /\ AttentionOK(g)
  BY FirstBase
<1>2. Base(g) /\ AttentionOK(g) /\ [SignalsNext]_thread => (Base(g) /\ AttentionOK(g))'
  BY StepAttention
<1>3. Base(g) /\ AttentionOK(g) => AttentionKept
  BY DEF AttentionOK, AttentionKept, Quiet
<1> QED
  BY <1>1, <1>2, <1>3, PTL DEF SignalsSpec

-----------------------------------------------------------------------------
(* The contexts a guest has interrupted. *)

SameStack(s, t) ==
    /\ t.ctx = s.ctx /\ t.frame = s.frame /\ t.sigmask = s.sigmask
    /\ t.cpu.sig = s.cpu.sig /\ t.cpu.stack = s.cpu.stack /\ t.cpu.depth = s.cpu.depth

LEMMA SameStackKeeps ==
  ASSUME NEW s, NEW t, SameStack(s, t)
  PROVE  /\ StackOK(s) => StackOK(t)
         /\ TopMask(s) => TopMask(t)
         /\ FrameMasks(s) => FrameMasks(t)
         /\ LastMask(s) => LastMask(t)
         /\ Settled(s) => Settled(t)
<1>1. Here(t) = Here(s) /\ Place(t.cpu) = Place(s.cpu)
  BY DEF SameStack, Here, Place
<1>2. StackOK(s) => StackOK(t)
  BY <1>1 DEF SameStack, StackOK
<1>3. TopMask(s) => TopMask(t)
  BY DEF SameStack, TopMask
<1>4. FrameMasks(s) => FrameMasks(t)
  BY DEF SameStack, FrameMasks
<1>5. LastMask(s) => LastMask(t)
  BY <1>1 DEF SameStack, LastMask
<1> QED
  BY <1>2, <1>3, <1>4, <1>5 DEF Settled

\* The mask may change.
LEMMA MaskChanges ==
  ASSUME NEW s, NEW t, StackOK(s),
         t.ctx = s.ctx, t.frame = s.frame,
         t.cpu.sig = s.cpu.sig, t.cpu.stack = s.cpu.stack, t.cpu.depth = s.cpu.depth
  PROVE  /\ StackOK(t)
         /\ FrameMasks(s) => FrameMasks(t)
         /\ LastMask(s) => LastMask(t)
<1>1. Here(t) = Here(s) /\ Place(t.cpu) = Place(s.cpu)
  BY DEF Here, Place
<1>2. StackOK(t)
  BY <1>1 DEF StackOK
<1>3. FrameMasks(s) => FrameMasks(t)
  BY DEF FrameMasks
<1>4. LastMask(s) => LastMask(t)
  BY <1>1 DEF LastMask
<1> QED
  BY <1>2, <1>3, <1>4

LEMMA ReplacedSeq ==
  ASSUME NEW q, NEW a, NEW r, r = Replaced(q, a), q \in Seq(Contexts), Len(q) >= 1, a \in Contexts
  PROVE  /\ r \in Seq(Contexts) /\ Len(r) = Len(q) /\ r[Len(q)] = a
         /\ \A i \in 1 .. Len(q) - 1 : r[i] = q[i]
<1>1. Len(q) \in Nat /\ Len(q) \in 1 .. Len(q)
  OBVIOUS
<1>2. r = [q EXCEPT ![Len(q)] = a]
  BY DEF Replaced
<1> QED
  BY <1>1, <1>2, ExceptSeq

Pushed(q, a, b) == Append(Replaced(q, a), b)
LEMMA PushedSeq ==
  ASSUME NEW q, NEW a, NEW b, NEW r, r = Pushed(q, a, b),
         q \in Seq(Contexts), Len(q) >= 1, a \in Contexts, b \in Contexts
  PROVE  /\ r \in Seq(Contexts) /\ Len(r) = Len(q) + 1 /\ r[Len(q)] = a /\ r[Len(q) + 1] = b
         /\ \A i \in 1 .. Len(q) - 1 : r[i] = q[i]
<1>1. PICK p : p = Replaced(q, a)
  OBVIOUS
<1>2. p \in Seq(Contexts) /\ Len(p) = Len(q) /\ p[Len(q)] = a /\ \A i \in 1 .. Len(q) - 1 : p[i] = q[i]
  BY <1>1, ReplacedSeq
<1>3. r = Append(p, b)
  BY <1>1 DEF Pushed
<1>4. r \in Seq(Contexts) /\ Len(r) = Len(p) + 1 /\ r[Len(p) + 1] = b /\ \A i \in 1 .. Len(p) : r[i] = p[i]
  BY <1>2, <1>3
<1> QED
  BY <1>2, <1>4

LEMMA PoppedSeq ==
  ASSUME NEW q \in Seq(Contexts), Len(q) >= 2, NEW r, r = AllButLast(q)
  PROVE  /\ r \in Seq(Contexts) /\ Len(r) = Len(q) - 1
         /\ \A i \in 1 .. Len(q) - 1 : r[i] = q[i]
<1>1. Len(q) \in Nat /\ \A i \in 1 .. Len(q) - 1 : q[i] \in Contexts
  OBVIOUS
<1> QED
  BY <1>1, SubSeqProperties DEF AllButLast

LEMMA DeliverKeeps ==
  ASSUME NEW s, Base(s), StackOK(s), FrameMasks(s), LastMask(s), s.cpu.stack = "main",
         NEW sig \in Sigs, sig \notin s.sigmask, s.hands[sig].handler = "fn",
         NEW t, t = DeliverSignal(s, sig)
  PROVE  /\ StackOK(t) /\ FrameMasks(t) /\ TopMask(t) /\ Len(t.ctx) = Len(s.ctx) + 1 /\ Len(t.ctx) >= 2
         /\ t.ctx[Len(t.ctx) - 1].sigmask = Top(s.ctx).sigmask
         /\ TopMask(s) => LastMask(t)
<1>1. PICK h, p, n : h = s.hands[sig] /\ p = FramePosition(s, h) /\ n = Len(s.ctx)
  OBVIOUS
<1>2. /\ Base(t) /\ t.cpu.sig # 0 /\ t.cpu.stack = p[1] /\ t.cpu.depth = p[2]
      /\ t.sigmask = s.sigmask \cup h.mask \cup (IF h.nodefer THEN {} ELSE {sig})
      /\ t.frame = With(s.frame, p, Context(s.cpu, s.sigmask))
      /\ t.ctx = Append(Replaced(s.ctx, Context(s.cpu, s.ctx[n].sigmask)), Context(t.cpu, t.sigmask))
  BY <1>1, DeliverEffect
<1>3. n \in Nat /\ n >= 1 /\ s.ctx \in Seq(Contexts) /\ s.ctx[n] \in Contexts
  BY <1>1 DEF StackOK
<1>4. s.cpu.stack = "main" /\ s.cpu.depth = n - 1 /\ (s.cpu.sig = 0 <=> n = 1) /\ Here(s) = <<"main", n - 1>>
  BY <1>1 DEF StackOK, Here
<1>5. p = <<"main", n>> \/ p = <<"alt", 1>>
  BY <1>1, <1>3, <1>4 DEF FramePosition
<1>6. PICK a, b : a = Context(s.cpu, s.ctx[n].sigmask) /\ b = Context(t.cpu, t.sigmask)
  OBVIOUS
<1>7. /\ a \in Contexts /\ b \in Contexts /\ a.cpu = s.cpu /\ a.sigmask = s.ctx[n].sigmask
      /\ b.cpu = t.cpu /\ b.sigmask = t.sigmask
  BY <1>2, <1>3, <1>6 DEF Base, Context, Contexts
<1>8. /\ t.ctx \in Seq(Contexts) /\ Len(t.ctx) = n + 1 /\ t.ctx[n] = a /\ t.ctx[n + 1] = b
      /\ \A i \in 1 .. n - 1 : t.ctx[i] = s.ctx[i]
  <2>1. t.ctx = Pushed(s.ctx, a, b)
    BY <1>2, <1>6 DEF Pushed
  <2>2. PICK q, r : q = s.ctx /\ r = t.ctx
    OBVIOUS
  <2>3. r = Pushed(q, a, b) /\ q \in Seq(Contexts) /\ Len(q) >= 1 /\ a \in Contexts /\ b \in Contexts
    BY <1>1, <1>3, <1>7, <2>1, <2>2
  <2>4. /\ r \in Seq(Contexts) /\ Len(r) = Len(q) + 1 /\ r[Len(q)] = a /\ r[Len(q) + 1] = b
        /\ \A i \in 1 .. Len(q) - 1 : r[i] = q[i]
    BY ONLY <2>3, PushedSeq
  <2> QED
    BY <1>1, <2>2, <2>4
<1>9. PICK f : f = Context(s.cpu, s.sigmask)
  OBVIOUS
<1>10. f.cpu = s.cpu /\ f.sigmask = s.sigmask
  BY <1>9 DEF Context
<1>11. /\ DOMAIN t.frame = DOMAIN s.frame \cup {p} /\ t.frame[p] = f
       /\ \A x \in DOMAIN s.frame : x # p => t.frame[x] = s.frame[x]
  BY <1>2, <1>9 DEF With
<1>12. Here(t) = p
  BY <1>2, <1>5 DEF Here
<1>13. \A i \in 2 .. n - 1 : <<"main", i - 1>> \in DOMAIN s.frame /\ s.frame[<<"main", i - 1>>].cpu = s.ctx[i - 1].cpu
  BY <1>1 DEF StackOK, Saved
<1>14. n >= 2 => /\ <<"main", n - 1>> \in DOMAIN s.frame /\ s.frame[<<"main", n - 1>>].cpu = s.ctx[n - 1].cpu
                 /\ s.frame[<<"main", n - 1>>].sigmask = s.ctx[n - 1].sigmask
  BY <1>1, <1>4 DEF StackOK, LastMask
<1>15. \A i \in 2 .. n : /\ <<"main", i - 1>> \in DOMAIN t.frame
                        /\ t.frame[<<"main", i - 1>>] = s.frame[<<"main", i - 1>>]
  <2>1. TAKE i \in 2 .. n
  <2>2. <<"main", i - 1>> \in DOMAIN s.frame
    <3>1. i \in 2 .. n - 1 \/ (i = n /\ n >= 2)
      BY <1>3
    <3> QED
      BY <1>13, <1>14, <3>1
  <2>3. <<"main", i - 1>> # p
    BY <1>3, <1>5
  <2> QED
    BY <1>11, <2>2, <2>3
<1>16. Bottoms(t.ctx)
  <2>1. \A i \in 1 .. n - 1 : s.ctx[i].cpu.stack = "main" /\ s.ctx[i].cpu.depth = i - 1 /\ (s.ctx[i].cpu.sig = 0 <=> i = 1)
    BY <1>1 DEF StackOK, Bottoms
  <2>2. \A i \in 1 .. n : t.ctx[i].cpu.stack = "main" /\ t.ctx[i].cpu.depth = i - 1 /\ (t.ctx[i].cpu.sig = 0 <=> i = 1)
    <3>1. TAKE i \in 1 .. n
    <3>2. i \in 1 .. n - 1 \/ i = n
      BY <1>3
    <3> QED
      BY <1>4, <1>7, <1>8, <2>1, <3>2
  <2> QED
    BY <1>3, <1>8, <2>2 DEF Bottoms
<1>17. Saved(t.ctx, t.frame)
  <2>1. \A i \in 2 .. n : t.frame[<<"main", i - 1>>].cpu = t.ctx[i - 1].cpu
    <3>1. TAKE i \in 2 .. n
    <3>2. i - 1 \in 1 .. n - 1 /\ (i \in 2 .. n - 1 \/ (i = n /\ n >= 2))
      BY <1>3
    <3> QED
      BY <1>8, <1>13, <1>14, <1>15, <3>2
  <2>2. Len(t.ctx) - 1 = n
    BY <1>3, <1>8
  <2>3. \A i \in 2 .. Len(t.ctx) - 1 : <<"main", i - 1>> \in DOMAIN t.frame
    BY <1>15, <2>2
  <2>4. \A i \in 2 .. Len(t.ctx) - 1 : t.frame[<<"main", i - 1>>].cpu = t.ctx[i - 1].cpu
    BY <2>1, <2>2
  <2> QED
    BY <2>3, <2>4 DEF Saved
<1>18. FrameMasks(t)
  <2>1. \A i \in 2 .. n - 1 : s.frame[<<"main", i - 1>>].sigmask = s.ctx[i - 1].sigmask
    BY <1>1 DEF FrameMasks
  <2>2. \A i \in 2 .. n : t.frame[<<"main", i - 1>>].sigmask = t.ctx[i - 1].sigmask
    <3>1. TAKE i \in 2 .. n
    <3>2. i - 1 \in 1 .. n - 1 /\ (i \in 2 .. n - 1 \/ (i = n /\ n >= 2))
      BY <1>3
    <3> QED
      BY <1>8, <1>14, <1>15, <2>1, <3>2
  <2>3. Len(t.ctx) - 1 = n
    BY <1>3, <1>8
  <2> QED
    BY <2>2, <2>3 DEF FrameMasks
<1>19. Top(t.ctx) = b /\ t.ctx[Len(t.ctx) - 1] = a /\ Len(t.ctx) >= 2 /\ Len(t.ctx) - 1 = n
  BY <1>3, <1>8 DEF Top
<1>20. StackOK(t)
  <2>1. Place(t.cpu) = Place(Top(t.ctx).cpu) /\ (t.cpu.sig = 0 <=> Len(t.ctx) = 1)
    BY <1>2, <1>7, <1>19
  <2>2. Here(t) \in DOMAIN t.frame /\ t.frame[Here(t)].cpu = t.ctx[Len(t.ctx) - 1].cpu
    BY <1>7, <1>10, <1>11, <1>12, <1>19
  <2>3. \/ t.cpu.stack = "main" /\ t.cpu.depth = Len(t.ctx) - 1
        \/ t.cpu.stack = "alt" /\ t.cpu.depth = 1 /\ Len(t.ctx) >= 2
    BY <1>2, <1>5, <1>19
  <2> QED
    BY <1>8, <1>16, <1>17, <1>19, <2>1, <2>2, <2>3 DEF StackOK
<1>21. TopMask(t) /\ t.ctx[Len(t.ctx) - 1].sigmask = Top(s.ctx).sigmask
  BY <1>1, <1>7, <1>19 DEF TopMask, Top
<1>22. TopMask(s) => LastMask(t)
  BY <1>10, <1>11, <1>12, <1>21 DEF TopMask, LastMask
<1> QED
  BY <1>1, <1>8, <1>18, <1>19, <1>20, <1>21, <1>22

\* From s to t contexts are added, or none is and the registers stay when the answer is given.
Grown(s, t) ==
    /\ Len(t.ctx) >= Len(s.ctx) /\ Len(s.ctx) \in Nat /\ Len(t.ctx) \in Nat
    /\ s.interrupted => t.interrupted /\ (Len(t.ctx) = Len(s.ctx) => t.cpu = s.cpu)

LEMMA GrownTransitive ==
  ASSUME NEW s, NEW t, NEW u, Grown(s, t), Grown(t, u)
  PROVE  Grown(s, u)
BY DEF Grown

LEMMA ConsumeKeeps ==
  ASSUME NEW s, Base(s), Settled(s), NEW c, c = ConsumeSignal(s), c.s.orderly
  PROVE  Settled(c.s) /\ Grown(s, c.s)
<1>1. /\ Base(c.s) /\ c.s.interrupted = s.interrupted
      /\ \/ c.delivered = 0 /\ NotDelivered(s, c.s)
         \/ c.delivered # 0 /\ \E u : Delivered(s, u, c.s, c.delivered)
  BY ConsumeEffect
<1>2. Len(s.ctx) \in Nat
  BY DEF Settled, StackOK
<1>3. CASE c.delivered = 0 /\ NotDelivered(s, c.s)
  <2>1. SameStack(s, c.s) /\ c.s.ctx = s.ctx /\ c.s.cpu = s.cpu
    BY <1>3 DEF NotDelivered, SameStack
  <2> QED
    BY <1>1, <1>2, <2>1, SameStackKeeps DEF Grown
<1>4. ASSUME NEW u, Delivered(s, u, c.s, c.delivered)
      PROVE  Settled(c.s) /\ Grown(s, c.s)
  <2>1. PICK sig, t : sig = c.delivered /\ t = c.s
    OBVIOUS
  <2>2. /\ sig \in Sigs /\ sig \notin u.sigmask /\ Base(u) /\ t = DeliverSignal(u, sig)
        /\ u.hands[sig].handler = "fn" /\ SameStack(s, u) /\ u.ctx = s.ctx
    BY <1>4, <2>1 DEF Delivered, Pending, Base, SameStack
  <2>3. StackOK(u) /\ FrameMasks(u) /\ LastMask(u) /\ TopMask(u) /\ u.cpu.stack = "main"
    BY <2>1, <2>2, SameStackKeeps, DeliverOrderly DEF Settled
  <2>4. /\ StackOK(t) /\ FrameMasks(t) /\ TopMask(t) /\ Len(t.ctx) = Len(u.ctx) + 1
        /\ LastMask(t)
    BY <2>2, <2>3, DeliverKeeps
  <2>5. Settled(t)
    BY <2>4 DEF Settled
  <2> QED
    BY <1>1, <1>2, <2>1, <2>2, <2>4, <2>5 DEF Grown
<1> QED
  BY <1>1, <1>3, <1>4

LEMMA CheckKeeps ==
  ASSUME NEW s, Base(s), Settled(s), NEW t, t = CheckForSignals(s), t.orderly
  PROVE  Base(t) /\ Settled(t) /\ Grown(s, t) /\ t.calls = s.calls /\ t.restored = s.restored
<1>1. CASE Pending(s) # {}
  <2>1. PICK c : c = ConsumeSignal(s)
    OBVIOUS
  <2>2. t = c.s
    BY <1>1, <2>1 DEF CheckForSignals
  <2>3. Base(c.s) /\ c.s.calls = s.calls /\ c.s.restored = s.restored
    BY <2>1, ConsumeEffect
  <2>4. Settled(c.s) /\ Grown(s, c.s)
    BY <2>1, <2>2, ConsumeKeeps
  <2> QED
    BY <2>2, <2>3, <2>4
<1>2. CASE Pending(s) = {}
  <2>1. t = [s EXCEPT !.attention = FALSE]
    BY <1>2 DEF CheckForSignals
  <2>2. /\ Base(t) /\ t.cpu = s.cpu /\ t.sigmask = s.sigmask /\ t.frame = s.frame /\ t.ctx = s.ctx
        /\ t.interrupted = s.interrupted /\ t.calls = s.calls /\ t.restored = s.restored
    BY <2>1, ClearAttention
  <2>3. SameStack(s, t)
    BY <2>2 DEF SameStack
  <2>4. Len(s.ctx) \in Nat
    BY DEF Settled, StackOK
  <2> QED
    BY <2>2, <2>3, <2>4, SameStackKeeps DEF Grown
<1> QED
  BY <1>1, <1>2

LEMMA ResultKeeps ==
  ASSUME NEW s, NEW v, NEW t, t = Result(s, v), Base(s), v \in Answers, Len(s.ctx) \in Nat
  PROVE  SameStack(s, t) /\ Grown(s, t)
<1>1. /\ t.cpu.sig = s.cpu.sig /\ t.cpu.stack = s.cpu.stack /\ t.cpu.depth = s.cpu.depth
      /\ t.sigmask = s.sigmask /\ t.frame = s.frame /\ t.ctx = s.ctx /\ t.interrupted = s.interrupted
      /\ s.interrupted => t = s
  BY ResultEffect
<1>2. SameStack(s, t)
  BY <1>1 DEF SameStack
<1>3. s.interrupted => t.cpu = s.cpu
  BY <1>1
<1> QED
  BY <1>1, <1>2, <1>3 DEF Grown

LEMMA LoopOrderly ==
  ASSUME NEW s, Base(s), NEW c, c = ConsumeSignal(s), Base(c.s), NEW t, t = SigprocmaskLoop(s), t.orderly
  PROVE  c.s.orderly
<1>1. PICK call : call = [kind |-> "sigprocmask"]
  OBVIOUS
<1>2. CASE c.delivered = 0 \/ ~CanRecurse(s)
  <2>1. PICK r : r = c.s
    OBVIOUS
  <2>2. t = Result(r, "ok") /\ "ok" \in Answers /\ Base(r)
    BY <1>2, <2>1 DEF SigprocmaskLoop, Answers
  <2>3. t.orderly = r.orderly
    BY ONLY <2>2, ResultEffect
  <2> QED
    BY <2>1, <2>3
<1>3. CASE ~(c.delivered = 0 \/ ~CanRecurse(s))
  <2>1. PICK r : r = c.s
    OBVIOUS
  <2>2. t = Await(r, call) /\ call \in Calls /\ Base(r)
    BY <1>1, <1>3, <2>1 DEF SigprocmaskLoop, Calls
  <2>3. t.orderly = r.orderly
    BY ONLY <2>2, AwaitEffect
  <2> QED
    BY <2>1, <2>3
<1> QED
  BY <1>2, <1>3

LEMMA LoopKeeps ==
  ASSUME NEW s, Base(s), Free(s), Inside(s) => ~s.restored, NEW t, t = SigprocmaskLoop(s), t.orderly
  PROVE  Base(t) /\ Free(t) /\ (Inside(t) => ~t.restored) /\ Grown(s, t)
<1>1. PICK call : call = [kind |-> "sigprocmask"]
  OBVIOUS
<1>2. PICK c : c = ConsumeSignal(s)
  OBVIOUS
<1>3. Base(c.s) /\ c.s.calls = s.calls /\ c.s.restored = s.restored
  BY <1>2, ConsumeEffect
<1>0. c.s.orderly
  BY <1>2, <1>3, LoopOrderly
<1>4. Settled(c.s) /\ Grown(s, c.s) /\ Len(c.s.ctx) \in Nat
  BY <1>0, <1>2, ConsumeKeeps DEF Free, Grown
<1>5. CASE c.delivered = 0 \/ ~CanRecurse(s)
  <2>1. t = Result(c.s, "ok") /\ "ok" \in Answers
    BY <1>2, <1>5 DEF SigprocmaskLoop, Answers
  <2>2. Base(t) /\ t.calls = c.s.calls /\ t.restored = c.s.restored
    BY <1>3, <2>1, ResultEffect
  <2>3. SameStack(c.s, t) /\ Grown(c.s, t)
    BY <1>3, <1>4, <2>1, ResultKeeps
  <2>4. Settled(t) /\ Grown(s, t)
    BY <1>4, <2>3, SameStackKeeps, GrownTransitive
  <2> QED
    BY <1>3, <2>2, <2>4 DEF Free, Inside
<1>6. CASE ~(c.delivered = 0 \/ ~CanRecurse(s))
  <2>1. PICK r : r = c.s
    OBVIOUS
  <2>2. t = Await(r, call) /\ call \in Calls /\ Base(r)
    BY <1>1, <1>2, <1>3, <1>6, <2>1 DEF SigprocmaskLoop, Calls
  <2>3. /\ Base(t) /\ ~t.restored /\ t.cpu = r.cpu /\ t.sigmask = r.sigmask /\ t.frame = r.frame
        /\ t.ctx = r.ctx /\ t.interrupted = r.interrupted
    BY ONLY <2>2, AwaitEffect
  <2>4. /\ Top(t.calls) = call /\ Len(t.calls) = Len(r.calls) + 1 /\ Len(r.calls) \in Nat
        /\ \A i \in 1 .. Len(r.calls) : t.calls[i] = r.calls[i]
    BY ONLY <2>2, AwaitCalls
  <2>5. Loops(t.calls, Len(t.calls))
    <3>1. SUFFICES ASSUME NEW i \in 1 .. Len(t.calls) PROVE t.calls[i].kind = "sigprocmask"
      BY DEF Loops
    <3>2. i \in 1 .. Len(r.calls) \/ i = Len(t.calls)
      BY <2>4
    <3>3. r.calls = s.calls /\ \A j \in 1 .. Len(s.calls) : s.calls[j].kind = "sigprocmask"
      BY <1>3, <2>1 DEF Free, Loops
    <3> QED
      BY <1>1, <2>4, <3>2, <3>3 DEF Top
  <2>6. SameStack(r, t) /\ Grown(r, t)
    BY <1>4, <2>1, <2>3 DEF SameStack, Grown
  <2>7. Settled(t) /\ Grown(s, t)
    BY <1>4, <2>1, <2>6, SameStackKeeps, GrownTransitive
  <2> QED
    BY <2>3, <2>5, <2>7 DEF Free
<1> QED
  BY <1>5, <1>6

-----------------------------------------------------------------------------
(* A handler returns. *)

\* The state after SigRestore, until a call that waits for it has its own mask back.
Restored(s, x) ==
    /\ Base(x) /\ StackOK(x) /\ FrameMasks(x) /\ LastMask(x) /\ Len(x.ctx) = Len(s.ctx) - 1 /\ Len(s.ctx) >= 2
    /\ x.cpu = s.ctx[Len(s.ctx) - 1].cpu /\ x.calls = s.calls /\ x.ended = s.ended
    /\ x.restored /\ x.attention /\ x.interrupted
    /\ LastMask(s) => TopMask(x)
    /\ Top(x.ctx) = s.ctx[Len(s.ctx) - 1]

LEMMA RestoreKeeps ==
  ASSUME NEW s, Base(s), StackOK(s), FrameMasks(s), s.cpu.sig # 0, NEW x, x = SigRestore(s)
  PROVE  Restored(s, x)
<1>1. PICK n : n = Len(s.ctx)
  OBVIOUS
<1>2. /\ Base(x) /\ x.cpu = s.frame[Here(s)].cpu /\ x.sigmask = s.frame[Here(s)].sigmask
      /\ x.restored = TRUE /\ x.attention = TRUE /\ x.interrupted = TRUE
      /\ x.ctx = WithoutLast(s.ctx) /\ x.frame = s.frame /\ x.calls = s.calls /\ x.ended = s.ended
  BY SigRestoreEffect
<1>3. n \in Nat /\ n >= 2 /\ s.ctx \in Seq(Contexts)
  <2>1. s.ctx \in Seq(Contexts) /\ n >= 1
    BY <1>1 DEF StackOK
  <2>2. n # 1
    BY <1>1 DEF StackOK
  <2>3. n \in Nat
    BY <1>1, <2>1
  <2> QED
    BY <2>1, <2>2, <2>3
<1>4. x.ctx \in Seq(Contexts) /\ Len(x.ctx) = n - 1 /\ \A i \in 1 .. n - 1 : x.ctx[i] = s.ctx[i]
  <2>1. PICK q, r : q = s.ctx /\ r = x.ctx
    OBVIOUS
  <2>2. r = AllButLast(q) /\ q \in Seq(Contexts) /\ Len(q) >= 2
    BY <1>1, <1>2, <1>3, <2>1 DEF WithoutLast
  <2>3. r \in Seq(Contexts) /\ Len(r) = Len(q) - 1 /\ \A i \in 1 .. Len(q) - 1 : r[i] = q[i]
    BY ONLY <2>2, PoppedSeq
  <2> QED
    BY <1>1, <2>1, <2>3
<1>5. Len(x.ctx) >= 1 /\ n - 1 \in 1 .. n - 1 /\ Top(x.ctx) = s.ctx[n - 1]
  BY <1>3, <1>4 DEF Top
<1>6. x.cpu = s.ctx[n - 1].cpu
  BY <1>1, <1>2, <1>3 DEF StackOK
<1>7. \A i \in 1 .. n - 1 : s.ctx[i].cpu.stack = "main" /\ s.ctx[i].cpu.depth = i - 1 /\ (s.ctx[i].cpu.sig = 0 <=> i = 1)
  BY <1>1 DEF StackOK, Bottoms
<1>8. \A i \in 2 .. n - 1 : <<"main", i - 1>> \in DOMAIN s.frame /\ s.frame[<<"main", i - 1>>].cpu = s.ctx[i - 1].cpu
  BY <1>1 DEF StackOK, Saved
<1>9. \A i \in 2 .. n - 1 : s.frame[<<"main", i - 1>>].sigmask = s.ctx[i - 1].sigmask
  BY <1>1 DEF FrameMasks
<1>10. x.cpu.stack = "main" /\ x.cpu.depth = n - 2 /\ (x.cpu.sig = 0 <=> n - 1 = 1) /\ Here(x) = <<"main", n - 2>>
  <2>1. x.cpu.stack = "main" /\ x.cpu.depth = (n - 1) - 1 /\ (x.cpu.sig = 0 <=> n - 1 = 1)
    BY <1>5, <1>6, <1>7
  <2>2. (n - 1) - 1 = n - 2
    BY <1>3
  <2> QED
    BY <2>1, <2>2 DEF Here
<1>11. Bottoms(x.ctx)
  <2>1. \A i \in 1 .. n - 2 : i \in 1 .. n - 1
    BY <1>3
  <2>2. Len(x.ctx) - 1 = n - 2
    BY <1>3, <1>4
  <2>3. \A i \in 1 .. n - 2 : x.ctx[i].cpu.stack = "main" /\ x.ctx[i].cpu.depth = i - 1 /\ (x.ctx[i].cpu.sig = 0 <=> i = 1)
    BY <1>4, <1>7, <2>1
  <2> QED
    BY <2>2, <2>3 DEF Bottoms
<1>12. \A i \in 2 .. n - 2 : i \in 2 .. n - 1 /\ i - 1 \in 1 .. n - 1
  BY <1>3
<1>13. Saved(x.ctx, x.frame) /\ FrameMasks(x)
  <2>1. Len(x.ctx) - 1 = n - 2
    BY <1>3, <1>4
  <2>2. \A i \in 2 .. n - 2 : <<"main", i - 1>> \in DOMAIN x.frame /\ x.frame[<<"main", i - 1>>].cpu = x.ctx[i - 1].cpu
    BY <1>2, <1>4, <1>8, <1>12
  <2>3. \A i \in 2 .. n - 2 : x.frame[<<"main", i - 1>>].sigmask = x.ctx[i - 1].sigmask
    BY <1>2, <1>4, <1>9, <1>12
  <2> QED
    BY <2>1, <2>2, <2>3 DEF Saved, FrameMasks
<1>14. n - 1 >= 2 => /\ Here(x) \in DOMAIN x.frame /\ x.frame[Here(x)].cpu = x.ctx[Len(x.ctx) - 1].cpu
                     /\ x.frame[Here(x)].sigmask = x.ctx[Len(x.ctx) - 1].sigmask
  <2>1. SUFFICES ASSUME n - 1 >= 2
                 PROVE  /\ Here(x) \in DOMAIN x.frame /\ x.frame[Here(x)].cpu = x.ctx[Len(x.ctx) - 1].cpu
                        /\ x.frame[Here(x)].sigmask = x.ctx[Len(x.ctx) - 1].sigmask
    OBVIOUS
  <2>2. n - 1 \in 2 .. n - 1 /\ n - 2 \in 1 .. n - 1 /\ (n - 1) - 1 = n - 2 /\ Len(x.ctx) - 1 = n - 2
    BY <1>3, <1>4, <2>1
  <2>3. /\ <<"main", n - 2>> \in DOMAIN s.frame /\ s.frame[<<"main", n - 2>>].cpu = s.ctx[n - 2].cpu
        /\ s.frame[<<"main", n - 2>>].sigmask = s.ctx[n - 2].sigmask
    <3>1. PICK j : j = n - 1
      OBVIOUS
    <3>2. j \in 2 .. n - 1 /\ j - 1 = n - 2
      BY <2>2, <3>1
    <3> QED
      BY <1>8, <1>9, <3>2
  <2> QED
    BY <1>2, <1>4, <1>10, <2>2, <2>3
<1>15. StackOK(x)
  <2>1. Place(x.cpu) = Place(Top(x.ctx).cpu)
    BY <1>5, <1>6
  <2>2. x.cpu.depth = Len(x.ctx) - 1 /\ (x.cpu.sig = 0 <=> Len(x.ctx) = 1)
    BY <1>3, <1>4, <1>10
  <2>3. Len(x.ctx) >= 2 => Here(x) \in DOMAIN x.frame /\ x.frame[Here(x)].cpu = x.ctx[Len(x.ctx) - 1].cpu
    BY <1>3, <1>4, <1>14
  <2> QED
    BY <1>4, <1>5, <1>10, <1>11, <1>13, <2>1, <2>2, <2>3 DEF StackOK
<1>16. LastMask(x)
  BY <1>3, <1>4, <1>14 DEF LastMask
<1>17. LastMask(s) => TopMask(x)
  BY <1>1, <1>2, <1>3, <1>5 DEF LastMask, TopMask
<1> QED
  BY <1>1, <1>2, <1>3, <1>4, <1>5, <1>6, <1>13, <1>15, <1>16, <1>17 DEF Restored

\* The call that waited goes on.
LEMMA ResumeKeeps ==
  ASSUME NEW s, Inside(s), Free(s) \/ Awaits(s), NEW x, Restored(s, x),
         Free(s) => LastMask(s), NEW r, r = Resume(x), r.orderly
  PROVE  Base(r) /\ Free(r) /\ (Inside(r) => ~r.restored) /\ Grown(x, r)
<1>1. PICK call, t, u : call = Top(x.calls) /\ t = Leave(x) /\ u = [t EXCEPT !.interrupted = TRUE]
  OBVIOUS
<1>2. Base(x) /\ Inside(x) /\ x.calls = s.calls /\ x.interrupted
  BY DEF Restored, Inside
<1>3. /\ Base(t) /\ ~t.restored /\ t.cpu = x.cpu /\ t.sigmask = x.sigmask /\ t.frame = x.frame
      /\ t.interrupted = x.interrupted /\ t.ctx = x.ctx
      /\ Len(t.calls) = Len(x.calls) - 1 /\ Len(x.calls) \in Nat /\ Len(t.calls) \in Nat
      /\ \A i \in 1 .. Len(t.calls) : t.calls[i] = x.calls[i]
  <2>1. Base(x) /\ Inside(x) /\ t = Leave(x)
    BY <1>1, <1>2
  <2>2. /\ Base(t) /\ ~t.restored /\ t.cpu = x.cpu /\ t.sigmask = x.sigmask /\ t.frame = x.frame
        /\ t.interrupted = x.interrupted /\ t.ctx = x.ctx
    BY ONLY <2>1, LeaveEffect
  <2>3. /\ Len(t.calls) = Len(x.calls) - 1 /\ Len(x.calls) \in Nat /\ Len(t.calls) \in Nat
        /\ \A i \in 1 .. Len(t.calls) : t.calls[i] = x.calls[i]
    BY ONLY <2>1, LeaveCalls
  <2> QED
    BY <2>2, <2>3
<1>4. Loops(s.calls, Len(s.calls) - 1) /\ SameStack(x, t) /\ Len(x.ctx) \in Nat
  BY <1>2, <1>3 DEF Free, Awaits, Loops, SameStack, Restored, StackOK
<1>5. Loops(t.calls, Len(t.calls))
  BY <1>2, <1>3, <1>4 DEF Loops
<1>6. StackOK(t) /\ FrameMasks(t) /\ LastMask(t) /\ Grown(x, t)
  BY <1>3, <1>4, SameStackKeeps DEF Restored, Grown
<1>7. r = IF call.kind = "sigprocmask" THEN SigprocmaskLoop(t) ELSE Pop(u, call)
  BY <1>1 DEF Resume, Top
<1>8. CASE Free(s)
  <2>1. TopMask(t)
    BY <1>4, <1>8, SameStackKeeps DEF Restored
  <2>2. call.kind = "sigprocmask"
    BY <1>1, <1>2, <1>3, <1>8 DEF Free, Loops, Top
  <2>3. Free(t) /\ r = SigprocmaskLoop(t)
    BY <1>5, <1>6, <1>7, <2>1, <2>2 DEF Free, Settled
  <2>4. Base(r) /\ Free(r) /\ (Inside(r) => ~r.restored) /\ Grown(t, r)
    BY <1>3, <2>3, LoopKeeps
  <2> QED
    BY <1>6, <2>4, GrownTransitive
<1>9. CASE Awaits(s)
  <2>1. call \in WaitCalls /\ call.kind # "sigprocmask"
    BY <1>1, <1>2, <1>9 DEF Awaits, WaitCalls, Waits
  <2>2. r = Pop(u, call)
    BY <1>7, <2>1
  <2>3. /\ DOMAIN u = Fields /\ u.cpu = t.cpu /\ u.hands = t.hands
        /\ u.signals = t.signals /\ u.sigmask = t.sigmask /\ u.frame = t.frame
        /\ u.attention = t.attention /\ u.restored = t.restored /\ u.interrupted = TRUE
        /\ u.calls = t.calls /\ u.ended = t.ended /\ u.ctx = t.ctx /\ u.skipped = t.skipped /\ u.orderly = t.orderly
    BY <1>1, <1>3 DEF Base, Fields
  <2>4. Base(u)
    BY <1>3, <2>3 DEF Base
  <2>5. /\ Base(r) /\ r.cpu.sig = u.cpu.sig /\ r.cpu.stack = u.cpu.stack /\ r.cpu.depth = u.cpu.depth
        /\ r.frame = u.frame /\ r.restored = u.restored /\ r.interrupted = u.interrupted /\ r.calls = u.calls
        /\ r.ctx = u.ctx /\ r.sigmask = IF call.kind = "pause" THEN u.sigmask ELSE call.oldmask
        /\ u.interrupted => r.cpu = u.cpu
    BY <2>1, <2>2, <2>4, PopEffect
  <2>7. StackOK(r) /\ FrameMasks(r) /\ LastMask(r)
    <3>1. StackOK(x) /\ FrameMasks(x) /\ LastMask(x)
      BY DEF Restored
    <3>2. /\ r.ctx = x.ctx /\ r.frame = x.frame
          /\ r.cpu.sig = x.cpu.sig /\ r.cpu.stack = x.cpu.stack /\ r.cpu.depth = x.cpu.depth
      BY <1>3, <2>3, <2>5
    <3> QED
      BY <3>1, <3>2, MaskChanges
  <2>8. TopMask(r)
    <3>1. CASE call.kind = "pause"
      <4>1. TopMask(x)
        BY <1>1, <1>2, <1>9, <3>1 DEF Awaits, Restored
      <4> QED
        BY <1>3, <2>3, <2>5, <3>1, <4>1 DEF TopMask
    <3>2. CASE call.kind # "pause"
      BY <1>1, <1>2, <1>3, <1>9, <2>3, <2>5, <3>2 DEF Awaits, Restored, TopMask
    <3> QED
      BY <3>1, <3>2
  <2>9. Free(r) /\ ~r.restored
    BY <1>3, <1>5, <2>3, <2>5, <2>7, <2>8 DEF Free, Settled
  <2>10. Grown(x, r)
    <3>1. r.ctx = x.ctx /\ r.cpu = x.cpu /\ r.interrupted
      BY <1>3, <2>3, <2>5
    <3> QED
      BY <1>4, <3>1 DEF Grown
  <2> QED
    BY <2>5, <2>9, <2>10
<1> QED
  BY <1>8, <1>9

-----------------------------------------------------------------------------
(* The instructions keep the invariant. *)

LEMMA SameKeeps ==
  ASSUME NEW s, NEW t, IInv(s), Base(t), SameStack(s, t), t.calls = s.calls, t.restored = s.restored
  PROVE  IInv(t) /\ Len(t.ctx) = Len(s.ctx)
<1>1. Len(t.ctx) = Len(s.ctx)
  BY DEF SameStack
<1>2. Inside(t) => ~t.restored
  BY DEF IInv, Inside
<1>3. CASE Free(s)
  BY <1>1, <1>2, <1>3, SameStackKeeps DEF IInv, Free
<1>4. CASE Awaits(s)
  <2>1. StackOK(t) /\ FrameMasks(t) /\ TopMask(t) /\ (LastMask(s) => LastMask(t))
    BY <1>4, SameStackKeeps DEF Awaits
  <2>2. Awaits(t)
    BY <1>4, <2>1 DEF Awaits, SameStack, Inside
  <2> QED
    BY <1>1, <1>2, <2>2 DEF IInv
<1> QED
  BY <1>3, <1>4 DEF IInv

\* A call with a mask of its own waits: another handler that starts is a disorder, and
\* nothing else that the loop does disturbs it.
LEMMA AwaitsConsume ==
  ASSUME NEW s, Base(s), Awaits(s), NEW c, c = ConsumeSignal(s), c.s.orderly
  PROVE  c.delivered = 0 /\ SameStack(s, c.s)
<1>1. \/ c.delivered = 0 /\ NotDelivered(s, c.s)
      \/ c.delivered # 0 /\ \E u : Delivered(s, u, c.s, c.delivered)
  BY ConsumeEffect
<1>2. ASSUME NEW u, Delivered(s, u, c.s, c.delivered)
      PROVE  FALSE
  <2>1. PICK sig, t : sig = c.delivered /\ t = c.s
    OBVIOUS
  <2>2. sig \in Sigs /\ Base(u) /\ t = DeliverSignal(u, sig) /\ t.orderly /\ SameStack(s, u) /\ u.calls = s.calls
    BY <1>2, <2>1 DEF Delivered, Pending, Base, SameStack
  <2>3. ~Awaits(u)
    BY <2>2, DeliverOrderly
  <2>4. StackOK(u) /\ FrameMasks(u) /\ TopMask(u) /\ (LastMask(s) => LastMask(u))
    BY <2>2, SameStackKeeps DEF Awaits
  <2>5. Awaits(u)
    BY <2>2, <2>4 DEF Awaits, SameStack, Inside
  <2> QED
    BY <2>3, <2>5
<1>3. CASE c.delivered = 0 /\ NotDelivered(s, c.s)
  BY <1>3 DEF NotDelivered, SameStack
<1> QED
  BY <1>1, <1>2, <1>3

LEMMA AwaitsCheck ==
  ASSUME NEW s, IInv(s), Awaits(s), NEW t, t = CheckForSignals(s), t.orderly
  PROVE  IInv(t) /\ Len(t.ctx) = Len(s.ctx)
<1>1. Base(s)
  BY DEF IInv
<1>2. CASE Pending(s) # {}
  <2>1. PICK c : c = ConsumeSignal(s)
    OBVIOUS
  <2>2. t = c.s
    BY <1>2, <2>1 DEF CheckForSignals
  <2>3. Base(c.s) /\ c.s.calls = s.calls /\ c.s.restored = s.restored
    BY <1>1, <2>1, ConsumeEffect
  <2>4. SameStack(s, c.s)
    BY <1>1, <2>1, <2>2, AwaitsConsume
  <2> QED
    BY <2>2, <2>3, <2>4, SameKeeps
<1>3. CASE Pending(s) = {}
  <2>1. t = [s EXCEPT !.attention = FALSE]
    BY <1>3 DEF CheckForSignals
  <2>2. /\ Base(t) /\ t.cpu = s.cpu /\ t.sigmask = s.sigmask /\ t.frame = s.frame /\ t.ctx = s.ctx
        /\ t.calls = s.calls /\ t.restored = s.restored
    BY <1>1, <2>1, ClearAttention
  <2>3. SameStack(s, t)
    BY <2>2 DEF SameStack
  <2> QED
    BY <2>2, <2>3, SameKeeps
<1> QED
  BY <1>2, <1>3

LEMMA AwaitsLoop ==
  ASSUME NEW s, IInv(s), Awaits(s), NEW t, t = SigprocmaskLoop(s), t.orderly
  PROVE  IInv(t) /\ Len(t.ctx) = Len(s.ctx)
<1>1. Base(s)
  BY DEF IInv
<1>2. PICK c, r : c = ConsumeSignal(s) /\ r = c.s
  OBVIOUS
<1>3. Base(r) /\ r.calls = s.calls /\ r.restored = s.restored
  BY <1>1, <1>2, ConsumeEffect
<1>4. r.orderly
  BY <1>1, <1>2, <1>3, LoopOrderly
<1>5. c.delivered = 0 /\ SameStack(s, r)
  BY <1>1, <1>2, <1>4, AwaitsConsume
<1>6. t = Result(r, "ok") /\ "ok" \in Answers /\ Base(r)
  BY <1>2, <1>3, <1>5 DEF SigprocmaskLoop, Answers
<1>7. /\ Base(t) /\ t.cpu.sig = r.cpu.sig /\ t.cpu.stack = r.cpu.stack /\ t.cpu.depth = r.cpu.depth
      /\ t.sigmask = r.sigmask /\ t.frame = r.frame /\ t.ctx = r.ctx
      /\ t.restored = r.restored /\ t.calls = r.calls
  BY ONLY <1>6, ResultEffect
<1>8. SameStack(s, t)
  BY <1>5, <1>7 DEF SameStack
<1> QED
  BY <1>3, <1>7, <1>8, SameKeeps

LEMMA ExecutedKeeps ==
  ASSUME NEW s, NEW x, IInv(x), Len(x.calls) >= Len(s.calls), Base(s),
         NEW t, t = Executed(s, x), t.orderly
  PROVE  IInv(t) /\ Len(t.ctx) >= Len(x.ctx)
<1>1. Len(x.ctx) \in Nat
  BY DEF IInv, Free, Awaits, Settled, StackOK
<1>2. CASE t = x
  BY <1>1, <1>2
<1>3. CASE t # x
  <2>1. t = SignalActor(x) /\ s.calls # <<>> /\ ~(Len(x.calls) > Len(s.calls))
    BY <1>3 DEF Executed
  <2>2. Inside(x) /\ ~x.restored /\ Base(x)
    BY <2>1 DEF Inside, Base, IInv
  <2>3. x.attention /\ ~x.ended
    BY <1>3, <2>1 DEF SignalActor
  <2>4. t = CheckForSignals(x)
    BY <2>1, <2>2, <2>3 DEF SignalActor
  <2>5. CASE Awaits(x)
    BY <1>1, <2>4, <2>5, AwaitsCheck
  <2>6. CASE Free(x)
    <3>1. Base(t) /\ Settled(t) /\ Grown(x, t) /\ t.calls = x.calls /\ t.restored = x.restored
      BY <2>2, <2>4, <2>6, CheckKeeps DEF Free
    <3> QED
      BY <2>2, <2>6, <3>1 DEF IInv, Free, Grown
  <2> QED
    BY <2>5, <2>6 DEF IInv
<1> QED
  BY <1>2, <1>3

LEMMA EnteredKeeps ==
  ASSUME IInv(g), NEW e, e = Entered
  PROVE  /\ IInv(e) /\ Len(e.ctx) = Len(g.ctx) /\ e.calls = g.calls /\ Len(g.calls) \in Nat /\ Len(g.ctx) \in Nat
         /\ Free(g) => Free(e)
<1>1. Base(g)
  BY DEF IInv
<1>2. Base(e) /\ Unstarted(g, e)
  BY <1>1, EnteredEffect
<1>3. SameStack(g, e)
  BY <1>2 DEF SameStack, Unstarted
<1>4. IInv(e) /\ Len(e.ctx) = Len(g.ctx)
  BY <1>2, <1>3, SameKeeps DEF Unstarted
<1>5. e.calls = g.calls /\ Len(g.calls) \in Nat
  BY <1>1, <1>2 DEF Unstarted, Base
<1>6. Len(g.ctx) \in Nat
  BY DEF IInv, Free, Awaits, Settled, StackOK
<1>7. Free(g) => Free(e)
  BY <1>3, <1>5, SameStackKeeps DEF Free
<1> QED
  BY <1>4, <1>5, <1>6, <1>7

LEMMA TkillKeeps ==
  ASSUME IInv(g), NEW sig \in Sigs, Tkill(sig), g'.orderly
  PROVE  IInv(g') /\ Len(g'.ctx) >= Len(g.ctx)
<1>1. PICK e, x : e = Entered /\ x = SysTkill(e, sig)
  OBVIOUS
<1>2. g' = Executed(g, x) /\ Base(g)
  BY <1>1 DEF Tkill, Execute, Executed, IInv
<1>3. Base(e) /\ Unstarted(g, e)
  BY <1>1, <1>2, EnteredEffect
<1>4. IInv(e) /\ Len(e.ctx) = Len(g.ctx) /\ e.calls = g.calls /\ Len(g.calls) \in Nat /\ Len(g.ctx) \in Nat
  BY <1>1, EnteredKeeps
<1>5. Base(x) /\ x.calls = g.calls /\ (x.orderly => IInv(x) /\ Len(x.ctx) >= Len(g.ctx) /\ Len(x.ctx) \in Nat)
  <2>1. ASSUME NEW u, Base(u), x = Result(u, "ok"), u.cpu = e.cpu, u.sigmask = e.sigmask, u.frame = e.frame,
               u.attention = e.attention, u.restored = e.restored, u.calls = e.calls, u.ended = e.ended, u.ctx = e.ctx
        PROVE  Base(x) /\ x.calls = g.calls /\ (x.orderly => IInv(x) /\ Len(x.ctx) >= Len(g.ctx) /\ Len(x.ctx) \in Nat)
    <3>1. /\ Base(x) /\ x.cpu.sig = u.cpu.sig /\ x.cpu.stack = u.cpu.stack /\ x.cpu.depth = u.cpu.depth
          /\ x.sigmask = u.sigmask /\ x.frame = u.frame /\ x.ctx = u.ctx
          /\ x.attention = u.attention /\ x.restored = u.restored /\ x.calls = u.calls /\ x.ended = u.ended
      BY <2>1, ResultEffect DEF Answers
    <3>2. SameStack(e, x)
      BY <2>1, <3>1 DEF SameStack
    <3>3. IInv(x) /\ Len(x.ctx) = Len(e.ctx)
      BY <1>4, <2>1, <3>1, <3>2, SameKeeps
    <3> QED
      BY <1>4, <2>1, <3>1, <3>3 DEF IInv
  <2>2. CASE x = Terminate(e)
    <3>1. /\ Base(x) /\ x.ended /\ x.cpu = e.cpu /\ x.sigmask = e.sigmask /\ x.frame = e.frame
          /\ x.attention = e.attention /\ x.restored = e.restored /\ x.calls = e.calls /\ x.ctx = e.ctx
      BY <1>3, <2>2, Ended
    <3>2. SameStack(e, x)
      BY <3>1 DEF SameStack
    <3>3. IInv(x) /\ Len(x.ctx) = Len(e.ctx)
      BY <1>4, <3>1, <3>2, SameKeeps
    <3> QED
      BY <1>4, <3>1, <3>3 DEF IInv
  <2>3. CASE x = Result(e, "ok")
    BY <1>3, <2>1, <2>3
  <2>4. ASSUME sig \notin e.sigmask, e.hands[sig].handler = "fn",
               NEW u, Base(u), x = DeliverSignal(u, sig),
               u.cpu.sig = e.cpu.sig, u.cpu.stack = e.cpu.stack, u.cpu.depth = e.cpu.depth,
               u.sigmask = e.sigmask, u.frame = e.frame, u.hands = e.hands,
               u.restored = e.restored, u.calls = e.calls, u.ctx = e.ctx
        PROVE  Base(x) /\ x.calls = g.calls /\ (x.orderly => IInv(x) /\ Len(x.ctx) >= Len(g.ctx) /\ Len(x.ctx) \in Nat)
    <3>1. Base(x) /\ x.calls = u.calls /\ x.restored = u.restored
      BY <2>4, DeliverEffect
    <3>2. SameStack(e, u) /\ u.hands[sig].handler = "fn" /\ sig \notin u.sigmask
      BY <2>4 DEF SameStack
    <3>3. ASSUME x.orderly
          PROVE  IInv(x) /\ Len(x.ctx) >= Len(g.ctx) /\ Len(x.ctx) \in Nat
      <4>1. u.cpu.stack = "main" /\ ~Awaits(u)
        BY <2>4, <3>3, DeliverOrderly
      <4>2. Free(e)
        <5>1. Awaits(e) => Awaits(u)
          <6>1. SUFFICES ASSUME Awaits(e) PROVE Awaits(u)
            OBVIOUS
          <6>2. StackOK(u) /\ FrameMasks(u) /\ TopMask(u) /\ (LastMask(e) => LastMask(u))
            BY <3>2, <6>1, SameStackKeeps DEF Awaits
          <6> QED
            BY <2>4, <6>1, <6>2 DEF Awaits, Inside
        <5> QED
          BY <1>4, <4>1, <5>1 DEF IInv
      <4>3. StackOK(u) /\ FrameMasks(u) /\ LastMask(u) /\ TopMask(u)
        BY <3>2, <4>2, SameStackKeeps DEF Free, Settled
      <4>4. StackOK(x) /\ FrameMasks(x) /\ TopMask(x) /\ Len(x.ctx) = Len(u.ctx) + 1 /\ LastMask(x)
        BY <2>4, <3>2, <4>1, <4>3, DeliverKeeps
      <4>5. Free(x) /\ (Inside(x) => ~x.restored)
        BY <1>4, <2>4, <3>1, <4>2, <4>4 DEF Free, Settled, IInv, Inside
      <4> QED
        BY <1>4, <2>4, <3>1, <4>4, <4>5 DEF IInv
    <3> QED
      BY <1>4, <2>4, <3>1, <3>3
  <2>5. TkillOutcome(e, sig, x)
    BY <1>1, <1>3, TkillEffect
  <2>6. CASE sig \in e.sigmask /\ x # Result(e, "ok") /\ x # Terminate(e)
    BY <2>1, <2>5, <2>6 DEF TkillOutcome
  <2>7. CASE sig \notin e.sigmask /\ x # Result(e, "ok") /\ x # Terminate(e)
    BY <2>4, <2>5, <2>7 DEF TkillOutcome
  <2> QED
    BY <2>2, <2>3, <2>6, <2>7
<1>6. Len(x.calls) >= Len(g.calls)
  BY <1>4, <1>5
<1>9. x.orderly
  BY <1>2, <1>5, <1>6, ExecutedOrderly
<1>7. IInv(g') /\ Len(g'.ctx) >= Len(x.ctx)
  BY <1>2, <1>5, <1>6, <1>9, ExecutedKeeps
<1>8. Len(g'.ctx) \in Nat
  BY <1>7 DEF IInv, Free, Awaits, Settled, StackOK
<1> QED
  BY <1>4, <1>5, <1>7, <1>8, <1>9

LEMMA SigactionKeeps ==
  ASSUME IInv(g), NEW sig \in Sigs, NEW hand \in Hands, Sigaction(sig, hand), g'.orderly
  PROVE  IInv(g') /\ Len(g'.ctx) >= Len(g.ctx)
<1>1. PICK e, x : e = Entered /\ x = SysSigaction(e, sig, hand)
  OBVIOUS
<1>2. g' = Executed(g, x) /\ Base(g)
  BY <1>1 DEF Sigaction, Execute, Executed, IInv
<1>3. IInv(e) /\ Len(e.ctx) = Len(g.ctx) /\ e.calls = g.calls /\ Len(g.calls) \in Nat /\ Base(e)
  BY <1>1, EnteredKeeps DEF IInv
<1>4. PICK u : /\ Base(u) /\ x = Result(u, "ok") /\ u.cpu = e.cpu /\ u.sigmask = e.sigmask /\ u.frame = e.frame
               /\ u.attention = e.attention /\ u.restored = e.restored
               /\ u.calls = e.calls /\ u.ended = e.ended /\ u.ctx = e.ctx
  BY <1>1, <1>3, SigactionEffect
<1>5. /\ Base(x) /\ x.cpu.sig = u.cpu.sig /\ x.cpu.stack = u.cpu.stack /\ x.cpu.depth = u.cpu.depth
      /\ x.sigmask = u.sigmask /\ x.frame = u.frame /\ x.ctx = u.ctx
      /\ x.attention = u.attention /\ x.restored = u.restored /\ x.calls = u.calls /\ x.ended = u.ended
  BY <1>4, ResultEffect DEF Answers
<1>6. SameStack(e, x)
  BY <1>4, <1>5 DEF SameStack
<1>7. IInv(x) /\ Len(x.ctx) = Len(e.ctx)
  BY <1>3, <1>4, <1>5, <1>6, SameKeeps
<1>8. Len(x.calls) >= Len(g.calls)
  BY <1>3, <1>4, <1>5
<1> QED
  BY <1>2, <1>3, <1>7, <1>8, ExecutedKeeps

LEMMA SigprocmaskKeeps ==
  ASSUME IInv(g), NEW how \in {"block", "unblock", "setmask"}, NEW set \in Masks,
         Sigprocmask(how, set), g'.orderly
  PROVE  IInv(g') /\ Len(g'.ctx) >= Len(g.ctx)
<1>1. PICK e, x : e = Entered /\ x = SysSigprocmask(e, how, set)
  OBVIOUS
<1>2. g' = Executed(g, x) /\ Base(g)
  BY <1>1 DEF Sigprocmask, Execute, Executed, IInv
<1>3. /\ IInv(e) /\ Len(e.ctx) = Len(g.ctx) /\ e.calls = g.calls /\ Len(g.calls) \in Nat /\ Len(g.ctx) \in Nat
      /\ Base(e) /\ StackOK(e) /\ FrameMasks(e)
  BY <1>1, EnteredKeeps DEF IInv, Free, Awaits, Settled
<1>4. PICK u, mask : /\ Base(u) /\ x = SigprocmaskLoop(u) /\ mask \subseteq Sigs /\ u.sigmask = mask
                     /\ u.cpu.sig = e.cpu.sig /\ u.cpu.stack = e.cpu.stack /\ u.cpu.depth = e.cpu.depth
                     /\ u.frame = e.frame /\ u.restored = e.restored /\ u.calls = e.calls
                     /\ u.ctx = Remasked(e.ctx, mask)
  <2>1. SigprocmaskOutcome(e, x)
    BY <1>1, <1>3, SigprocmaskEffect
  <2> QED
    BY <2>1 DEF SigprocmaskOutcome
<1>5. PICK n, a : n = Len(e.ctx) /\ a = Context(e.ctx[n].cpu, mask)
  OBVIOUS
<1>6. n \in Nat /\ n >= 1 /\ e.ctx \in Seq(Contexts) /\ e.ctx[n] \in Contexts
  BY <1>3, <1>5 DEF StackOK
<1>7. a \in Contexts /\ a.cpu = e.ctx[n].cpu /\ a.sigmask = mask
  BY <1>4, <1>5, <1>6 DEF Context, Contexts
<1>8. u.ctx \in Seq(Contexts) /\ Len(u.ctx) = n /\ u.ctx[n] = a /\ \A i \in 1 .. n - 1 : u.ctx[i] = e.ctx[i]
  <2>1. PICK q, r : q = e.ctx /\ r = u.ctx
    OBVIOUS
  <2>2. r = Replaced(q, a) /\ q \in Seq(Contexts) /\ Len(q) >= 1 /\ a \in Contexts
    BY <1>4, <1>5, <1>6, <1>7, <2>1 DEF Remasked
  <2>3. r \in Seq(Contexts) /\ Len(r) = Len(q) /\ r[Len(q)] = a /\ \A i \in 1 .. Len(q) - 1 : r[i] = q[i]
    BY ONLY <2>2, ReplacedSeq
  <2> QED
    BY <1>5, <2>1, <2>3
<1>9. StackOK(e) /\ FrameMasks(e)
  BY <1>3
<1>10. Here(u) = Here(e) /\ Place(u.cpu) = Place(e.cpu)
  BY <1>4 DEF Here, Place
<1>11. \A i \in 2 .. n : i - 1 \in 1 .. n - 1
  BY <1>6
<1>12. Bottoms(u.ctx)
  <2>1. \A i \in 1 .. n - 1 : /\ e.ctx[i].cpu.stack = "main" /\ e.ctx[i].cpu.depth = i - 1
                            /\ (e.ctx[i].cpu.sig = 0 <=> i = 1)
    BY <1>5, <1>9 DEF StackOK, Bottoms
  <2>2. \A i \in 1 .. n - 1 : /\ u.ctx[i].cpu.stack = "main" /\ u.ctx[i].cpu.depth = i - 1
                            /\ (u.ctx[i].cpu.sig = 0 <=> i = 1)
    BY <1>8, <2>1
  <2> QED
    BY <1>8, <2>2 DEF Bottoms
<1>13. Saved(u.ctx, u.frame)
  <2>1. \A i \in 2 .. n - 1 : <<"main", i - 1>> \in DOMAIN e.frame /\ e.frame[<<"main", i - 1>>].cpu = e.ctx[i - 1].cpu
    BY <1>5, <1>9 DEF StackOK, Saved
  <2>2. \A i \in 2 .. n - 1 : i \in 2 .. n
    BY <1>6
  <2>3. \A i \in 2 .. n - 1 : <<"main", i - 1>> \in DOMAIN u.frame /\ u.frame[<<"main", i - 1>>].cpu = u.ctx[i - 1].cpu
    BY <1>4, <1>8, <1>11, <2>1, <2>2
  <2> QED
    BY <1>8, <2>3 DEF Saved
<1>14. FrameMasks(u)
  <2>1. \A i \in 2 .. n - 1 : e.frame[<<"main", i - 1>>].sigmask = e.ctx[i - 1].sigmask
    BY <1>5, <1>9 DEF FrameMasks
  <2>2. \A i \in 2 .. n - 1 : i \in 2 .. n
    BY <1>6
  <2>3. \A i \in 2 .. n - 1 : u.frame[<<"main", i - 1>>].sigmask = u.ctx[i - 1].sigmask
    BY <1>4, <1>8, <1>11, <2>1, <2>2
  <2> QED
    BY <1>8, <2>3 DEF FrameMasks
<1>15. /\ n >= 2 => Here(u) \in DOMAIN u.frame /\ u.frame[Here(u)].cpu = u.ctx[n - 1].cpu
       /\ LastMask(e) /\ n >= 2 => u.frame[Here(u)].sigmask = u.ctx[n - 1].sigmask
       /\ n >= 2 => u.ctx[n - 1] = e.ctx[n - 1]
  <2>1. /\ n >= 2 => Here(e) \in DOMAIN e.frame /\ e.frame[Here(e)].cpu = e.ctx[n - 1].cpu
        /\ LastMask(e) /\ n >= 2 => e.frame[Here(e)].sigmask = e.ctx[n - 1].sigmask
    BY <1>5, <1>9 DEF StackOK, LastMask
  <2>2. n >= 2 => n - 1 \in 1 .. n - 1
    BY <1>6
  <2> QED
    BY <1>4, <1>8, <1>10, <2>1, <2>2
<1>16. StackOK(u)
  <2>1. Place(u.cpu) = Place(Top(u.ctx).cpu)
    BY <1>5, <1>7, <1>8, <1>9, <1>10 DEF StackOK, Top
  <2>2. (u.cpu.sig = 0 <=> n = 1)
    BY <1>4, <1>5, <1>9 DEF StackOK
  <2>3. \/ u.cpu.stack = "main" /\ u.cpu.depth = n - 1
        \/ u.cpu.stack = "alt" /\ u.cpu.depth = 1 /\ n >= 2
    BY <1>4, <1>5, <1>9 DEF StackOK
  <2> QED
    BY <1>6, <1>8, <1>12, <1>13, <1>15, <2>1, <2>2, <2>3 DEF StackOK
<1>17. TopMask(u) /\ (LastMask(e) => LastMask(u))
  <2>1. TopMask(u)
    BY <1>4, <1>7, <1>8 DEF TopMask, Top
  <2>2. LastMask(e) => LastMask(u)
    BY <1>8, <1>15 DEF LastMask
  <2> QED
    BY <2>1, <2>2
<1>18. (Free(e) => Free(u)) /\ (Awaits(e) => Awaits(u)) /\ (Inside(u) => ~u.restored) /\ IInv(u)
  <2>1. Free(e) => Free(u)
    BY <1>4, <1>14, <1>16, <1>17 DEF Free, Settled
  <2>2. Awaits(e) => Awaits(u)
    <3>1. SUFFICES ASSUME Awaits(e) PROVE Awaits(u)
      OBVIOUS
    <3>2. n >= 2 /\ Top(u.calls).oldmask = u.ctx[n - 1].sigmask
      BY <1>4, <1>5, <1>15, <3>1 DEF Awaits
    <3> QED
      BY <1>4, <1>8, <1>14, <1>16, <1>17, <3>1, <3>2 DEF Awaits, Inside
  <2>3. Inside(u) => ~u.restored
    BY <1>3, <1>4 DEF IInv, Inside
  <2> QED
    BY <1>3, <1>4, <2>1, <2>2, <2>3 DEF IInv
<1>20. Base(x) /\ Len(x.calls) >= Len(g.calls)
  BY <1>3, <1>4, LoopAttention
<1>24. x.orderly
  BY <1>2, <1>20, ExecutedOrderly
<1>19. IInv(x) /\ Len(x.ctx) >= Len(u.ctx) /\ Len(x.ctx) \in Nat
  <2>1. CASE Free(u)
    <3>1. Base(x) /\ Free(x) /\ (Inside(x) => ~x.restored) /\ Grown(u, x)
      BY <1>4, <1>18, <1>24, <2>1, LoopKeeps
    <3> QED
      BY <3>1 DEF IInv, Grown
  <2>2. CASE Awaits(u)
    <3>1. IInv(x) /\ Len(x.ctx) = Len(u.ctx)
      BY <1>4, <1>18, <1>24, <2>2, AwaitsLoop
    <3> QED
      BY <1>6, <1>8, <3>1
  <2> QED
    BY <1>18, <2>1, <2>2 DEF IInv
<1>21. Len(x.ctx) >= Len(g.ctx)
  BY <1>3, <1>5, <1>8, <1>19
<1>22. IInv(g') /\ Len(g'.ctx) >= Len(x.ctx)
  BY <1>2, <1>19, <1>20, <1>24, ExecutedKeeps
<1>23. Len(g'.ctx) \in Nat
  BY <1>22 DEF IInv, Free, Awaits, Settled, StackOK
<1> QED
  BY <1>3, <1>19, <1>21, <1>22, <1>23

LEMMA SuspendKeeps ==
  ASSUME IInv(g), NEW kind \in Waits, NEW mask \in Masks, Suspend(kind, mask), g'.orderly
  PROVE  IInv(g') /\ Len(g'.ctx) >= Len(g.ctx)
<1>1. PICK e, x : e = Entered /\ x = SysSuspend(e, kind, mask)
  OBVIOUS
<1>2. g' = Executed(g, x) /\ Base(g)
  BY <1>1 DEF Suspend, Execute, Executed, IInv
<1>3. /\ IInv(e) /\ Len(e.ctx) = Len(g.ctx) /\ e.calls = g.calls /\ Len(g.calls) \in Nat /\ Len(g.ctx) \in Nat
      /\ Base(e) /\ StackOK(e) /\ FrameMasks(e) /\ TopMask(e) /\ (Free(e) => LastMask(e)) /\ (Free(e) \/ Awaits(e))
  BY <1>1, EnteredKeeps DEF IInv, Free, Awaits, Settled
<1>4. PICK u, call : /\ Base(u) /\ call \in WaitCalls /\ call.kind = kind /\ call.oldmask = e.sigmask
                     /\ x = CheckInterrupt(u, call) /\ (kind = "pause" => u.sigmask = e.sigmask)
                     /\ u.cpu = e.cpu /\ u.frame = e.frame /\ u.attention = e.attention /\ u.restored = e.restored
                     /\ u.calls = e.calls /\ u.ctx = e.ctx
  BY <1>1, <1>3, SuspendEffect
<1>5. PICK p, c, q :
           /\ p = PutAx(u, "eintr") /\ Base(p) /\ c = ConsumeSignal(p)
           /\ \/ c.delivered # 0 /\ CanRecurse(u) /\ x = Await(c.s, call)
              \/ /\ ~(c.delivered # 0 /\ CanRecurse(u)) /\ x = Pop(q, call) /\ Base(q)
                 /\ q.interrupted = (c.delivered # 0) /\ q.cpu = c.s.cpu /\ q.signals = c.s.signals
                 /\ q.sigmask = c.s.sigmask /\ q.frame = c.s.frame /\ q.attention = c.s.attention
                 /\ q.restored = c.s.restored /\ q.calls = c.s.calls /\ q.ended = c.s.ended
                 /\ q.ctx = c.s.ctx /\ q.skipped = c.s.skipped /\ q.orderly = (c.s.orderly /\ c.delivered = 0)
  BY <1>4, InterruptEffect
<1>6. /\ p.cpu.sig = e.cpu.sig /\ p.cpu.stack = e.cpu.stack /\ p.cpu.depth = e.cpu.depth
      /\ p.sigmask = u.sigmask /\ p.frame = e.frame /\ p.ctx = e.ctx
      /\ p.attention = e.attention /\ p.restored = e.restored /\ p.calls = e.calls
  <2>1. /\ p.cpu.sig = u.cpu.sig /\ p.cpu.stack = u.cpu.stack /\ p.cpu.depth = u.cpu.depth
        /\ p.sigmask = u.sigmask /\ p.frame = u.frame /\ p.ctx = u.ctx
        /\ p.attention = u.attention /\ p.restored = u.restored /\ p.calls = u.calls
    BY <1>4, <1>5, PutAxEffect DEF Answers
  <2> QED
    BY <1>4, <2>1
<1>8. StackOK(p) /\ FrameMasks(p) /\ (LastMask(e) => LastMask(p)) /\ (kind = "pause" => TopMask(p))
  <2>1. StackOK(p) /\ FrameMasks(p) /\ (LastMask(e) => LastMask(p))
    BY <1>3, <1>6, MaskChanges
  <2>2. kind = "pause" => TopMask(p)
    BY <1>3, <1>4, <1>6 DEF TopMask
  <2> QED
    BY <2>1, <2>2
<1>9. Base(c.s) /\ c.s.calls = p.calls /\ c.s.attention = p.attention /\ c.s.restored = p.restored
  BY <1>5, ConsumeEffect
<1>10. Len(u.calls) \in Nat /\ u.calls = g.calls /\ u.ctx = e.ctx
  BY <1>3, <1>4
<1>13. x.orderly
  <2>1. PICK r : r = c.s
    OBVIOUS
  <2>2. ASSUME x = Await(r, call)
        PROVE  Base(x) /\ Len(x.calls) >= Len(g.calls)
    <3>1. x = Await(r, call) /\ call \in Calls /\ Base(r)
      BY <1>4, <1>9, <2>1, <2>2 DEF Calls
    <3>2. Base(x)
      BY ONLY <3>1, AwaitEffect
    <3>3. Len(x.calls) = Len(r.calls) + 1 /\ Len(r.calls) \in Nat
      BY ONLY <3>1, AwaitCalls
    <3> QED
      BY <1>3, <1>6, <1>9, <2>1, <3>2, <3>3
  <2>3. ASSUME x = Pop(q, call), Base(q), q.calls = c.s.calls
        PROVE  Base(x) /\ Len(x.calls) >= Len(g.calls)
    <3>1. Base(x) /\ x.calls = q.calls
      BY <1>4, <2>3, PopEffect
    <3> QED
      BY <1>3, <1>6, <1>9, <2>3, <3>1
  <2>4. Base(x) /\ Len(x.calls) >= Len(g.calls)
    BY <1>5, <2>1, <2>2, <2>3
  <2>5. x.orderly
    BY <1>2, <2>4, ExecutedOrderly
  <2> QED
    BY <2>5
<1>11. CASE c.delivered # 0
  <2>1. x = Await(c.s, call)
    <3>1. SUFFICES ASSUME x = Pop(q, call), Base(q), q.orderly = (c.s.orderly /\ c.delivered = 0) PROVE FALSE
      BY <1>5
    <3>2. x.orderly = q.orderly
      BY <1>4, <3>1, PopEffect
    <3> QED
      BY <1>11, <1>13, <3>1, <3>2
  <2>2. PICK r, sig : r = c.s /\ sig = c.delivered
    OBVIOUS
  <2>3. PICK v : Delivered(p, v, r, sig)
    BY <1>5, <1>11, <2>2, ConsumeEffect
  <2>4. /\ sig \in Sigs /\ sig \notin v.sigmask /\ Base(v) /\ r = DeliverSignal(v, sig)
        /\ v.hands[sig].handler = "fn" /\ SameStack(p, v) /\ v.ctx = p.ctx
    BY <1>5, <2>3 DEF Delivered, Pending, Base, SameStack
  <2>18. x = Await(r, call) /\ call \in Calls /\ Base(r)
    BY <1>4, <1>9, <2>1, <2>2 DEF Calls
  <2>19. x.orderly = r.orderly
    BY ONLY <2>18, AwaitEffect
  <2>20. v.cpu.stack = "main" /\ ~Delicate(v)
    BY <1>13, <2>4, <2>19, DeliverOrderly
  <2>21. Free(e)
    <3>1. ~Delicate(e)
      BY <1>6, <2>3, <2>20 DEF Delicate, Delivered
    <3> QED
      BY <1>3, <3>1, NotDelicate
  <2>5. StackOK(v) /\ FrameMasks(v) /\ LastMask(v) /\ (kind = "pause" => TopMask(v))
    BY <1>3, <1>8, <2>4, <2>21, SameStackKeeps
  <2>6. /\ StackOK(r) /\ FrameMasks(r) /\ TopMask(r) /\ Len(r.ctx) = Len(v.ctx) + 1 /\ Len(r.ctx) >= 2
        /\ r.ctx[Len(r.ctx) - 1].sigmask = Top(v.ctx).sigmask
        /\ TopMask(v) => LastMask(r)
    BY <2>4, <2>5, <2>20, DeliverKeeps
  <2>7. x = Await(r, call) /\ call \in Calls /\ Base(r)
    BY <1>4, <1>9, <2>1, <2>2 DEF Calls
  <2>8. /\ Base(x) /\ ~x.restored /\ x.cpu = r.cpu /\ x.sigmask = r.sigmask /\ x.frame = r.frame
        /\ x.attention = r.attention /\ x.ctx = r.ctx /\ Inside(x)
    BY ONLY <2>7, AwaitEffect
  <2>9. /\ Top(x.calls) = call /\ Len(x.calls) = Len(r.calls) + 1 /\ Len(r.calls) \in Nat
        /\ \A i \in 1 .. Len(r.calls) : x.calls[i] = r.calls[i]
    BY ONLY <2>7, AwaitCalls
  <2>10. r.calls = g.calls
    BY <1>3, <1>6, <1>9, <2>2
  <2>11. Loops(x.calls, Len(x.calls) - 1)
    <3>1. Len(x.calls) - 1 = Len(g.calls) /\ \A i \in 1 .. Len(g.calls) : x.calls[i] = g.calls[i]
      BY <2>9, <2>10
    <3> QED
      BY <1>3, <2>21, <3>1 DEF Free, Loops
  <2>12. SameStack(r, x)
    BY <2>8 DEF SameStack
  <2>13. StackOK(x) /\ FrameMasks(x) /\ TopMask(x) /\ (kind = "pause" => LastMask(x))
    BY <2>5, <2>6, <2>12, SameStackKeeps
  <2>14. call.oldmask = x.ctx[Len(x.ctx) - 1].sigmask
    BY <1>3, <1>4, <1>6, <2>4, <2>6, <2>8 DEF TopMask
  <2>15. IInv(x)
    BY <1>4, <2>6, <2>8, <2>9, <2>10, <2>11, <2>13, <2>14 DEF IInv, Awaits
  <2>16. Len(x.ctx) = Len(g.ctx) + 1 /\ Len(x.calls) > Len(g.calls)
    <3>1. x.ctx = r.ctx /\ v.ctx = e.ctx /\ Len(r.ctx) = Len(v.ctx) + 1
      BY <1>6, <2>4, <2>6, <2>8
    <3>2. Len(x.calls) = Len(g.calls) + 1
      BY <2>9, <2>10
    <3> QED
      BY <1>3, <3>1, <3>2
  <2>17. g' = x
    BY <1>2, <2>16 DEF Executed
  <2> QED
    BY <1>3, <2>15, <2>16, <2>17
<1>12. CASE c.delivered = 0
  <2>1. /\ x = Pop(q, call) /\ Base(q) /\ q.cpu = c.s.cpu /\ q.frame = c.s.frame
        /\ q.restored = c.s.restored /\ q.calls = c.s.calls /\ q.ctx = c.s.ctx
        /\ q.sigmask = c.s.sigmask
    BY <1>5, <1>12
  <2>2. NotDelivered(p, c.s)
    BY <1>5, <1>12, ConsumeEffect
  <2>3. /\ Base(x) /\ x.cpu.sig = q.cpu.sig /\ x.cpu.stack = q.cpu.stack /\ x.cpu.depth = q.cpu.depth
        /\ x.frame = q.frame /\ x.restored = q.restored /\ x.calls = q.calls
        /\ x.ctx = q.ctx /\ x.sigmask = IF call.kind = "pause" THEN q.sigmask ELSE call.oldmask
    BY <1>4, <2>1, PopEffect
  <2>4. x.sigmask = e.sigmask
    BY <1>4, <1>6, <2>1, <2>2, <2>3 DEF NotDelivered
  <2>5. SameStack(e, x) /\ x.calls = g.calls /\ x.restored = e.restored /\ x.ctx = e.ctx
    BY <1>3, <1>6, <1>9, <2>1, <2>2, <2>3, <2>4 DEF NotDelivered, SameStack
  <2>6. IInv(x) /\ Len(x.ctx) = Len(e.ctx)
    BY <1>3, <2>3, <2>5, SameKeeps
  <2>7. IInv(x) /\ Len(x.ctx) = Len(g.ctx) /\ Len(x.calls) >= Len(g.calls)
    BY <1>3, <2>5, <2>6
  <2> QED
    BY <1>2, <1>13, <2>7, ExecutedKeeps
<1> QED
  BY <1>11, <1>12

LEMMA SigreturnKeeps ==
  ASSUME IInv(g), Sigreturn, g'.orderly
  PROVE  /\ IInv(g') /\ Len(g.ctx) >= 2 /\ Len(g.ctx) \in Nat /\ Len(g'.ctx) \in Nat
         /\ Len(g'.ctx) = Len(g.ctx) - 1 => g'.cpu = g.ctx[Len(g.ctx) - 1].cpu
<1>1. PICK x, r : x = SigRestore(g) /\ r = Resume(x)
  OBVIOUS
<1>2. g' = Executed(g, x) /\ g.cpu.sig # 0 /\ ~g.ended /\ Base(g) /\ StackOK(g) /\ FrameMasks(g)
  BY <1>1 DEF Sigreturn, Runs, Execute, Executed, IInv, Free, Awaits, Settled
<1>3. Restored(g, x)
  BY <1>1, <1>2, RestoreKeeps
<1>4. /\ Base(x) /\ x.calls = g.calls /\ x.ended = g.ended /\ x.restored /\ x.attention
      /\ Len(x.ctx) = Len(g.ctx) - 1 /\ Len(g.ctx) >= 2 /\ x.cpu = g.ctx[Len(g.ctx) - 1].cpu
      /\ Len(g.ctx) \in Nat /\ Len(g.calls) \in Nat /\ x.interrupted
  BY <1>2, <1>3 DEF Restored, StackOK, Base
<1>5. CASE g.calls = <<>>
  <2>1. g' = x
    BY <1>2, <1>5 DEF Executed
  <2>2. Free(g)
    BY <1>5 DEF IInv, Awaits, Inside
  <2>3. Settled(x)
    BY <1>3, <2>2 DEF Restored, Free, Settled
  <2>4. Free(x) /\ ~Inside(x)
    BY <1>4, <1>5, <2>2, <2>3 DEF Free, Inside
  <2> QED
    BY <1>4, <2>1, <2>4 DEF IInv
<1>6. CASE g.calls # <<>>
  <2>1. Inside(g) /\ (Free(g) => LastMask(g)) /\ (Free(g) \/ Awaits(g))
    BY <1>6 DEF Inside, Free, Settled, IInv
  <2>3. g' = SignalActor(x)
    <3>1. ~(Len(x.calls) > Len(g.calls))
      BY <1>4
    <3> QED
      BY <1>2, <1>6, <3>1 DEF Executed
  <2>4. g' = r \/ g' = CheckForSignals(r)
    BY <1>1, <1>2, <1>4, <2>3 DEF SignalActor
  <2>7. r.orderly
    <3>1. Base(r)
      BY <1>1, <1>4, <1>6, ResumeAttention DEF Inside
    <3> QED
      BY <2>4, <3>1, CheckAttention
  <2>2. Base(r) /\ Free(r) /\ (Inside(r) => ~r.restored) /\ Grown(x, r)
    BY <1>1, <1>3, <2>1, <2>7, ResumeKeeps
  <2>5. CASE g' = r
    BY <1>4, <2>2, <2>5 DEF IInv, Grown
  <2>6. CASE g' = CheckForSignals(r)
    <3>1. PICK t : t = g'
      OBVIOUS
    <3>5. t.orderly
      BY <3>1
    <3>2. Base(t) /\ Settled(t) /\ Grown(r, t) /\ t.calls = r.calls /\ t.restored = r.restored
      BY <2>2, <2>6, <3>1, <3>5, CheckKeeps DEF Free
    <3>3. IInv(t)
      BY <2>2, <3>2 DEF IInv, Free, Inside
    <3>4. Grown(x, t)
      BY <2>2, <3>2, GrownTransitive
    <3> QED
      BY <1>4, <3>1, <3>3, <3>4 DEF Grown
  <2> QED
    BY <2>4, <2>5, <2>6
<1> QED
  BY <1>5, <1>6

-----------------------------------------------------------------------------
(* ContextKept and ReturnsWhole. *)

LEMMA FirstKeeps ==
  ASSUME SignalsInit
  PROVE  IInv(g)
<1>1. g.ctx = <<Context(Main, {})>> /\ g.cpu = Main /\ g.sigmask = {} /\ g.calls = <<>>
  BY DEF SignalsInit
<1>2. Context(Main, {}) \in Contexts /\ Context(Main, {}).cpu = Main /\ Context(Main, {}).sigmask = {}
  BY SignalBounds DEF Context, Contexts, Main, Cpus, Answers
<1>3. g.ctx \in Seq(Contexts) /\ Len(g.ctx) = 1 /\ Top(g.ctx) = Context(Main, {})
  BY <1>1, <1>2 DEF Top
<1>4. StackOK(g)
  <2>1. Bottoms(g.ctx) /\ Saved(g.ctx, g.frame)
    BY <1>3 DEF Bottoms, Saved
  <2>2. g.cpu.sig = 0 /\ g.cpu.stack = "main" /\ g.cpu.depth = 0
    BY <1>1 DEF Main
  <2>3. Place(g.cpu) = Place(Top(g.ctx).cpu)
    BY <1>1, <1>2, <1>3
  <2> QED
    BY <1>3, <2>1, <2>2, <2>3 DEF StackOK
<1>5. FrameMasks(g) /\ LastMask(g) /\ TopMask(g)
  BY <1>1, <1>2, <1>3 DEF FrameMasks, LastMask, TopMask
<1>6. Free(g) /\ ~Inside(g)
  BY <1>1, <1>4, <1>5 DEF Free, Settled, Loops, Inside
<1> QED
  BY <1>6, FirstBase DEF IInv

\* What a step may do to the contexts: none ends but when a handler returns, and then the
\* context below runs with the registers it was interrupted with.
Returns == Len(g'.ctx) = Len(g.ctx) - 1 => g'.cpu = g.ctx[Len(g.ctx) - 1].cpu

LEMMA GrowsReturns ==
  ASSUME IInv(g), IInv(g'), Len(g'.ctx) >= Len(g.ctx)
  PROVE  Returns
<1>1. Len(g.ctx) \in Nat /\ Len(g'.ctx) \in Nat
  BY DEF IInv, Free, Awaits, Settled, StackOK
<1> QED
  BY <1>1 DEF Returns

LEMMA StepKeeps ==
  ASSUME IInv(g), [SignalsNext]_thread, g'.orderly
  PROVE  IInv(g') /\ Returns
<1>1. ASSUME NEW sig \in Sigs, Tkill(sig) PROVE IInv(g') /\ Returns
  BY <1>1, TkillKeeps, GrowsReturns
<1>2. ASSUME NEW sig \in Sigs, NEW hand \in Hands, Sigaction(sig, hand) PROVE IInv(g') /\ Returns
  BY <1>2, SigactionKeeps, GrowsReturns
<1>3. ASSUME NEW how \in {"block", "unblock", "setmask"}, NEW set \in Masks, Sigprocmask(how, set)
      PROVE IInv(g') /\ Returns
  BY <1>3, SigprocmaskKeeps, GrowsReturns
<1>4. ASSUME NEW kind \in {"sigsuspend", "ppoll", "pause"}, NEW mask \in Masks, Suspend(kind, mask)
      PROVE IInv(g') /\ Returns
  <2>1. kind \in Waits
    BY DEF Waits
  <2>2. IInv(g') /\ Len(g'.ctx) >= Len(g.ctx)
    BY <1>4, <2>1, SuspendKeeps
  <2> QED
    BY <2>2, GrowsReturns
<1>5. CASE Kill
  <2>1. g' = Terminate(g) /\ Base(g)
    BY <1>5 DEF Kill, IInv
  <2>2. /\ Base(g') /\ g'.ended /\ g'.cpu = g.cpu /\ g'.sigmask = g.sigmask /\ g'.frame = g.frame
        /\ g'.attention = g.attention /\ g'.restored = g.restored /\ g'.calls = g.calls /\ g'.ctx = g.ctx
    BY <2>1, Ended
  <2>3. SameStack(g, g')
    BY <2>2 DEF SameStack
  <2>4. IInv(g') /\ Len(g'.ctx) = Len(g.ctx)
    BY <2>2, <2>3, SameKeeps
  <2>5. Len(g.ctx) \in Nat
    BY DEF IInv, Free, Awaits, Settled, StackOK
  <2> QED
    BY <2>4, <2>5, GrowsReturns
<1>6. CASE Sigreturn
  BY <1>6, SigreturnKeeps DEF Returns
<1>7. CASE Compute
  <2>1. g' = Executed(g, g) /\ Base(g)
    BY <1>7 DEF Compute, Execute, Executed, IInv
  <2>2. Len(g.calls) >= Len(g.calls)
    BY <2>1 DEF Base
  <2>3. IInv(g') /\ Len(g'.ctx) >= Len(g.ctx)
    BY <2>1, <2>2, ExecutedKeeps
  <2> QED
    BY <2>3, GrowsReturns
<1>8. CASE Actor
  <2>1. g' = CheckForSignals(g) /\ g.calls = <<>>
    BY <1>8 DEF Actor
  <2>2. Base(g) /\ Free(g)
    BY <2>1 DEF IInv, Awaits, Inside
  <2>3. Base(g') /\ Settled(g') /\ Grown(g, g') /\ g'.calls = g.calls /\ g'.restored = g.restored
    BY <2>1, <2>2, CheckKeeps DEF Free
  <2>4. IInv(g') /\ Len(g'.ctx) >= Len(g.ctx)
    BY <2>1, <2>2, <2>3 DEF IInv, Free, Inside, Grown
  <2> QED
    BY <2>4, GrowsReturns
<1>9. CASE UNCHANGED thread
  <2>1. g' = g
    BY <1>9 DEF thread
  <2>2. IInv(g') /\ Len(g'.ctx) >= Len(g.ctx)
    BY <2>1 DEF IInv, Free, Awaits, Settled, StackOK
  <2> QED
    BY <2>2, GrowsReturns
<1> QED
  BY <1>1, <1>2, <1>3, <1>4, <1>5, <1>6, <1>7, <1>8, <1>9 DEF SignalsNext

(* The invariant of every guest: it speaks of the contexts for as long as they are orderly. *)
Kept(s) == Base(s) /\ AttentionOK(s) /\ (s.orderly => IInv(s))

LEMMA FirstKept ==
  ASSUME SignalsInit
  PROVE  Kept(g)
BY FirstBase, FirstKeeps DEF Kept

LEMMA StepKept ==
  ASSUME Kept(g), [SignalsNext]_thread
  PROVE  Kept(g') /\ (g'.orderly => Returns)
<1>1. Base(g') /\ AttentionOK(g') /\ (g'.orderly => g.orderly)
  BY StepAttention DEF Kept
<1>2. ASSUME g'.orderly
      PROVE  IInv(g') /\ Returns
  BY <1>1, <1>2, StepKeeps DEF Kept
<1> QED
  BY <1>1, <1>2 DEF Kept

\* Whatever a guest installs, blocks and awaits: as long as no handler has started on top of
\* one on the alternate stack, inside a function that waits with a mask of its own, or past
\* kMaxSigDepth, the running context has the stack it was interrupted on and the mask it set
\* itself.  SigRestore takes back the frame DeliverSignal made, and the calls that exchange
\* the mask put the caller's back over it.
THEOREM ContextKeptCorrect == SignalsSpec => []ContextKept
<1>1. SignalsInit => Kept(g)
  BY FirstKept
<1>2. Kept(g) /\ [SignalsNext]_thread => Kept(g)'
  BY StepKept
<1>3. Kept(g) => ContextKept
  BY DEF Kept, IInv, Free, Awaits, Settled, StackOK, TopMask, ContextKept, EveryContextKept, Place, Top
<1> QED
  BY <1>1, <1>2, <1>3, PTL DEF SignalsSpec

\* When a handler returns and no other follows, the context below it has all its registers
\* back, for every guest and up to the same first disorder: OpSyscall stores no answer over
\* the one in the frame (interrupted).
THEOREM ReturnsWholeCorrect == SignalsSpec => ReturnsWhole
<1>1. SignalsInit => Kept(g)
  BY FirstKept
<1>2. Kept(g) /\ [SignalsNext]_thread => Kept(g)'
  BY StepKept
<1>3. Kept(g) /\ [SignalsNext]_thread
        => [g'.orderly /\ Len(g'.ctx) = Len(g.ctx) - 1 => g'.cpu = g.ctx[Len(g.ctx) - 1].cpu]_thread
  BY StepKept DEF Returns
<1> QED
  BY <1>1, <1>2, <1>3, PTL DEF SignalsSpec, ReturnsWhole

================================================================================
