------------------------------ MODULE Signals -------------------------------
(***************************************************************************)
(* Signals of a guest thread (signal.c, the signal calls of syscall.c and  *)
(* the two interpreter loops).  The state is a record g:                   *)
(*   signals, sigmask, attention, restored, interrupted, hands   as in     *)
(*             struct Machine and struct System                            *)
(*   cpu       what a signal frame saves of the processor: the handler     *)
(*             that runs (0: the main program), its stack position, ax     *)
(*   frame     the signal frames in guest memory, by stack position        *)
(*   calls     the C functions that wait for a handler to return, each     *)
(*             inside a SignalActor of its own (sigdepth is their number)  *)
(*   ended     the process ends: TerminateSignal, or kill                  *)
(*   ctx, skipped, orderly   history: the contexts the guest has           *)
(*             interrupted, the last one running; whether a call took an   *)
(*             ignored signal; whether no handler started in a delicate    *)
(*             place so far                                                *)
(* All of it is one thread, and the host delivers no signals: every signal *)
(* is one the guest sends itself.                                          *)
(***************************************************************************)
EXTENDS Integers, Sequences, FiniteSets, Maps

CONSTANTS
    NumSignals,     \* bound: signals are 1 .. NumSignals (64)
    DefaultIgnored, \* IsSignalIgnoredByDefault
    Hands,          \* dispositions a guest installs: [handler, mask, nodefer, onstack]
    FirstHands,     \* the dispositions of the first state
    Masks,          \* the sets a guest gives to sigprocmask, sigsuspend and ppoll
    MaxSigDepth,    \* kMaxSigDepth (8)
    SigCalls        \* bound: signal calls of a behaviour

Sigs == 1 .. NumSignals
Handlers == {"dfl", "ign", "fn"}

ASSUME SignalBounds ==
    /\ NumSignals \in Nat \ {0} /\ MaxSigDepth \in Nat /\ SigCalls \in Nat
    /\ DefaultIgnored \subseteq Sigs
    /\ Hands \subseteq [handler : Handlers, mask : SUBSET Sigs, nodefer : BOOLEAN, onstack : BOOLEAN]
    /\ FirstHands \in [Sigs -> Hands]
    /\ Masks \subseteq SUBSET Sigs

VARIABLES
    g,
    used    \* signal calls made so far
thread == <<g, used>>

Main == [sig |-> 0, stack |-> "main", depth |-> 0, ax |-> "ok"]
Context(cpu, mask) == [cpu |-> cpu, sigmask |-> mask]

SignalsInit ==
    /\ g = [signals |-> {}, sigmask |-> {}, attention |-> FALSE, restored |-> FALSE, interrupted |-> FALSE,
            hands |-> FirstHands, cpu |-> Main, frame |-> <<>>, calls |-> <<>>, ended |-> FALSE,
            ctx |-> <<Context(Main, {})>>, skipped |-> FALSE, orderly |-> TRUE]
    /\ used = 0

Pending(s) == s.signals \ s.sigmask
Here(s) == <<s.cpu.stack, s.cpu.depth>>
Replaced(seq, x) == [seq EXCEPT ![Len(seq)] = x]
AllButLast(seq) == SubSeq(seq, 1, Len(seq) - 1)
WithoutLast(q) == IF Len(q) > 1 THEN AllButLast(q) ELSE q
Terminate(s) == [s EXCEPT !.ended = TRUE]
PutAx(s, v) == [s EXCEPT !.cpu.ax = v]

(* Frames. *)

\* Below the stack pointer, or at the top of the alternate stack, also when it is in use.
FramePosition(s, hand) == IF hand.onstack THEN <<"alt", 1>> ELSE <<s.cpu.stack, s.cpu.depth + 1>>

MaskInHandler(s, sig) ==
    s.sigmask \cup s.hands[sig].mask \cup (IF s.hands[sig].nodefer THEN {} ELSE {sig})

\* A handler on the alternate stack, whose frame the next one there overwrites, and handlers
\* below a function with a temporary mask, which goes on when any handler returns.
Delicate(s) == s.cpu.stack = "alt" \/ \E i \in DOMAIN s.calls : s.calls[i].kind # "sigprocmask"

\* The context that is interrupted goes to the frame, the handler starts.
DeliverSignal(s, sig) ==
    LET pos == FramePosition(s, s.hands[sig])
        cpu == [s.cpu EXCEPT !.sig = sig, !.stack = pos[1], !.depth = pos[2]]
        mask == MaskInHandler(s, sig) IN
    [s EXCEPT !.frame = With(@, pos, Context(s.cpu, s.sigmask)), !.sigmask = mask, !.cpu = cpu,
              !.ctx = Append(Replaced(@, Context(s.cpu, @[Len(@)].sigmask)), Context(cpu, mask)),
              !.orderly = @ /\ ~Delicate(s)]

\* Mutant of SigRestore: the loop is not told to look for what the handler had blocked.
SigRestoreSilently(s) ==
    LET f == s.frame[Here(s)] IN
    [s EXCEPT !.cpu = f.cpu, !.sigmask = f.sigmask, !.restored = TRUE, !.interrupted = TRUE,
              !.ctx = WithoutLast(@), !.skipped = FALSE]
\* rt_sigreturn: the frame is where the stack pointer is.
SigRestore(s) ==
    LET f == s.frame[Here(s)] IN
    [s EXCEPT !.cpu = f.cpu, !.sigmask = f.sigmask, !.restored = TRUE, !.attention = TRUE, !.interrupted = TRUE,
              !.ctx = WithoutLast(@), !.skipped = FALSE]

(* Taking a pending signal. *)

Ignored(s, sig) == \/ s.hands[sig].handler = "ign"
                   \/ s.hands[sig].handler = "dfl" /\ sig \in DefaultIgnored
Fatal(s, sig) == s.hands[sig].handler = "dfl" /\ sig \notin DefaultIgnored
Highest(S) == CHOOSE n \in S : \A o \in S : o <= n
Consumed(s, delivered) == [s |-> s, delivered |-> delivered]

\* The highest one.  delivered is 0 when there is none, and also when it is ignored.
ConsumeSignal(s) ==
    IF Pending(s) = {} THEN Consumed(s, 0)
    ELSE LET sig == Highest(Pending(s))
             t == [s EXCEPT !.signals = @ \ {sig}] IN
         CASE Fatal(s, sig) -> Consumed(Terminate(t), 0)
           [] Ignored(s, sig) -> Consumed([t EXCEPT !.skipped = TRUE], 0)
           [] OTHER -> Consumed(DeliverSignal(t, sig), sig)

\* Mutant of CheckForSignals: the mask selects the blocked signals.
CheckBlocked(s) == IF s.signals \cap s.sigmask # {} THEN ConsumeSignal(s).s ELSE [s EXCEPT !.attention = FALSE]
CheckForSignals(s) == IF Pending(s) # {} THEN ConsumeSignal(s).s ELSE [s EXCEPT !.attention = FALSE]

(* C functions that wait for a handler. *)

CanRecurse(s) == Len(s.calls) < MaxSigDepth
\* DeliverSignalRecursively up to SignalActor, and from its end.
Await(s, call) == [s EXCEPT !.calls = Append(@, call), !.restored = FALSE]
Leave(s) == [s EXCEPT !.calls = AllButLast(@), !.restored = FALSE]

\* Mutant of Result: the answer is always stored.
ResultAlways(s, v) == PutAx(s, v)
\* The end of OpSyscall: the answer goes to ax unless a handler was given it in its frame.
Result(s, v) == IF s.interrupted \/ s.ended THEN s ELSE PutAx(s, v)

\* Handlers run one after the other, until none is left or one is ignored.
SigprocmaskLoop(s) ==
    LET c == ConsumeSignal(s) IN
    IF c.delivered = 0 \/ ~CanRecurse(s) THEN Result(c.s, "ok") ELSE Await(c.s, [kind |-> "sigprocmask"])

\* Mutant of Pop: the temporary mask stays.
PopNothing(s, call) == Result(s, "fail")
\* The end of sigsuspend, ppoll and pause.
Pop(s, call) == Result(IF call.kind = "pause" THEN s ELSE [s EXCEPT !.sigmask = call.oldmask], "fail")

\* CheckInterrupt(m, false) and what its caller does: with no handler to run the host is asked,
\* which answers at once.  At kMaxSigDepth the caller goes on before the handler has run.
CheckInterrupt(s, call) ==
    LET c == ConsumeSignal(PutAx(s, "eintr"))
        done == [c.s EXCEPT !.interrupted = c.delivered # 0, !.orderly = @ /\ c.delivered = 0] IN
    IF c.delivered # 0 /\ CanRecurse(s) THEN Await(c.s, call) ELSE Pop(done, call)

\* The C function goes on after its SignalActor.
Resume(s) ==
    LET call == s.calls[Len(s.calls)]
        t == Leave(s) IN
    IF call.kind = "sigprocmask" THEN SigprocmaskLoop(t) ELSE Pop([t EXCEPT !.interrupted = TRUE], call)

\* After an instruction in a SignalActor; when its function returns, after the instruction
\* of the loop around it.
SignalActor(s) ==
    LET r == Resume(s) IN
    IF s.ended \/ ~s.attention THEN s
    ELSE IF ~s.restored THEN CheckForSignals(s)
    ELSE IF Len(r.calls) = Len(s.calls) \/ r.calls = <<>> \/ ~r.attention \/ r.ended THEN r
    ELSE CheckForSignals(r)

(* System calls of the guest. *)

\* tkill of the own thread, signals other than SIGKILL and SIGSTOP.
SysTkill(s, sig) ==
    IF sig \in s.sigmask THEN Result([s EXCEPT !.signals = @ \cup {sig}], "ok")
    ELSE CASE Fatal(s, sig) -> Terminate(s)
           [] Ignored(s, sig) -> Result(s, "ok")
           [] OTHER -> DeliverSignal([PutAx(s, "ok") EXCEPT !.interrupted = TRUE], sig)

SysSigaction(s, sig, hand) ==
    LET t == [s EXCEPT !.hands[sig] = hand] IN
    Result([t EXCEPT !.signals = IF Ignored(t, sig) THEN @ \ {sig} ELSE @], "ok")

NewMask(s, how, set) ==
    CASE how = "block" -> s.sigmask \cup set [] how = "unblock" -> s.sigmask \ set [] how = "setmask" -> set
SysSigprocmask(s, how, set) ==
    LET mask == NewMask(s, how, set) IN
    SigprocmaskLoop(PutAx([s EXCEPT !.sigmask = mask, !.ctx = Replaced(@, Context(@[Len(@)].cpu, mask))], "ok"))

SysSuspend(s, kind, mask) ==
    CheckInterrupt(IF kind = "pause" THEN s ELSE [s EXCEPT !.sigmask = mask], [kind |-> kind, oldmask |-> s.sigmask])

(* The interpreter. *)

\* An instruction that leaves state s.  A function entered by it has its own loop first.
Execute(s) ==
    g' = IF g.calls = <<>> \/ Len(s.calls) > Len(g.calls) THEN s ELSE SignalActor(s)

Runs == ~g.ended /\ (g.calls = <<>> => ~g.attention)
Syscall == Runs /\ used < SigCalls /\ used' = used + 1
Entered == [g EXCEPT !.interrupted = FALSE]

Tkill(sig) == Syscall /\ Execute(SysTkill(Entered, sig))
Sigaction(sig, hand) == Syscall /\ Execute(SysSigaction(Entered, sig, hand))
Sigprocmask(how, set) == Syscall /\ Execute(SysSigprocmask(Entered, how, set))
Suspend(kind, mask) == Syscall /\ Execute(SysSuspend(Entered, kind, mask))
\* kill of any process: the kernel worker has no case for it and ends the caller.
Kill == Syscall /\ g' = Terminate(g)
Sigreturn == Runs /\ g.cpu.sig # 0 /\ Execute(SigRestore(g)) /\ UNCHANGED used
\* Any other instruction, seen where the loop has something to do after it.
Compute == Runs /\ g.calls # <<>> /\ g.attention /\ Execute(g) /\ UNCHANGED used
Actor == ~g.ended /\ g.calls = <<>> /\ g.attention /\ g' = CheckForSignals(g) /\ UNCHANGED used

SignalsNext ==
    \/ \E sig \in Sigs : Tkill(sig)
    \/ \E sig \in Sigs, hand \in Hands : Sigaction(sig, hand)
    \/ \E how \in {"block", "unblock", "setmask"}, set \in Masks : Sigprocmask(how, set)
    \/ \E kind \in {"sigsuspend", "ppoll", "pause"}, mask \in Masks : Suspend(kind, mask)
    \/ Kill \/ Sigreturn \/ Compute \/ Actor

SignalsSpec == SignalsInit /\ [][SignalsNext]_thread

\* The thread runs, and handlers return.
SignalsFairness == WF_thread(Sigreturn) /\ WF_thread(Compute) /\ WF_thread(Actor)

(***************************************************************************)
(* Properties.                                                             *)
(***************************************************************************)
Quiet == ~g.ended /\ g.calls = <<>>

\* A context of the guest, the main program or a handler, runs with the registers it had
\* when it was interrupted, the answer of its last call among them, and with the mask it
\* set itself, unless a C function has exchanged the mask and waits: "run the signal handler
\* code inside the i/o routine" (DeliverSignalRecursively).
EveryContextKept ==
    ~g.ended =>
        LET c == g.ctx[Len(g.ctx)] IN
        /\ <<g.cpu.sig, g.cpu.stack, g.cpu.depth>> = <<c.cpu.sig, c.cpu.stack, c.cpu.depth>>
        /\ (\A i \in DOMAIN g.calls : g.calls[i].kind = "sigprocmask") => g.sigmask = c.sigmask

\* So it is whatever handlers ran in between, at any depth, from the loop or from inside
\* a call, for as long as none has started on top of a handler on the alternate stack or
\* inside a function that waits with a mask of its own (but for the one it waits for), or
\* has been left to the caller at kMaxSigDepth: only these places lose a context.
ContextKept == g.orderly => EveryContextKept

\* When a handler returns and no other follows, the interrupted context has its registers
\* back, the answer of the call it was interrupted in among them: the end of that call
\* does not store another one over it ("preevnt ax clobber"), with the same exceptions.
ReturnsWhole ==
    [][g'.orderly /\ Len(g'.ctx) = Len(g.ctx) - 1 => g'.cpu = g.ctx[Len(g.ctx) - 1].cpu]_thread

\* "signals; // [attention] pending delivery" (struct Machine): the main program does not run
\* with a deliverable signal unless the loop is going to look, or a call took an ignored
\* signal and stopped there.
AttentionKept == (Quiet /\ g.cpu.sig = 0 /\ Pending(g) # {}) => g.attention \/ g.skipped

\* A signal that is pending and not blocked is taken.
SignalTaken ==
    \A sig \in Sigs : (sig \in Pending(g)) ~> (sig \notin Pending(g) \/ g.skipped \/ g.ended)
=============================================================================
