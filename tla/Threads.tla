------------------------------- MODULE Threads -------------------------------
(***************************************************************************)
(* The protothreads of the board (libraries/quirkbot-protothreads): the    *)
(* events and blocks of a sketch, written with the macros of               *)
(* protothreads.h, on pt.h, lc-addrlabels.h and pt-sleep.h.                *)
(*                                                                         *)
(* loop() calls every event in turn.  A thread is a C function: what it    *)
(* was doing when it returned is one label, lc; the stack is empty between *)
(* two calls.  The clock (module Timers) goes on between any two steps.    *)
(***************************************************************************)
EXTENDS Timers, Sequences

CONSTANTS
    Schedule,   \* the events, in the order loop() calls them
    Blocks,
    Code        \* Code[f]: the statements of event or block f

Events == {Schedule[i] : i \in 1 .. Len(Schedule)}
\* A function is a pair, <<"block", name>> or <<"event", name>>; registerBlock()
\* adds name##_rec to a block.
Rec(b) == <<"rec", b[2]>>
Functions == Events \cup Blocks \cup {Rec(b) : b \in Blocks}

\* The statements of a sketch that matter here.
Statements ==
    [op : {"work", "yield", "micros", "switch"}]
        \cup [op : {"sleep"}, ms : Nat] \cup [op : {"delay"}, ms : Delays]
        \cup [op : {"spawn"}, of : Blocks]

ASSUME ScheduleAssumption ==
    /\ Schedule \in Seq(Events) /\ Len(Schedule) > 0
    /\ \A e \in Events : e[1] = "event"
    /\ \A b \in Blocks : b = <<"block", b[2]>>
ASSUME CodeAssumption == Code \in [Events \cup Blocks -> Seq(Statements)]

\* What the macros make of it: eventEnd() yields for good, blockBegin() yields
\* once, blockEnd() exits; spawnBlock() spawns name##_rec, which spawns the block.
Body(f) ==
    IF f \in Events THEN Append(Code[f], [op |-> "forever"])
    ELSE IF f \in Blocks THEN <<[op |-> "yield"]>> \o Append(Code[f], [op |-> "exit"])
    ELSE <<[op |-> "spawn", of |-> <<"block", f[2]>>], [op |-> "end"]>>

VARIABLES
    lc,                 \* lc[f]: 0 is NULL, else the statement whose label is set
    stack,              \* the C stack
    ret,                \* what the call that has just returned returned
    turn,               \* the event loop() calls next
    protothreads_sleep, \* the static of a function's PT_SLEEP
    fellAsleep          \* when it was set (history)

threadVars == <<lc, stack, ret, turn, protothreads_sleep, fellAsleep>>

ThreadsInit ==
    /\ ClockInit
    /\ lc = [f \in Functions |-> 0]   \* initEvent()
    /\ stack = <<>> /\ ret = "none" /\ turn = 1
    /\ protothreads_sleep = [f \in Functions |-> 0]
    /\ fellAsleep = [f \in Functions |-> 0]

Top == stack[Len(stack)]
Stmt == Body(Top.fn)[Top.at]
\* The statement is reached by falling into it, or by the goto of PT_BEGIN.
At(op, byGoto) ==
    /\ stack # <<>> /\ clockPc = "idle"
    /\ Stmt.op = op /\ Top.byGoto = byGoto

\* PT_BEGIN
Frame(f) == [fn |-> f, at |-> IF lc[f] = 0 THEN 1 ELSE lc[f], byGoto |-> lc[f] # 0]
Call(f) == stack' = Append(stack, Frame(f))
GoOn ==
    stack' = [stack EXCEPT ![Len(stack)] =
                 [fn |-> Top.fn, at |-> Top.at + 1, byGoto |-> FALSE]]
Leave(status) ==
    /\ stack' = SubSeq(stack, 1, Len(stack) - 1)
    /\ ret' = status
\* LC_SET
SetLabel == lc' = [lc EXCEPT ![Top.fn] = Top.at]
Labelled == stack' = [stack EXCEPT ![Len(stack)].byGoto = TRUE]

-----------------------------------------------------------------------------
\* scheduleEvent(), from loop()
ScheduleEvent ==
    /\ stack = <<>>
    /\ Call(Schedule[turn])
    /\ ret' = "none"
    /\ turn' = (turn % Len(Schedule)) + 1
    /\ UNCHANGED <<lc, protothreads_sleep, fellAsleep>>

\* A statement of the sketch that does not touch the thread.
Work ==
    /\ At("work", FALSE)
    /\ GoOn
    /\ UNCHANGED <<lc, ret, turn, protothreads_sleep, fellAsleep>>

\* PT_YIELD_FLAG is 0 where the yield is fallen into, and 1 after the goto.
PT_YIELD ==
    /\ \/ At("yield", FALSE) /\ Leave("yielded")
       \/ At("yield", TRUE) /\ GoOn /\ UNCHANGED ret
    /\ SetLabel
    /\ UNCHANGED <<turn, protothreads_sleep, fellAsleep>>

\* eventEnd(): PT_YIELD_UNTIL(_pt_, false)
EventEnd ==
    /\ stack # <<>> /\ Stmt.op = "forever"
    /\ SetLabel
    /\ Leave("yielded")
    /\ UNCHANGED <<turn, protothreads_sleep, fellAsleep>>

\* PT_SLEEP: the static is set once, and the condition tested in every call.
SleepStart ==
    /\ At("sleep", FALSE)
    /\ protothreads_sleep' = [protothreads_sleep EXCEPT ![Top.fn] = timer0_millis]
    /\ fellAsleep' = [fellAsleep EXCEPT ![Top.fn] = now]
    /\ SetLabel
    /\ Labelled
    /\ UNCHANGED <<ret, turn>>

\* Mutant of Awake: at least the delay, not more.
AwakeEarly ==
    (timer0_millis + WordSize - protothreads_sleep[Top.fn]) % WordSize >= Stmt.ms

\* millis() - protothreads_sleep > delay
Awake == (timer0_millis + WordSize - protothreads_sleep[Top.fn]) % WordSize > Stmt.ms

SleepOver ==
    /\ At("sleep", TRUE) /\ Awake
    /\ GoOn
    /\ UNCHANGED <<lc, ret, turn, protothreads_sleep, fellAsleep>>

SleepOn ==
    /\ At("sleep", TRUE) /\ ~ Awake
    /\ Leave("waiting")
    /\ UNCHANGED <<lc, turn, protothreads_sleep, fellAsleep>>

Child == IF Top.fn \in Events \cup Blocks THEN Rec(Stmt.of) ELSE Stmt.of

\* PT_SPAWN: PT_INIT(child), then PT_WAIT_THREAD
SpawnStart ==
    /\ At("spawn", FALSE)
    /\ lc' = [lc EXCEPT ![Child] = 0, ![Top.fn] = Top.at]
    /\ Labelled
    /\ UNCHANGED <<ret, turn, protothreads_sleep, fellAsleep>>

SpawnCall ==
    /\ At("spawn", TRUE) /\ ret = "none"
    /\ Call(Child)
    /\ UNCHANGED <<lc, ret, turn, protothreads_sleep, fellAsleep>>

\* Mutant of Running: a thread that yields is taken for one that has ended.
RunningWaitingOnly(status) == status = "waiting"

\* PT_SCHEDULE(f): f < PT_EXITED
Running(status) == status \in {"waiting", "yielded"}

SpawnWaits ==
    /\ At("spawn", TRUE) /\ Running(ret)
    /\ Leave("waiting")
    /\ UNCHANGED <<lc, turn, protothreads_sleep, fellAsleep>>

SpawnDone ==
    /\ At("spawn", TRUE) /\ ret # "none" /\ ~ Running(ret)
    /\ GoOn
    /\ ret' = "none"
    /\ UNCHANGED <<lc, turn, protothreads_sleep, fellAsleep>>

\* PT_EXIT of blockEnd(), PT_END of name##_rec
Finish(op, status) ==
    /\ At(op, FALSE)
    /\ lc' = [lc EXCEPT ![Top.fn] = 0]
    /\ Leave(status)
    /\ UNCHANGED <<turn, protothreads_sleep, fellAsleep>>

ThreadStep ==
    \/ ScheduleEvent \/ Work \/ PT_YIELD \/ EventEnd
    \/ SleepStart \/ SleepOver \/ SleepOn
    \/ SpawnStart \/ SpawnCall \/ SpawnWaits \/ SpawnDone
    \/ Finish("exit", "exited") \/ Finish("end", "ended")

\* A thread calls micros() or delay(), which block the board, or cli() or sei().
ClockCall ==
    /\ \/ At("micros", FALSE) /\ CallMicros
       \/ At("delay", FALSE) /\ CallDelay(Stmt.ms)
       \/ At("switch", FALSE) /\ SwitchInterrupts
    /\ Labelled
    /\ UNCHANGED <<lc, ret, turn, protothreads_sleep, fellAsleep>>

ClockReturned ==
    /\ At("micros", TRUE) \/ At("delay", TRUE) \/ At("switch", TRUE)
    /\ GoOn
    /\ UNCHANGED <<lc, ret, turn, protothreads_sleep, fellAsleep>>

Clock ==
    \/ Tick \/ TimerIrq
    \/ ReadTimer \/ MicrosReturn
    \/ DelayStart \/ DelayPoll \/ DelayTest \/ DelayReturn

ThreadsNext ==
    \/ ThreadStep /\ UNCHANGED clockVars
    \/ ClockCall
    \/ ClockReturned /\ UNCHANGED clockVars
    \/ Clock /\ UNCHANGED threadVars

allVars == <<clockVars, threadVars>>
ThreadsSpec == ThreadsInit /\ [][ThreadsNext]_allVars

-----------------------------------------------------------------------------
\* A sleep is at most one period of timer 0, and the time its handler may be
\* late, shorter than was asked: millis() moves by whole overflows, and ">" makes
\* up for the part of a millisecond it leaves out.
SleepsLongEnough ==
    [][ SleepOver
        => (now - fellAsleep[Top.fn] + TimerSize + OverflowLatency) * TickUs > Stmt.ms * Ms ]_allVars

\* The call stack an event would have, rebuilt from the labels, and from the C
\* stack for the event that runs.
OnStack(f) == {i \in 1 .. Len(stack) : stack[i].fn = f}
FrameNow(f) ==
    IF OnStack(f) # {} THEN stack[CHOOSE i \in OnStack(f) : TRUE] ELSE Frame(f)
Inside(f) == Body(f)[FrameNow(f).at].op = "spawn" /\ FrameNow(f).byGoto
\* A block's first yield belongs to its begin.
Position(f) ==
    LET p == FrameNow(f).at IN IF f \in Blocks /\ p > 1 THEN p - 1 ELSE p
\* name##_rec knows that its block has returned.
BlockOver(b) ==
    \/ FrameNow(Rec(b)).at = 2
    \/ stack # <<>> /\ Top.fn = Rec(b) /\ ret = "exited"

CallsFrom[f \in Events \cup Blocks] ==
    LET here == [fn |-> f, at |-> Position(f)]
        b == Body(f)[FrameNow(f).at].of
    IN  IF ~ Inside(f) THEN <<here>>
        ELSE IF stack # <<>> /\ Top.fn = f /\ ret = "ended"
             THEN <<[here EXCEPT !.at = @ + 1]>>
        ELSE IF BlockOver(b)
             THEN <<here, [fn |-> b, at |-> Len(Code[b]) + 1]>>
        ELSE <<here>> \o CallsFrom[b]

\* Without a stack of their own, the events are the sequential programs they
\* look like, in every order in which they wait for each other: a spawned block
\* runs whole, an event that waits goes on where it was, no statement is
\* skipped or done twice.
Sequential ==
    INSTANCE SequentialThreads WITH calls <- [e \in Events |-> CallsFrom[e]]

ImplementsSequentialThreads == Sequential!SeqSpec
=============================================================================
