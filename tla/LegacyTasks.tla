------------------------------ MODULE LegacyTasks ------------------------------
(***************************************************************************)
(* Interrupts and tasks of the legacy kernel: save, restart, hwint_master  *)
(* and sys_call of src/kernel/legacy/kernel.asm, the handlers of irq.c,    *)
(* irq.asm, and kmain.c from kmain on.                                     *)
(*                                                                         *)
(* Handlers run with interrupts enabled, so that they nest.  The depth     *)
(* counter clock_int_enter_time is -1 while a task runs; save moves to the *)
(* kernel's stack when it goes to 0, and the handler then returns through  *)
(* restart, which enters the task of p_proc_ready.  Deeper handlers stay   *)
(* on the stack and return through restart_reenter to what they            *)
(* interrupted.  What runs with the interrupt flag clear is one step.      *)
(***************************************************************************)
EXTENDS Integers, Sequences

CONSTANTS MAX_THREAD,   \* the number of tasks
          Callers,      \* the tasks whose loop makes a system call
          Lines,        \* the master's interrupt lines that devices use
          Openings      \* the sets of lines kmain may enable

LoopSteps == 3          \* call or work, print, delay

Clock == 0
Keyboard == 1
SysCall == 144          \* INT_VECTOR_SYSCALL

Tasks == 0 .. MAX_THREAD - 1

\* proc_table + MAX_THREAD, which also stands for a pointer that is not set.
PastEnd == MAX_THREAD

ASSUME TasksAssumption == MAX_THREAD \in Nat \ {0} /\ Callers \subseteq Tasks
ASSUME LinesAssumption == /\ Lines \subseteq 0 .. 7 /\ {Clock, Keyboard} \subseteq Lines
                          /\ \A o \in Openings : o \subseteq {Clock, Keyboard}

VARIABLES
    setup,      \* the call kmain makes next; "up" once tasks run
    opened,     \* the lines kmain enables
    irq_table,  \* the handler of each line
    imr, irr,   \* the master 8259: masked, requested
    isr,        \*   and in service
    full,       \* the 8042 holds a byte of the keyboard
    depth,      \* clock_int_enter_time, a 32-bit -1 being -1
    ready,      \* p_proc_ready, as an index
    sp0,        \* the process whose frame tss.sp0 is the top of
    pcb,        \* proc_table: the registers of each process
    cpu,        \* the registers, while a task runs
    stack       \* the handlers on the kernel's stack, the innermost last

pic == <<imr, irr, isr>>
tasks == <<depth, ready, sp0, pcb, cpu, stack>>
tvars == <<setup, opened, irq_table, pic, full, tasks>>

\* A task's registers: whose they are, the place in the loop, and what eax is.
Registers == [task : 0 .. MAX_THREAD, at : 0 .. LoopSteps - 1,
              eax : {"own", "request", "answer"}]

Blank == [task |-> PastEnd, at |-> 0, eax |-> "own"]
Process(p) == IF p \in Tasks THEN pcb[p] ELSE Blank

\* A handler on the stack: what it serves, where it is, the address save
\* pushed for its ret, and the frame that esi points to.
Handlers == [irq : Lines \cup {SysCall},
             at : {"mask", "handler", "wrap", "answer", "leave"},
             exit : {"restart", "restart_reenter"},
             esi : 0 .. MAX_THREAD]

Top == stack[Len(stack)]
TaskRuns == setup = "up" /\ stack = <<>>

-----------------------------------------------------------------------------
(* kmain, from init_8259A in cstart on, with interrupts disabled.          *)

Call(here, next) == setup = here /\ setup' = next

\* ICW1 drops what was requested.
init_8259A ==
    /\ Call("init_8259A", "clock")
    /\ imr' = Lines /\ irr' = {} /\ isr' = {}
    /\ irq_table' = [l \in Lines |-> "common_irq"]
    /\ UNCHANGED <<opened, full, tasks>>

register_handler(handler, l) ==
    /\ imr' = imr \cup {l}
    /\ irq_table' = [irq_table EXCEPT ![l] = handler]
    /\ UNCHANGED <<opened, irr, isr, full, tasks>>

RegisterHandlers ==
    \/ Call("clock", "keyboard") /\ register_handler("clock_handler", Clock)
    \/ Call("keyboard", "enable") /\ register_handler("keyboard_handler", Keyboard)

enable_irq(l) ==
    /\ Call("enable", "enable") /\ l \in opened \cap imr
    /\ imr' = imr \ {l}
    /\ UNCHANGED <<opened, irq_table, irr, isr, full, tasks>>

\* Every process starts at the head of its loop; restart enters the first.
StartTasks ==
    /\ Call("enable", "up") /\ opened \cap imr = {}
    /\ pcb' = [t \in Tasks |-> [task |-> t, at |-> 0, eax |-> "own"]]
    /\ ready' = 0 /\ sp0' = 0 /\ cpu' = pcb'[0]
    /\ depth' = -1 /\ stack' = <<>>
    /\ UNCHANGED <<opened, irq_table, pic, full>>

kmain == \/ init_8259A \/ RegisterHandlers
         \/ \E l \in Lines : enable_irq(l)
         \/ StartTasks

-----------------------------------------------------------------------------
(* Entering and leaving a handler.                                         *)

Handler(n, k) ==
    [irq |-> n,
     at |-> IF n = SysCall THEN "handler" ELSE "mask",
     exit |-> IF k = 0 THEN "restart" ELSE "restart_reenter",
     esi |-> IF stack = <<>> THEN sp0 ELSE PastEnd]

\* Mutant: every handler starts at the top of the kernel's stack
save_stackTop(n, registers) ==
    /\ depth' = depth + 1
    /\ pcb' = IF stack = <<>> THEN [pcb EXCEPT ![sp0] = registers] ELSE pcb
    /\ stack' = <<Handler(n, 0)>>
    /\ UNCHANGED <<setup, opened, irq_table, imr, full, ready, sp0, cpu>>

\* The processor and save push the registers: those of a task at tss.sp0,
\* which fills the frame of its process, those of a handler on the stack.
save(n, registers) ==
    /\ depth' = depth + 1
    /\ pcb' = IF stack = <<>> THEN [pcb EXCEPT ![sp0] = registers] ELSE pcb
    /\ stack' = IF depth' = 0 THEN <<Handler(n, depth')>>
                ELSE Append(stack, Handler(n, depth'))
    /\ UNCHANGED <<setup, opened, irq_table, imr, full, ready, sp0, cpu>>

\* Mutant: restart leaves tss.sp0 as it was
restart_stale ==
    /\ cpu' = Process(ready)
    /\ stack' = <<>>
    /\ UNCHANGED sp0

restart == /\ cpu' = Process(ready)
           /\ sp0' = ready
           /\ stack' = <<>>

restart_reenter == /\ stack' = SubSeq(stack, 1, Len(stack) - 1)
                   /\ cpu' = IF Len(stack) = 1 THEN Process(sp0) ELSE cpu
                   /\ UNCHANGED sp0

Return == /\ depth' = depth - 1
          /\ IF Top.exit = "restart" THEN restart ELSE restart_reenter
          /\ UNCHANGED <<setup, opened, irq_table, irr, isr, full, ready, pcb>>

-----------------------------------------------------------------------------
(* The interrupt flag is set in tasks, and in handlers between sti and cli. *)
(* The processor takes a request before the next instruction.              *)

Enabled == /\ setup = "up"
           /\ stack # <<>> => Top.at # "mask"

Requesting == {l \in irr \ imr : \A m \in isr : l < m}

Undisturbed == ~(Enabled /\ Requesting # {})

Interrupt(l) ==
    /\ Enabled
    /\ l \in Requesting /\ \A m \in Requesting : l <= m
    /\ irr' = irr \ {l} /\ isr' = isr \cup {l}
    /\ save(l, cpu)

AtStep(here) == setup = "up" /\ stack # <<>> /\ Top.at = here /\ Undisturbed
Goto(next) == stack' = [stack EXCEPT ![Len(stack)].at = next]

\* Mutant: the line is not masked while its handler runs
hwint_masks_skips ==
    /\ AtStep("mask") /\ Goto("handler")
    /\ isr' = isr \ {Top.irq}
    /\ UNCHANGED <<setup, opened, irq_table, imr, irr, full, depth, ready,
                   sp0, pcb, cpu>>

hwint_masks ==
    /\ AtStep("mask") /\ Goto("handler")
    /\ imr' = imr \cup {Top.irq}
    /\ isr' = isr \ {Top.irq}
    /\ UNCHANGED <<setup, opened, irq_table, irr, full, depth, ready, sp0,
                   pcb, cpu>>

\* Mutant: the line stays masked
hwint_leaves_masked ==
    /\ AtStep("leave")
    /\ UNCHANGED imr
    /\ Return

\* A line is open again when its handler ends.
hwint_leaves ==
    /\ AtStep("leave")
    /\ imr' = imr \ {Top.irq}
    /\ Return

-----------------------------------------------------------------------------
(* The handlers, with interrupts enabled.  common_irq, which init_8259A     *)
(* registers for every line, never runs: kmain enables no line but these.  *)

Serves(handler) == AtStep("handler") /\ Top.irq # SysCall
                   /\ irq_table[Top.irq] = handler

keyboard_handler ==
    /\ Serves("keyboard_handler") /\ Goto("leave")
    /\ full' = FALSE
    /\ UNCHANGED <<setup, opened, irq_table, pic, depth, ready, sp0, pcb, cpu>>

\* Mutant: the test for being the outermost handler is the wrong way round
clock_handler_inner ==
    /\ Serves("clock_handler")
    /\ IF depth = 0 THEN Goto("leave") /\ UNCHANGED ready
       ELSE Goto("wrap") /\ ready' = ready + 1
    /\ UNCHANGED <<setup, opened, irq_table, pic, full, depth, sp0, pcb, cpu>>

\* The pointer is stepped first and tested afterwards.
clock_handler ==
    /\ Serves("clock_handler")
    /\ IF depth # 0 THEN Goto("leave") /\ UNCHANGED ready
       ELSE Goto("wrap") /\ ready' = ready + 1
    /\ UNCHANGED <<setup, opened, irq_table, pic, full, depth, sp0, pcb, cpu>>

\* Mutant: the test for the end of the table is one too late
clock_wraps_late ==
    /\ AtStep("wrap") /\ Goto("leave")
    /\ ready' = IF ready > MAX_THREAD THEN 0 ELSE ready
    /\ UNCHANGED <<setup, opened, irq_table, pic, full, depth, sp0, pcb, cpu>>

clock_wraps ==
    /\ AtStep("wrap") /\ Goto("leave")
    /\ ready' = IF ready >= MAX_THREAD THEN 0 ELSE ready
    /\ UNCHANGED <<setup, opened, irq_table, pic, full, depth, sp0, pcb, cpu>>

\* sys_call_master prints; what it returns goes to the caller's eax.
sys_call_master ==
    /\ AtStep("handler") /\ Top.irq = SysCall /\ Goto("answer")
    /\ UNCHANGED <<setup, opened, irq_table, pic, full, depth, ready, sp0,
                   pcb, cpu>>

sys_call_answers ==
    /\ AtStep("answer") /\ Goto("leave")
    /\ pcb' = IF Top.esi \in Tasks THEN [pcb EXCEPT ![Top.esi].eax = "answer"]
              ELSE pcb
    /\ UNCHANGED <<setup, opened, irq_table, pic, full, depth, ready, sp0, cpu>>

Kernel == \/ hwint_masks \/ hwint_leaves
          \/ keyboard_handler \/ clock_handler \/ clock_wraps
          \/ sys_call_master \/ sys_call_answers

-----------------------------------------------------------------------------
(* The tasks: testA, testB and testC.                                      *)

Calls == cpu.task \in Callers /\ cpu.at = 0
Further(eax) == [cpu EXCEPT !.at = (@ + 1) % LoopSteps, !.eax = eax]

Work == /\ TaskRuns /\ Undisturbed /\ ~Calls
        /\ cpu' = Further("own")
        /\ UNCHANGED <<setup, opened, irq_table, pic, full, depth, ready, sp0,
                       pcb, stack>>

\* int 0x90, through an interrupt gate.
test_call == /\ TaskRuns /\ Undisturbed /\ Calls
             /\ save(SysCall, Further("request"))
             /\ UNCHANGED <<irr, isr>>

Task == Work \/ test_call

Processor == \/ kmain \/ Kernel \/ Task
             \/ \E l \in Lines : Interrupt(l)

-----------------------------------------------------------------------------
(* The devices (external): an edge is remembered while the line is masked. *)

KeyPressed == /\ ~full /\ full' = TRUE
              /\ irr' = irr \cup {Keyboard}
              /\ UNCHANGED <<setup, opened, irq_table, imr, isr, tasks>>

Request(l) == /\ l # Keyboard /\ l \notin irr
              /\ irr' = irr \cup {l}
              /\ UNCHANGED <<setup, opened, irq_table, imr, isr, full, tasks>>

Devices == KeyPressed \/ \E l \in Lines : Request(l)

-----------------------------------------------------------------------------
TInit == /\ setup = "init_8259A" /\ opened \in Openings
         /\ irq_table = [l \in Lines |-> "none"]
         /\ imr \in {{}, Lines} /\ isr = {}
         /\ full \in BOOLEAN
         /\ irr = IF full THEN {Keyboard} ELSE {}
         /\ depth = 0 /\ ready = PastEnd /\ sp0 = PastEnd
         /\ pcb = [t \in Tasks |-> Blank] /\ cpu = Blank /\ stack = <<>>

TNext == Processor \/ Devices

TSpec == TInit /\ [][TNext]_tvars

BetweenTicks == stack # <<>> /\ Top.irq # Clock /\ Kernel

\* The processor never stops, and a handler that the clock lets run again and
\* again gets on.  Devices need not do anything.
TFairSpec == TSpec /\ WF_tvars(Processor) /\ SF_tvars(BetweenTicks)

-----------------------------------------------------------------------------
(* Types.                                                                  *)
TTypeOK ==
    /\ setup \in {"init_8259A", "clock", "keyboard", "enable", "up"}
    /\ opened \in Openings
    /\ irq_table \in [Lines -> {"none", "common_irq", "clock_handler",
                                "keyboard_handler"}]
    /\ imr \subseteq Lines /\ irr \subseteq Lines /\ isr \subseteq Lines
    /\ full \in BOOLEAN
    /\ depth \in Int
    /\ ready \in 0 .. MAX_THREAD /\ sp0 \in 0 .. MAX_THREAD
    /\ pcb \in [Tasks -> Registers] /\ cpu \in Registers
    /\ stack \in Seq(Handlers)

\* What each call of kmain leaves to the next.
SettingUp ==
    /\ setup \in {"clock", "keyboard"} => imr = Lines
    /\ setup \in {"keyboard", "enable", "up"} => irq_table[Clock] = "clock_handler"
    /\ setup \in {"enable", "up"} => irq_table[Keyboard] = "keyboard_handler"
    /\ setup = "enable" => Lines \ opened \subseteq imr
    /\ setup # "up" => /\ stack = <<>> /\ depth = 0 /\ isr = {}
                       /\ ready = PastEnd /\ pcb = [t \in Tasks |-> Blank]

\* Once tasks run a line is masked unless kmain has enabled it, and while its
\* own handler is on the stack.
Serving == {stack[i].irq : i \in {j \in 1 .. Len(stack) : stack[j].at # "mask"}}

Masking == setup = "up" =>
             \A l \in Lines : l \in imr <=> l \notin opened \/ l \in Serving

\* The counter is the depth of the stack, the outermost handler alone was
\* entered from a task, and only the innermost may be about to mask its line.
Nesting ==
    setup = "up" =>
      /\ depth = Len(stack) - 1
      /\ \A i \in 1 .. Len(stack) :
           /\ (stack[i].exit = "restart") <=> (i = 1)
           /\ stack[i].esi = IF i = 1 THEN sp0 ELSE PastEnd
           /\ stack[i].at = "mask" => i = Len(stack)
           /\ stack[i].irq \in opened \cup {SysCall}
           /\ stack[i].irq = SysCall => stack[i].at \in {"handler", "answer", "leave"}
           /\ stack[i].at = "answer" => stack[i].irq = SysCall
           /\ stack[i].at = "wrap" => i = 1 /\ stack[i].irq = Clock
           /\ stack[i].irq = SysCall => i = 1
      /\ isr = IF stack # <<>> /\ Top.at = "mask" THEN {Top.irq} ELSE {}

\* No handler of a line, nor the system call, is entered again before it has
\* left: keyboard_handler and clock_handler are not written for that.
NoReentry == \A i, j \in 1 .. Len(stack) :
                 stack[i].irq = stack[j].irq => i = j

\* Each process has its own registers, and those of the task that runs, or ran
\* when the outermost interrupt came, belong to the frame tss.sp0 stands for.
OwnFrames ==
    setup = "up" =>
      /\ \A t \in Tasks : pcb[t].task = t
      /\ sp0 \in Tasks
      /\ stack = <<>> => ready = sp0 /\ cpu.task = sp0
      /\ stack # <<>> => \/ ready = sp0
                         \/ stack[1].irq = Clock /\ stack[1].at \in {"wrap", "leave"}
      /\ ready = PastEnd => stack # <<>> /\ stack[1].at = "wrap"

\* A task that called the kernel is answered before it goes on, in the frame
\* it called from, whatever interrupts the call and whichever task is next.
CallAnswered ==
    setup = "up" =>
      /\ TaskRuns => cpu.eax # "request"
      /\ \A t \in Tasks :
           pcb[t].eax = "request" =>
             stack # <<>> /\ stack[1].irq = SysCall /\ stack[1].at # "leave"
               /\ t = sp0

TaskInv == TTypeOK /\ SettingUp /\ Masking /\ Nesting /\ NoReentry /\ OwnFrames /\ CallAnswered

-----------------------------------------------------------------------------
(* The kernel implements round robin.                                      *)
RR == INSTANCE RoundRobin WITH
        current <- IF ready = PastEnd THEN 0 ELSE ready,
        place <- [t \in Tasks |-> IF TaskRuns /\ cpu.task = t THEN cpu.at
                                  ELSE pcb[t].at]

\* Every task goes on exactly where it was interrupted, and only in its turn.
ImplementsRoundRobin == RR!RRSpec

\* A key whose request reaches the controller is read, even one that comes
\* while the handler for the last one is running, or under the clock's, as
\* long as the clock is not at every moment waiting or being served.
ClockRests == Clock \notin irr \cup isr \cup Serving
KeyRead == []<>ClockRests =>
             (setup = "up" /\ full /\ Keyboard \in irr \cap opened ~> ~full)

\* If the clock ticks often enough while tasks run, each of them has its turn.
TickInTask == TaskRuns /\ Interrupt(Clock)
AllTasksRun == []<><<TickInTask>>_tvars =>
                 \A t \in Tasks : []<>(TaskRuns /\ cpu.task = t)

=============================================================================
