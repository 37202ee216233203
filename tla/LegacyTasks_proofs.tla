--------------------------- MODULE LegacyTasks_proofs ---------------------------
(***************************************************************************)
(* The interrupts and tasks of the legacy kernel, for any number of tasks, *)
(* any of which make system calls, and any set of enabled lines.           *)
(***************************************************************************)
EXTENDS LegacyTasks, SequenceTheorems, TLAPS

-----------------------------------------------------------------------------
(* The three ways in which the stack of handlers changes.                  *)

LEMMA Pushed ==
    ASSUME NEW s \in Seq(Handlers), NEW h \in Handlers
    PROVE  /\ Append(s, h) \in Seq(Handlers)
           /\ Len(Append(s, h)) = Len(s) + 1
           /\ \A i \in 1 .. Len(s) : Append(s, h)[i] = s[i]
           /\ Append(s, h)[Len(s) + 1] = h
    BY AppendProperties

LEMMA Alone ==
    ASSUME NEW h \in Handlers
    PROVE  /\ <<h>> \in Seq(Handlers) /\ Len(<<h>>) = 1
           /\ <<h>>[1] = h /\ <<h>> # <<>>
    OBVIOUS

LEMMA Popped ==
    ASSUME NEW s \in Seq(Handlers), s # <<>>
    PROVE  LET r == SubSeq(s, 1, Len(s) - 1) IN
           /\ r \in Seq(Handlers)
           /\ Len(r) = Len(s) - 1
           /\ \A i \in 1 .. Len(s) - 1 : r[i] = s[i]
           /\ Len(s) \in Nat \ {0}
<1>1. PICK n \in Nat \ {0} : n = Len(s)
    BY EmptySeq, LenProperties
<1>2. \A i \in 1 .. n - 1 : s[i] \in Handlers
    BY <1>1, ElementOfSeq
<1> DEFINE r == SubSeq(s, 1, n - 1)
<1>3. /\ r \in Seq(Handlers)
      /\ Len(r) = IF 1 <= n - 1 THEN n - 1 - 1 + 1 ELSE 0
      /\ \A i \in 1 .. n - 1 - 1 + 1 : r[i] = s[1 + i - 1]
    BY <1>2, SubSeqProperties
<1> HIDE DEF r
<1>4. Len(r) = n - 1
    BY <1>3
<1>5. \A i \in 1 .. n - 1 : r[i] = s[i]
    BY <1>3
<1> QED
    BY <1>1, <1>3, <1>4, <1>5 DEF r

LEMMA Moved ==
    ASSUME NEW s \in Seq(Handlers), s # <<>>,
           NEW next \in {"mask", "handler", "wrap", "answer", "leave"}
    PROVE  LET r == [s EXCEPT ![Len(s)].at = next] IN
           /\ r \in Seq(Handlers)
           /\ Len(r) = Len(s)
           /\ \A i \in 1 .. Len(s) : i # Len(s) => r[i] = s[i]
           /\ r[Len(s)] = [s[Len(s)] EXCEPT !.at = next]
           /\ Len(s) \in Nat \ {0}
           /\ r # <<>>
<1>1. Len(s) \in Nat \ {0}
    BY EmptySeq, LenProperties
<1>2. s[Len(s)] \in Handlers
    BY <1>1, ElementOfSeq
<1>3. [s[Len(s)] EXCEPT !.at = next] \in Handlers
    BY <1>2 DEF Handlers
<1> DEFINE r == [s EXCEPT ![Len(s)] = [s[Len(s)] EXCEPT !.at = next]]
<1>4. /\ r \in Seq(Handlers)
      /\ Len(r) = Len(s)
      /\ \A i \in 1 .. Len(s) :
           r[i] = IF i = Len(s) THEN [s[Len(s)] EXCEPT !.at = next] ELSE s[i]
    BY <1>1, <1>3, ExceptSeq
<1>5. r # <<>>
    BY <1>1, <1>4
<1> QED
    BY <1>1, <1>4, <1>5

\* The top of a stack that is not empty is one of its handlers.
LEMMA TopIsOne ==
    ASSUME TTypeOK, stack # <<>>
    PROVE  /\ Len(stack) \in Nat \ {0}
           /\ Top \in Handlers
           /\ \A i \in 1 .. Len(stack) : stack[i] \in Handlers
<1>1. Len(stack) \in Nat \ {0}
    BY EmptySeq, LenProperties DEF TTypeOK
<1> QED
    BY <1>1, ElementOfSeq DEF TTypeOK, Top

\* The system call, the pointer's test and a handler at depth 0 are outermost.
LEMMA Outermost ==
    ASSUME TTypeOK, Nesting, setup = "up", stack # <<>>,
           Top.at \in {"wrap", "answer"} \/ Top.irq = SysCall \/ depth = 0
    PROVE  Len(stack) = 1 /\ Top = stack[1]
<1>1. PICK n \in Nat \ {0} : n = Len(stack)
    BY TopIsOne
<1>2. n \in 1 .. Len(stack) /\ Top = stack[n]
    BY <1>1 DEF Top
<1>3. n = 1
    BY <1>1, <1>2 DEF Nesting
<1> QED
    BY <1>1, <1>2, <1>3

\* What serves, index by index.
LEMMA ServingIndex ==
    \A l : l \in Serving <=> \E i \in 1 .. Len(stack) :
                                stack[i].irq = l /\ stack[i].at # "mask"
    BY DEF Serving

LEMMA EmptyServing == stack = <<>> => Serving = {} /\ Len(stack) = 0
    BY DEF Serving

-----------------------------------------------------------------------------
(* The inductive invariant: kmain.                                         *)

LEMMA InitInv == TInit => TaskInv
<1> SUFFICES ASSUME TInit PROVE TaskInv
    OBVIOUS
<1> USE LinesAssumption, TasksAssumption
<1>1. TTypeOK
    BY DEF TInit, TTypeOK, Registers, Blank, PastEnd, LoopSteps, Tasks
<1>2. SettingUp /\ Masking /\ Nesting /\ OwnFrames /\ CallAnswered
    BY DEF TInit, SettingUp, Masking, Nesting, OwnFrames, CallAnswered
<1>3. NoReentry
    BY DEF TInit, NoReentry
<1> QED
    BY <1>1, <1>2, <1>3 DEF TaskInv

\* Nothing but the set-up properties is at stake before tasks run.
LEMMA KmainStep ==
    ASSUME TaskInv, kmain
    PROVE  TaskInv'
<1> USE LinesAssumption, TasksAssumption DEF TaskInv
<1>1. CASE init_8259A
  <2>1. TTypeOK'
      BY <1>1 DEF init_8259A, Call, TTypeOK, tasks
  <2>2. /\ setup' = "clock" /\ stack' = <<>> /\ depth' = 0 /\ isr' = {}
        /\ ready' = PastEnd /\ pcb' = [t \in Tasks |-> Blank]
      BY <1>1 DEF init_8259A, Call, tasks, SettingUp
  <2>3. SettingUp' /\ Masking' /\ Nesting' /\ NoReentry' /\ OwnFrames'
        /\ CallAnswered'
      BY <1>1, <2>2 DEF init_8259A, SettingUp, Masking, Nesting, NoReentry,
                       OwnFrames, CallAnswered
  <2> QED
      BY <2>1, <2>3
<1>2. CASE RegisterHandlers
  <2>1. TTypeOK'
    <3>1. /\ Clock \in Lines /\ Keyboard \in Lines
          /\ setup' \in {"keyboard", "enable"}
          /\ UNCHANGED <<opened, irr, isr, full, depth, ready, sp0, pcb, cpu,
                         stack>>
        BY <1>2 DEF RegisterHandlers, register_handler, Call, tasks
    <3>2. irq_table' \in [Lines -> {"none", "common_irq", "clock_handler",
                                   "keyboard_handler"}]
        BY <1>2, <3>1 DEF RegisterHandlers, register_handler, Call, TTypeOK
    <3>3. imr' \subseteq Lines
        BY <1>2, <3>1 DEF RegisterHandlers, register_handler, Call, TTypeOK
    <3> QED
        BY <3>1, <3>2, <3>3 DEF TTypeOK
  <2>2. /\ setup' # "up" /\ stack' = <<>> /\ depth' = 0 /\ isr' = {}
        /\ ready' = PastEnd /\ pcb' = [t \in Tasks |-> Blank]
      BY <1>2 DEF RegisterHandlers, register_handler, Call, tasks, SettingUp
  <2>3. SettingUp'
    <3>1. CASE Call("clock", "keyboard") /\ register_handler("clock_handler", Clock)
        BY <2>2, <3>1 DEF register_handler, Call, SettingUp, TTypeOK
    <3>2. CASE Call("keyboard", "enable")
               /\ register_handler("keyboard_handler", Keyboard)
        BY <2>2, <3>2 DEF register_handler, Call, SettingUp, TTypeOK, Clock,
                          Keyboard
    <3> QED
        BY <1>2, <3>1, <3>2 DEF RegisterHandlers
  <2>4. Masking' /\ Nesting' /\ NoReentry' /\ OwnFrames' /\ CallAnswered'
      BY <2>2 DEF Masking, Nesting, NoReentry, OwnFrames, CallAnswered
  <2> QED
      BY <2>1, <2>3, <2>4
<1>3. CASE \E l \in Lines : enable_irq(l)
  <2>1. TTypeOK'
      BY <1>3 DEF enable_irq, Call, TTypeOK, tasks
  <2>2. /\ setup' = "enable" /\ stack' = <<>> /\ depth' = 0 /\ isr' = {}
        /\ ready' = PastEnd /\ pcb' = [t \in Tasks |-> Blank]
      BY <1>3 DEF enable_irq, Call, tasks, SettingUp
  <2>3. SettingUp'
      BY <1>3, <2>2 DEF enable_irq, Call, SettingUp
  <2>4. Masking' /\ Nesting' /\ NoReentry' /\ OwnFrames' /\ CallAnswered'
      BY <2>2 DEF Masking, Nesting, NoReentry, OwnFrames, CallAnswered
  <2> QED
      BY <2>1, <2>3, <2>4
<1>4. CASE StartTasks
  <2>1. 0 \in Tasks
      BY DEF Tasks
  <2>2. \A t \in Tasks : [task |-> t, at |-> 0, eax |-> "own"] \in Registers
      BY DEF Registers, Tasks, LoopSteps
  <2>3. /\ pcb' = [t \in Tasks |-> [task |-> t, at |-> 0, eax |-> "own"]]
        /\ cpu' = [task |-> 0, at |-> 0, eax |-> "own"]
        /\ stack' = <<>> /\ Len(stack') = 0 /\ depth' = -1
        /\ ready' = 0 /\ sp0' = 0 /\ setup' = "up"
        /\ UNCHANGED <<opened, irq_table, imr, irr, isr, full>>
      BY <1>4, <2>1 DEF StartTasks, Call, pic
  <2>4. TTypeOK'
    <3>1. stack' \in Seq(Handlers)
        BY <2>3
    <3>2. pcb' \in [Tasks -> Registers] /\ cpu' \in Registers
        BY <2>1, <2>2, <2>3
    <3> QED
        BY <2>3, <3>1, <3>2 DEF TTypeOK
  <2>5. SettingUp'
      BY <1>4, <2>3 DEF StartTasks, Call, SettingUp
  <2>6. Masking'
    <3>1. Serving' = {}
        BY <2>3 DEF Serving
    <3> QED
        BY <1>4, <2>3, <3>1 DEF StartTasks, Call, SettingUp, Masking, TTypeOK
  <2>7. isr = {}

      BY <1>4 DEF StartTasks, Call, SettingUp
  <2>8. Nesting' /\ NoReentry' /\ OwnFrames' /\ CallAnswered'
      BY <2>1, <2>3, <2>7 DEF Nesting, NoReentry, OwnFrames, CallAnswered,
                              TaskRuns, PastEnd, Tasks
  <2> QED
      BY <2>4, <2>5, <2>6, <2>8
<1> QED
    BY <1>1, <1>2, <1>3, <1>4 DEF kmain

-----------------------------------------------------------------------------
(* Steps of a handler that move no further than within it.                 *)

\* The stack after such a step.
LEMMA GotoEffect ==
    ASSUME TTypeOK, stack # <<>>,
           NEW next \in {"handler", "wrap", "answer", "leave"}, Goto(next)
    PROVE  /\ stack' \in Seq(Handlers) /\ stack' # <<>>
           /\ Len(stack') = Len(stack)
           /\ \A i \in 1 .. Len(stack) :
                /\ i # Len(stack) => stack'[i] = stack[i]
                /\ i = Len(stack) => stack'[i].at = next
                /\ stack'[i].irq = stack[i].irq
                /\ stack'[i].exit = stack[i].exit
                /\ stack'[i].esi = stack[i].esi
           /\ Len(stack) \in Nat \ {0}
<1>1. stack \in Seq(Handlers)
    BY DEF TTypeOK
<1>2. /\ stack' \in Seq(Handlers)
      /\ Len(stack') = Len(stack)
      /\ \A i \in 1 .. Len(stack) : i # Len(stack) => stack'[i] = stack[i]
      /\ stack'[Len(stack)] = [stack[Len(stack)] EXCEPT !.at = next]
      /\ Len(stack) \in Nat \ {0}
      /\ stack' # <<>>
  <2> DEFINE r == [stack EXCEPT ![Len(stack)].at = next]
  <2>1. /\ r \in Seq(Handlers)
        /\ Len(r) = Len(stack)
        /\ \A i \in 1 .. Len(stack) : i # Len(stack) => r[i] = stack[i]
        /\ r[Len(stack)] = [stack[Len(stack)] EXCEPT !.at = next]
        /\ Len(stack) \in Nat \ {0}
        /\ r # <<>>
    <3>1. next \in {"mask", "handler", "wrap", "answer", "leave"}
        OBVIOUS
    <3> QED
        BY <1>1, <3>1, Moved, Zenon
  <2>2. stack' = r
      BY DEF Goto
  <2> HIDE DEF r
  <2> QED
      BY <2>1, <2>2
<1>3. stack[Len(stack)] \in Handlers
    BY TopIsOne
<1>4. /\ stack'[Len(stack)].at = next
      /\ stack'[Len(stack)].irq = stack[Len(stack)].irq
      /\ stack'[Len(stack)].exit = stack[Len(stack)].exit
      /\ stack'[Len(stack)].esi = stack[Len(stack)].esi
    BY <1>2, <1>3 DEF Handlers
<1> QED
    BY <1>2, <1>4

\* Past the masking of its line, a step of a handler changes no mask and no
\* nesting.
LEMMA GotoInv ==
    ASSUME TaskInv, setup = "up", stack # <<>>, Top.at # "mask",
           NEW next \in {"wrap", "answer", "leave"}, Goto(next),
           next = "wrap" => Len(stack) = 1 /\ Top.irq = Clock,
           next = "answer" => Top.irq = SysCall,
           UNCHANGED <<setup, opened, imr, isr, depth, sp0>>
    PROVE  Masking' /\ Nesting' /\ NoReentry'
<1> USE DEF TaskInv
<1>1. /\ stack' \in Seq(Handlers) /\ stack' # <<>>
      /\ Len(stack') = Len(stack)
      /\ \A i \in 1 .. Len(stack) :
           /\ i # Len(stack) => stack'[i] = stack[i]
           /\ i = Len(stack) => stack'[i].at = next
           /\ stack'[i].irq = stack[i].irq
           /\ stack'[i].exit = stack[i].exit
           /\ stack'[i].esi = stack[i].esi
      /\ Len(stack) \in Nat \ {0}
    BY GotoEffect
<1>2. \A l : l \in Serving' <=> l \in Serving
  <2>1. \A l : l \in Serving' <=> \E i \in 1 .. Len(stack) :
                      stack'[i].irq = l /\ stack'[i].at # "mask"
      BY <1>1 DEF Serving
  <2> QED
      BY <1>1, <2>1, ServingIndex DEF Top
<1>3. Masking'
    BY <1>2 DEF Masking
<1>4. NoReentry'
    BY <1>1 DEF NoReentry
<1>5. Nesting'
  <2>1. depth' = Len(stack') - 1
      BY <1>1 DEF Nesting
  <2>2. isr' = IF stack' # <<>> /\ Top'.at = "mask" THEN {Top'.irq} ELSE {}
      BY <1>1 DEF Nesting, Top
  <2>3. ASSUME NEW i \in 1 .. Len(stack')
        PROVE  /\ (stack'[i].exit = "restart") <=> (i = 1)
               /\ stack'[i].esi = IF i = 1 THEN sp0' ELSE PastEnd
               /\ stack'[i].at = "mask" => i = Len(stack')
               /\ stack'[i].irq \in opened' \cup {SysCall}
               /\ stack'[i].irq = SysCall => stack'[i].at \in {"handler", "answer", "leave"}
               /\ stack'[i].at = "answer" => stack'[i].irq = SysCall
               /\ stack'[i].at = "wrap" => i = 1 /\ stack'[i].irq = Clock
               /\ stack'[i].irq = SysCall => i = 1
    <3>1. CASE i # Len(stack)
        BY <1>1, <2>3, <3>1 DEF Nesting
    <3>2. CASE i = Len(stack)
        BY <1>1, <2>3, <3>2 DEF Nesting, Top, Clock, SysCall
    <3> QED
        BY <3>1, <3>2
  <2> QED
      BY <2>1, <2>2, <2>3 DEF Nesting
<1> QED
    BY <1>3, <1>4, <1>5

\* Steps that leave processes and answers alone.
LEMMA GotoAlone ==
    ASSUME TaskInv, setup = "up", stack # <<>>, Top.at = "handler", Goto("leave"),
           Top.irq # SysCall,
           UNCHANGED <<setup, sp0, pcb, cpu, ready>>
    PROVE  OwnFrames' /\ CallAnswered'
<1> USE DEF TaskInv
<1>1. /\ stack' # <<>>
      /\ Len(stack') = Len(stack)
      /\ \A i \in 1 .. Len(stack) :
           /\ i # Len(stack) => stack'[i] = stack[i]
           /\ i = Len(stack) => stack'[i].at = "leave"
           /\ stack'[i].irq = stack[i].irq
      /\ Len(stack) \in Nat \ {0}
    BY GotoEffect
<1>2. \/ stack'[1] = stack[1]
      \/ stack[1] = Top /\ stack'[1].at = "leave" /\ stack'[1].irq = stack[1].irq
    BY <1>1 DEF Top
<1>3. OwnFrames'
    BY <1>1, <1>2 DEF OwnFrames
<1>4. CallAnswered'
    BY <1>1, <1>2 DEF CallAnswered, TaskRuns
<1> QED
    BY <1>3, <1>4

LEMMA HandlerStep ==
    ASSUME TaskInv, keyboard_handler
    PROVE  TaskInv'
<1> USE DEF TaskInv
<1>1. /\ setup = "up" /\ stack # <<>> /\ Top.at = "handler" /\ Top.irq # SysCall
      /\ Goto("leave")
      /\ UNCHANGED <<setup, opened, irq_table, imr, irr, isr, depth, ready, sp0,
                     pcb, cpu>>
      /\ full' \in BOOLEAN
    BY DEF keyboard_handler, Serves, AtStep, pic, TTypeOK
<1>2. stack' \in Seq(Handlers)
    BY <1>1, GotoEffect
<1>3. TTypeOK'
    BY <1>1, <1>2 DEF TTypeOK
<1>4. Masking' /\ Nesting' /\ NoReentry'
    BY <1>1, GotoInv
<1>5. OwnFrames' /\ CallAnswered'
    BY <1>1, GotoAlone
<1>6. SettingUp'
    BY <1>1 DEF SettingUp
<1> QED
    BY <1>3, <1>4, <1>5, <1>6

LEMMA ClockStep ==
    ASSUME TaskInv, clock_handler
    PROVE  TaskInv'
<1> USE TasksAssumption DEF TaskInv
<1>1. /\ setup = "up" /\ stack # <<>> /\ Top.at = "handler" /\ Top.irq # SysCall
      /\ irq_table[Top.irq] = "clock_handler"
      /\ UNCHANGED <<setup, opened, irq_table, imr, irr, isr, full, depth, sp0,
                     pcb, cpu>>
    BY DEF clock_handler, Serves, AtStep, pic
<1>2. SettingUp'
    BY <1>1 DEF SettingUp
<1>3. CASE depth # 0
  <2>1. Goto("leave") /\ UNCHANGED ready
      BY <1>3 DEF clock_handler
  <2>2. stack' \in Seq(Handlers)
      BY <1>1, <2>1, GotoEffect
  <2>3. TTypeOK'
      BY <1>1, <2>1, <2>2 DEF TTypeOK
  <2>4. Masking' /\ Nesting' /\ NoReentry'
      BY <1>1, <2>1, GotoInv
  <2>5. OwnFrames' /\ CallAnswered'
      BY <1>1, <2>1, GotoAlone
  <2> QED
      BY <1>2, <2>3, <2>4, <2>5
<1>4. CASE depth = 0
  <2>1. Goto("wrap") /\ ready' = ready + 1
      BY <1>4 DEF clock_handler
  <2>2. Len(stack) = 1 /\ Top = stack[1]
      BY <1>1, <1>4, Outermost
  <2>3. Top.irq = Clock
    <3>1. Top.irq \in opened
        BY <1>1, <2>2 DEF Nesting, Top
    <3>2. opened \subseteq {Clock, Keyboard}
        BY LinesAssumption DEF TTypeOK
    <3>3. irq_table[Keyboard] = "keyboard_handler"
        BY <1>1 DEF SettingUp
    <3> QED
        BY <1>1, <3>1, <3>2, <3>3
  <2>4. /\ stack' \in Seq(Handlers) /\ stack' # <<>> /\ Len(stack') = 1
        /\ stack'[1].at = "wrap" /\ stack'[1].irq = Clock
      BY <1>1, <2>1, <2>2, <2>3, GotoEffect
  <2>5. ready = sp0 /\ ready \in Tasks /\ ready' \in 0 .. MAX_THREAD
      BY <1>1, <2>1, <2>2 DEF OwnFrames, Tasks
  <2>6. TTypeOK'
      BY <1>1, <2>4, <2>5 DEF TTypeOK
  <2>7. Masking' /\ Nesting' /\ NoReentry'
      BY <1>1, <2>1, <2>2, <2>3, GotoInv
  <2>8. OwnFrames'
      BY <1>1, <2>4 DEF OwnFrames
  <2>9. CallAnswered'
      BY <1>1, <2>2, <2>3, <2>4 DEF CallAnswered, TaskRuns, Clock, SysCall
  <2> QED
      BY <1>2, <2>6, <2>7, <2>8, <2>9
<1> QED
    BY <1>3, <1>4

LEMMA WrapStep ==
    ASSUME TaskInv, clock_wraps
    PROVE  TaskInv'
<1> USE TasksAssumption DEF TaskInv
<1>1. /\ setup = "up" /\ stack # <<>> /\ Top.at = "wrap" /\ Goto("leave")
      /\ ready' = IF ready >= MAX_THREAD THEN 0 ELSE ready
      /\ UNCHANGED <<setup, opened, irq_table, imr, irr, isr, full, depth, sp0,
                     pcb, cpu>>
    BY DEF clock_wraps, AtStep, pic
<1>2. Len(stack) = 1 /\ Top = stack[1] /\ Top.irq = Clock
  <2>1. Len(stack) = 1 /\ Top = stack[1]
      BY <1>1, Outermost
  <2> QED
      BY <1>1, <2>1 DEF Nesting
<1>3. /\ stack' \in Seq(Handlers) /\ stack' # <<>> /\ Len(stack') = 1
      /\ stack'[1].at = "leave" /\ stack'[1].irq = Clock
    BY <1>1, <1>2, GotoEffect
<1>4. ready' \in Tasks /\ ready' # PastEnd /\ ready' \in 0 .. MAX_THREAD
    BY <1>1 DEF TTypeOK, Tasks, PastEnd
<1>5. TTypeOK'
    BY <1>1, <1>3, <1>4 DEF TTypeOK
<1>6. Masking' /\ Nesting' /\ NoReentry'
    BY <1>1, GotoInv
<1>7. OwnFrames' /\ CallAnswered'
    BY <1>1, <1>2, <1>3, <1>4 DEF OwnFrames, CallAnswered, TaskRuns, Clock,
                                  SysCall
<1>8. SettingUp'
    BY <1>1 DEF SettingUp
<1> QED
    BY <1>5, <1>6, <1>7, <1>8

LEMMA CallStep ==
    ASSUME TaskInv, sys_call_master \/ sys_call_answers
    PROVE  TaskInv'
<1> USE DEF TaskInv
<1>1. /\ setup = "up" /\ stack # <<>>
      /\ UNCHANGED <<setup, opened, irq_table, imr, irr, isr, full, depth, ready,
                     sp0, cpu>>
    BY DEF sys_call_master, sys_call_answers, AtStep, pic
<1>2. SettingUp'
    BY <1>1 DEF SettingUp
<1>3. CASE sys_call_master
  <2>1. Goto("answer") /\ Top.irq = SysCall /\ Top.at = "handler" /\ pcb' = pcb
      BY <1>3 DEF sys_call_master, AtStep
  <2>2. Len(stack) = 1 /\ Top = stack[1]
      BY <1>1, <2>1, Outermost
  <2>3. /\ stack' \in Seq(Handlers) /\ stack' # <<>> /\ Len(stack') = 1
        /\ stack'[1].at = "answer" /\ stack'[1].irq = SysCall
      BY <1>1, <2>1, <2>2, GotoEffect
  <2>4. TTypeOK'
      BY <1>1, <2>1, <2>3 DEF TTypeOK
  <2>5. Masking' /\ Nesting' /\ NoReentry'
      BY <1>1, <2>1, GotoInv
  <2>6. OwnFrames' /\ CallAnswered'
      BY <1>1, <2>1, <2>2, <2>3 DEF OwnFrames, CallAnswered, TaskRuns, Clock,
                                    SysCall
  <2> QED
      BY <1>2, <2>4, <2>5, <2>6
<1>4. CASE sys_call_answers
  <2>1. Goto("leave") /\ Top.at = "answer"
      BY <1>4 DEF sys_call_answers, AtStep
  <2>2. Len(stack) = 1 /\ Top = stack[1] /\ Top.irq = SysCall /\ Top.esi = sp0
    <3>1. Len(stack) = 1 /\ Top = stack[1]
        BY <1>1, <2>1, Outermost
    <3> QED
        BY <1>1, <2>1, <3>1 DEF Nesting
  <2>3. sp0 \in Tasks
      BY <1>1 DEF OwnFrames
  <2>4. pcb' = [pcb EXCEPT ![sp0].eax = "answer"]
      BY <1>4, <2>2, <2>3 DEF sys_call_answers
  <2>5. /\ stack' \in Seq(Handlers) /\ stack' # <<>> /\ Len(stack') = 1
        /\ stack'[1].at = "leave" /\ stack'[1].irq = SysCall
      BY <1>1, <2>1, <2>2, GotoEffect
  <2>6. /\ pcb' \in [Tasks -> Registers]
        /\ \A t \in Tasks : /\ pcb'[t].task = pcb[t].task
                            /\ pcb'[t].eax = IF t = sp0 THEN "answer"
                                             ELSE pcb[t].eax
    <3>1. pcb[sp0] \in Registers
        BY <2>3 DEF TTypeOK
    <3>2. [pcb[sp0] EXCEPT !.eax = "answer"] \in Registers
        BY <3>1 DEF Registers
    <3> QED
        BY <2>3, <2>4, <3>1, <3>2 DEF TTypeOK, Registers
  <2>7. TTypeOK'
      BY <1>1, <2>5, <2>6 DEF TTypeOK
  <2>8. Masking' /\ Nesting' /\ NoReentry'
      BY <1>1, <2>1, GotoInv
  <2>9. OwnFrames' /\ CallAnswered'
    <3>1. ready = sp0
        BY <1>1, <2>2, <2>5 DEF OwnFrames, Clock, SysCall
    <3>2. \A t \in Tasks : pcb'[t].task = t /\ pcb'[t].eax # "request"
        BY <1>1, <2>6 DEF OwnFrames, CallAnswered
    <3> QED
        BY <1>1, <2>3, <2>5, <3>1, <3>2 DEF OwnFrames, CallAnswered, TaskRuns,
                                            PastEnd, Tasks
  <2> QED
      BY <1>2, <2>7, <2>8, <2>9
<1> QED
    BY <1>3, <1>4

-----------------------------------------------------------------------------
(* Entering a handler.                                                     *)

\* Where save leaves the stack, whether it starts it or goes on with it.
LEMMA SaveEffect ==
    ASSUME TTypeOK, Nesting, OwnFrames, setup = "up",
           NEW n \in Lines \cup {SysCall}, NEW registers, save(n, registers)
    PROVE  /\ stack' \in Seq(Handlers)
           /\ Len(stack) \in Nat /\ Len(stack') = Len(stack) + 1
           /\ depth' = Len(stack)
           /\ stack' # <<>>
           /\ \A i \in 1 .. Len(stack) : stack'[i] = stack[i]
           /\ stack'[Len(stack) + 1] =
                [irq |-> n,
                 at |-> IF n = SysCall THEN "handler" ELSE "mask",
                 exit |-> IF stack = <<>> THEN "restart" ELSE "restart_reenter",
                 esi |-> IF stack = <<>> THEN sp0 ELSE PastEnd]
<1> USE TasksAssumption
<1> DEFINE h(k) == Handler(n, k)
<1>1. \A k \in Int : h(k) \in Handlers
  <2>1. sp0 \in 0 .. MAX_THREAD /\ PastEnd \in 0 .. MAX_THREAD
      BY DEF TTypeOK, PastEnd
  <2> QED
      BY <2>1 DEF Handler, Handlers
<1>2. depth = Len(stack) - 1 /\ depth' = depth + 1
    BY DEF Nesting, save
<1>3. CASE stack = <<>>
  <2>1. Len(stack) = 0 /\ depth' = 0
      BY <1>2, <1>3
  <2>2. stack' = <<h(0)>>
      BY <2>1 DEF save
  <2>3. /\ <<h(0)>> \in Seq(Handlers) /\ Len(<<h(0)>>) = 1
        /\ <<h(0)>>[1] = h(0) /\ <<h(0)>> # <<>>
      BY <1>1, Alone
  <2> QED
      BY <1>3, <2>1, <2>2, <2>3 DEF Handler
<1>4. CASE stack # <<>>
  <2>1. PICK m \in Nat \ {0} : m = Len(stack)
      BY <1>4, TopIsOne
  <2>2. depth' = m
      BY <1>2, <2>1
  <2>3. stack' = Append(stack, h(m))
      BY <2>2 DEF save
  <2>4. h(m) \in Handlers /\ stack \in Seq(Handlers)
      BY <1>1 DEF TTypeOK
  <2>5. /\ Append(stack, h(m)) \in Seq(Handlers)
        /\ Len(Append(stack, h(m))) = Len(stack) + 1
        /\ \A i \in 1 .. Len(stack) : Append(stack, h(m))[i] = stack[i]
        /\ Append(stack, h(m))[Len(stack) + 1] = h(m)
      BY <2>4, Pushed
  <2>6. h(m) = [irq |-> n,
                at |-> IF n = SysCall THEN "handler" ELSE "mask",
                exit |-> "restart_reenter",
                esi |-> PastEnd]
      BY <1>4 DEF Handler
  <2>7. stack' # <<>>
      BY <2>1, <2>3, <2>5
  <2> HIDE DEF h
  <2> QED
      BY <1>4, <2>1, <2>2, <2>3, <2>5, <2>6, <2>7
<1> QED
    BY <1>3, <1>4

\* The frames after save: a task's registers go to the frame it was restarted
\* from.
LEMMA SaveFrames ==
    ASSUME TTypeOK, OwnFrames, setup = "up",
           NEW n, NEW registers \in Registers, save(n, registers)
    PROVE  /\ pcb' \in [Tasks -> Registers]
           /\ stack # <<>> => pcb' = pcb
           /\ stack = <<>> => \A t \in Tasks :
                                pcb'[t] = IF t = sp0 THEN registers ELSE pcb[t]
    BY DEF save, TTypeOK, OwnFrames

LEMMA SaveNesting ==
    ASSUME TaskInv, setup = "up", stack # <<>> => Top.at # "mask",
           NEW n \in opened \cup {SysCall}, n \in Lines \cup {SysCall},
           NEW registers, save(n, registers),
           n = SysCall => stack = <<>>,
           \A i \in 1 .. Len(stack) : stack[i].irq # n,
           isr' = IF n = SysCall THEN {} ELSE {n}
    PROVE  Nesting' /\ NoReentry'
<1> USE DEF TaskInv
<1> DEFINE h == [irq |-> n,
                 at |-> IF n = SysCall THEN "handler" ELSE "mask",
                 exit |-> IF stack = <<>> THEN "restart" ELSE "restart_reenter",
                 esi |-> IF stack = <<>> THEN sp0 ELSE PastEnd]
<1>1. PICK m \in Nat :
        /\ m = Len(stack) /\ Len(stack') = m + 1 /\ depth' = m
        /\ stack' # <<>>
        /\ \A i \in 1 .. m : stack'[i] = stack[i]
        /\ stack'[m + 1] = h
        /\ stack = <<>> <=> m = 0
    BY SaveEffect, EmptySeq DEF TTypeOK
<1>2. UNCHANGED <<setup, opened, sp0>>
    BY DEF save
<1>3. NoReentry'
    BY <1>1 DEF NoReentry
<1>4. ASSUME NEW i \in 1 .. m + 1
      PROVE  /\ (stack'[i].exit = "restart") <=> (i = 1)
             /\ stack'[i].esi = IF i = 1 THEN sp0 ELSE PastEnd
             /\ stack'[i].at = "mask" => i = m + 1
             /\ stack'[i].irq \in opened \cup {SysCall}
             /\ stack'[i].irq = SysCall => stack'[i].at \in {"handler", "answer", "leave"}
             /\ stack'[i].at = "answer" => stack'[i].irq = SysCall
             /\ stack'[i].at = "wrap" => i = 1 /\ stack'[i].irq = Clock
             /\ stack'[i].irq = SysCall => i = 1
  <2>1. CASE i = m + 1
      BY <1>1, <2>1
  <2>2. CASE i # m + 1
    <3>1. i \in 1 .. m /\ stack'[i] = stack[i]
        BY <1>1, <2>2
    <3>2. stack[i].at # "mask"
        BY <1>1, <3>1 DEF Nesting, Top
    <3> QED
        BY <1>1, <3>1, <3>2 DEF Nesting
  <2> QED
      BY <2>1, <2>2
<1>5. isr' = IF stack' # <<>> /\ Top'.at = "mask" THEN {Top'.irq} ELSE {}
    BY <1>1 DEF Top
<1>6. depth' = Len(stack') - 1
    BY <1>1
<1> HIDE DEF h
<1> QED
    BY <1>1, <1>2, <1>3, <1>4, <1>5, <1>6 DEF Nesting

LEMMA InterruptStep ==
    ASSUME TaskInv, NEW l \in Lines, Interrupt(l)
    PROVE  TaskInv'
<1> USE DEF TaskInv
<1>1. /\ setup = "up"
      /\ stack # <<>> => Top.at # "mask"
      /\ l \in irr /\ l \notin imr
      /\ irr' = irr \ {l} /\ isr' = isr \cup {l} /\ save(l, cpu)
    BY DEF Interrupt, Enabled, Requesting
<1>2. /\ UNCHANGED <<setup, opened, irq_table, imr, full, ready, sp0, cpu>>
      /\ depth' = depth + 1
    BY <1>1 DEF save
<1>3. l # SysCall
    BY LinesAssumption DEF SysCall
<1>4. isr' = {l}
    BY <1>1 DEF Nesting
<1>5. l \in opened /\ \A i \in 1 .. Len(stack) : stack[i].irq # l
  <2>1. l \in opened /\ l \notin Serving
      BY <1>1 DEF Masking
  <2>2. \A i \in 1 .. Len(stack) : stack[i].at # "mask"
      BY <1>1, EmptyServing DEF Nesting, Top
  <2> QED
      BY <2>1, <2>2, ServingIndex
<1>6. /\ stack' \in Seq(Handlers) /\ stack' # <<>>
      /\ Len(stack) \in Nat /\ Len(stack') = Len(stack) + 1
      /\ \A i \in 1 .. Len(stack) : stack'[i] = stack[i]
      /\ stack'[Len(stack) + 1].irq = l /\ stack'[Len(stack) + 1].at = "mask"
  <2> DEFINE h == [irq |-> l, at |-> "mask",
                   exit |-> IF stack = <<>> THEN "restart" ELSE "restart_reenter",
                   esi |-> IF stack = <<>> THEN sp0 ELSE PastEnd]
  <2>1. /\ stack' \in Seq(Handlers) /\ stack' # <<>>
        /\ Len(stack) \in Nat /\ Len(stack') = Len(stack) + 1
        /\ \A i \in 1 .. Len(stack) : stack'[i] = stack[i]
        /\ stack'[Len(stack) + 1] = h
      BY <1>1, <1>3, SaveEffect
  <2>2. h.irq = l /\ h.at = "mask"
      OBVIOUS
  <2> HIDE DEF h
  <2> QED
      BY <2>1, <2>2
<1>7. /\ pcb' \in [Tasks -> Registers]
      /\ stack # <<>> => pcb' = pcb
      /\ stack = <<>> => \A t \in Tasks : pcb'[t] = IF t = sp0 THEN cpu ELSE pcb[t]
    BY <1>1, SaveFrames DEF TTypeOK
<1>8. TTypeOK'
    BY <1>1, <1>2, <1>4, <1>6, <1>7 DEF TTypeOK
<1>9. Nesting' /\ NoReentry'
    BY <1>1, <1>3, <1>4, <1>5, SaveNesting
<1>10. Masking'
  <2>1. \A k : k \in Serving' <=> k \in Serving
    <3>1. \A k : k \in Serving' <=> \E i \in 1 .. Len(stack) + 1 :
                                      stack'[i].irq = k /\ stack'[i].at # "mask"
        BY <1>6 DEF Serving
    <3> QED
        BY <1>6, <3>1, ServingIndex
  <2> QED
      BY <1>2, <2>1 DEF Masking
<1>11. SettingUp'
    BY <1>1, <1>2 DEF SettingUp
<1>12. OwnFrames' /\ CallAnswered'
  <2>1. CASE stack = <<>>
    <3>1. Len(stack) = 0 /\ stack'[1].irq = l /\ stack'[1].at = "mask"
        BY <1>6, <2>1
    <3> QED
        BY <1>1, <1>2, <1>6, <1>7, <2>1, <3>1 DEF OwnFrames, CallAnswered,
                                                 TaskRuns, PastEnd, Tasks
  <2>2. CASE stack # <<>>
    <3>1. stack'[1] = stack[1]
        BY <1>6, <2>2, TopIsOne
    <3> QED
        BY <1>1, <1>2, <1>6, <1>7, <2>2, <3>1 DEF OwnFrames, CallAnswered, TaskRuns
  <2> QED
      BY <2>1, <2>2
<1> QED
    BY <1>8, <1>9, <1>10, <1>11, <1>12

\* What a task has in its registers after one step.
LEMMA FurtherType ==
    ASSUME TTypeOK, NEW eax \in {"own", "request"}
    PROVE  /\ Further(eax) \in Registers
           /\ Further(eax).task = cpu.task
           /\ Further(eax).eax = eax
           /\ Further(eax).at = (cpu.at + 1) % LoopSteps
<1>1. cpu \in Registers
    BY DEF TTypeOK
<1>2. (cpu.at + 1) % LoopSteps \in 0 .. LoopSteps - 1
    BY <1>1 DEF Registers, LoopSteps
<1> QED
    BY <1>1, <1>2 DEF Further, Registers

LEMMA TestCallStep ==
    ASSUME TaskInv, test_call
    PROVE  TaskInv'
<1> USE DEF TaskInv
<1>1. /\ setup = "up" /\ stack = <<>> /\ Len(stack) = 0
      /\ save(SysCall, Further("request"))
      /\ UNCHANGED <<irr, isr>>
    BY DEF test_call, TaskRuns
<1>2. /\ UNCHANGED <<setup, opened, irq_table, imr, full, ready, sp0, cpu>>
      /\ depth' = depth + 1
    BY <1>1 DEF save
<1>3. isr' = {}
    BY <1>1 DEF Nesting
<1>4. /\ stack' \in Seq(Handlers) /\ stack' # <<>> /\ Len(stack') = 1
      /\ stack'[1].irq = SysCall /\ stack'[1].at = "handler"
  <2>1. /\ stack' \in Seq(Handlers) /\ stack' # <<>>
        /\ Len(stack') = Len(stack) + 1
        /\ stack'[Len(stack) + 1] =
             [irq |-> SysCall, at |-> "handler",
              exit |-> "restart", esi |-> sp0]
      BY <1>1, SaveEffect
  <2> QED
      BY <1>1, <2>1
<1>5. /\ pcb' \in [Tasks -> Registers]
      /\ \A t \in Tasks : pcb'[t] = IF t = sp0 THEN Further("request") ELSE pcb[t]
    BY <1>1, FurtherType, SaveFrames
<1>6. TTypeOK'
    BY <1>1, <1>2, <1>4, <1>5 DEF TTypeOK
<1>7. Nesting' /\ NoReentry'
    BY <1>1, <1>3, SaveNesting
<1>8. Masking'
  <2>1. \A k \in Lines : k \notin Serving' /\ k \notin Serving
      BY <1>1, <1>4, LinesAssumption, EmptyServing DEF Serving, SysCall
  <2> QED
      BY <1>2, <2>1 DEF Masking
<1>9. SettingUp'
    BY <1>1, <1>2 DEF SettingUp
<1>10. OwnFrames'
    BY <1>1, <1>2, <1>4, <1>5, FurtherType DEF OwnFrames, PastEnd, Tasks
<1>11. CallAnswered'
    BY <1>1, <1>2, <1>4, <1>5 DEF CallAnswered, TaskRuns
<1> QED
    BY <1>6, <1>7, <1>8, <1>9, <1>10, <1>11

-----------------------------------------------------------------------------
(* Masking a line and opening it again; returning from a handler.          *)

LEMMA MaskStep ==
    ASSUME TaskInv, hwint_masks
    PROVE  TaskInv'
<1> USE DEF TaskInv
<1>1. /\ setup = "up" /\ stack # <<>> /\ Top.at = "mask" /\ Goto("handler")
      /\ imr' = imr \cup {Top.irq} /\ isr' = isr \ {Top.irq}
      /\ UNCHANGED <<setup, opened, irq_table, irr, full, depth, ready, sp0,
                     pcb, cpu>>
    BY DEF hwint_masks, AtStep
<1>2. PICK n \in Nat \ {0} :
        /\ n = Len(stack) /\ Top = stack[n] /\ Len(stack') = n
        /\ stack' \in Seq(Handlers) /\ stack' # <<>>
        /\ \A i \in 1 .. n :
             /\ i # n => stack'[i] = stack[i]
             /\ i = n => stack'[i].at = "handler"
             /\ stack'[i].irq = stack[i].irq
             /\ stack'[i].exit = stack[i].exit
             /\ stack'[i].esi = stack[i].esi
    BY <1>1, GotoEffect, TopIsOne DEF Top
<1>3. Top.irq \in Lines /\ Top.irq # SysCall
  <2>1. Top.irq \in Lines \cup {SysCall}
      BY <1>1, TopIsOne DEF Handlers
  <2> QED
      BY <1>1, <1>2, <2>1 DEF Nesting
<1>4. isr = {Top.irq}
    BY <1>1 DEF Nesting
<1>5. TTypeOK'
    BY <1>1, <1>2, <1>3 DEF TTypeOK
<1>6. SettingUp'
    BY <1>1 DEF SettingUp
<1>7. \A l : l \in Serving' <=> l \in Serving \/ l = Top.irq
  <2>1. \A l : l \in Serving' <=> \E i \in 1 .. n :
                                    stack'[i].irq = l /\ stack'[i].at # "mask"
      BY <1>2 DEF Serving
  <2>2. \A l : l \in Serving <=> \E i \in 1 .. n :
                                    stack[i].irq = l /\ stack[i].at # "mask"
      BY <1>2, ServingIndex
  <2> QED
      BY <1>1, <1>2, <2>1, <2>2
<1>8. Masking'
    BY <1>1, <1>7 DEF Masking
<1>9. NoReentry'
    BY <1>2 DEF NoReentry
<1>10. Nesting'
  <2>1. depth' = Len(stack') - 1
      BY <1>1, <1>2 DEF Nesting
  <2>2. isr' = IF stack' # <<>> /\ Top'.at = "mask" THEN {Top'.irq} ELSE {}
      BY <1>1, <1>2, <1>4 DEF Top
  <2>3. ASSUME NEW i \in 1 .. n
        PROVE  /\ (stack'[i].exit = "restart") <=> (i = 1)
               /\ stack'[i].esi = IF i = 1 THEN sp0' ELSE PastEnd
               /\ stack'[i].at = "mask" => i = Len(stack')
               /\ stack'[i].irq \in opened' \cup {SysCall}
               /\ stack'[i].irq = SysCall => stack'[i].at \in {"handler", "answer", "leave"}
               /\ stack'[i].at = "answer" => stack'[i].irq = SysCall
               /\ stack'[i].at = "wrap" => i = 1 /\ stack'[i].irq = Clock
               /\ stack'[i].irq = SysCall => i = 1
    <3>1. CASE i # n
        BY <1>1, <1>2, <3>1 DEF Nesting
    <3>2. CASE i = n
        BY <1>1, <1>2, <1>3, <3>2 DEF Nesting
    <3> QED
        BY <3>1, <3>2
  <2> QED
      BY <1>2, <2>1, <2>2, <2>3 DEF Nesting
<1>11. \/ stack'[1] = stack[1]
       \/ stack[1] = Top /\ stack'[1].at = "handler" /\ stack'[1].irq = stack[1].irq
    BY <1>2
<1>12. OwnFrames'
    BY <1>1, <1>2, <1>11 DEF OwnFrames
<1>13. CallAnswered'
    BY <1>1, <1>2, <1>3, <1>11 DEF CallAnswered, TaskRuns
<1> QED
    BY <1>5, <1>6, <1>8, <1>9, <1>10, <1>12, <1>13

\* A return to the handler below leaves its frame as it was.
LEMMA ReenterStep ==
    ASSUME TaskInv, hwint_leaves, Top.exit # "restart"
    PROVE  TaskInv'
<1> USE DEF TaskInv
<1>1. /\ setup = "up" /\ stack # <<>> /\ Top.at = "leave"
      /\ imr' = imr \ {Top.irq}
      /\ depth' = depth - 1
      /\ stack' = SubSeq(stack, 1, Len(stack) - 1)
      /\ cpu' = IF Len(stack) = 1 THEN Process(sp0) ELSE cpu
      /\ UNCHANGED <<setup, opened, irq_table, irr, isr, full, ready, sp0, pcb>>
    BY DEF hwint_leaves, AtStep, Return, restart_reenter
<1>2. PICK n \in Nat \ {0} :
        /\ n = Len(stack) /\ Top = stack[n] /\ Len(stack') = n - 1
        /\ stack' \in Seq(Handlers)
        /\ \A i \in 1 .. n - 1 : stack'[i] = stack[i]
    BY <1>1, Popped DEF Top, TTypeOK
<1>3. n # 1
    BY <1>1, <1>2 DEF Nesting
<1>4. stack' # <<>> /\ stack'[1] = stack[1] /\ cpu' = cpu
  <2>1. Len(stack') # 0 /\ 1 \in 1 .. n - 1
      BY <1>2, <1>3
  <2>2. stack' # <<>>
      BY <2>1
  <2> QED
      BY <1>1, <1>2, <1>3, <2>1, <2>2
<1>5. TTypeOK'
    BY <1>1, <1>2, <1>4 DEF TTypeOK
<1>6. SettingUp'
    BY <1>1 DEF SettingUp
<1>7. \A l : l \in Serving' <=> l \in Serving /\ l # Top.irq
  <2>1. \A l : l \in Serving' <=> \E i \in 1 .. n - 1 :
                                    stack[i].irq = l /\ stack[i].at # "mask"
      BY <1>2 DEF Serving
  <2>2. \A l : l \in Serving <=> \E i \in 1 .. n :
                                    stack[i].irq = l /\ stack[i].at # "mask"
      BY <1>2, ServingIndex
  <2>3. \A i \in 1 .. n - 1 : stack[i].irq # Top.irq
      BY <1>2 DEF NoReentry
  <2> QED
      BY <1>2, <2>1, <2>2, <2>3
<1>8. Masking'
  <2>1. Top.irq \in opened
    <3>1. Top.irq # SysCall
        BY <1>1, <1>2, <1>3 DEF Nesting
    <3> QED
        BY <1>1, <1>2, <3>1 DEF Nesting
  <2> QED
      BY <1>1, <1>7, <2>1 DEF Masking
<1>9. NoReentry'
    BY <1>2 DEF NoReentry
<1>10. Nesting'
  <2>1. \A i \in 1 .. n - 1 : stack'[i].at # "mask"
      BY <1>1, <1>2 DEF Nesting
  <2>2. isr' = {} /\ depth' = n - 2 /\ Top'.at # "mask"
      BY <1>1, <1>2, <1>3, <2>1 DEF Nesting, Top
  <2> QED
      BY <1>1, <1>2, <2>1, <2>2 DEF Nesting
<1>11. OwnFrames' /\ CallAnswered'
    BY <1>1, <1>4 DEF OwnFrames, CallAnswered, TaskRuns
<1> QED
    BY <1>5, <1>6, <1>8, <1>9, <1>10, <1>11

\* restart enters the process whose turn it is, from its own frame.
LEMMA RestartStep ==
    ASSUME TaskInv, hwint_leaves, Top.exit = "restart"
    PROVE  TaskInv'
<1> USE DEF TaskInv
<1>1. /\ setup = "up" /\ stack # <<>> /\ Top.at = "leave"
      /\ imr' = imr \ {Top.irq}
      /\ depth' = depth - 1
      /\ stack' = <<>> /\ cpu' = Process(ready) /\ sp0' = ready
      /\ UNCHANGED <<setup, opened, irq_table, irr, isr, full, ready, pcb>>
    BY DEF hwint_leaves, AtStep, Return, restart
<1>2. Len(stack) = 1 /\ Top = stack[1]
  <2>1. PICK n \in Nat \ {0} : n = Len(stack) /\ Top = stack[n]
      BY <1>1, TopIsOne DEF Top
  <2>2. n = 1
      BY <1>1, <2>1 DEF Nesting
  <2> QED
      BY <2>1, <2>2
<1>3. ready \in Tasks /\ cpu' = pcb[ready] /\ pcb[ready].task = ready
  <2>1. ready # PastEnd /\ \A t \in Tasks : pcb[t].task = t
      BY <1>1, <1>2 DEF OwnFrames
  <2>2. ready \in Tasks
      BY <2>1, TasksAssumption DEF TTypeOK, Tasks, PastEnd
  <2> QED
      BY <1>1, <2>1, <2>2 DEF Process
<1>4. Len(stack') = 0 /\ stack' \in Seq(Handlers)
    BY <1>1
<1>5. TTypeOK'
    BY <1>1, <1>3, <1>4 DEF TTypeOK
<1>6. SettingUp'
    BY <1>1 DEF SettingUp
<1>7. Masking'
  <2>1. \A l : l \in Serving => l = Top.irq
      BY <1>2, ServingIndex
  <2>2. Serving' = {}
      BY <1>4 DEF Serving
  <2>3. Top.irq \in opened \cup {SysCall}
      BY <1>1, <1>2 DEF Nesting
  <2>4. SysCall \notin Lines
      BY LinesAssumption DEF SysCall
  <2>5. Top.irq \in Serving
      BY <1>1, <1>2, ServingIndex
  <2> QED
      BY <1>1, <2>1, <2>2, <2>3, <2>4, <2>5 DEF Masking
<1>8. Nesting' /\ NoReentry'
  <2>1. isr' = {} /\ depth' = Len(stack') - 1
      BY <1>1, <1>2, <1>4 DEF Nesting
  <2>2. 1 .. Len(stack') = {}
      BY <1>4
  <2>3. NoReentry'
      BY <2>2 DEF NoReentry
  <2>4. Nesting'
      BY <1>1, <2>1, <2>2 DEF Nesting
  <2> QED
      BY <2>3, <2>4
<1>9. OwnFrames'
    BY <1>1, <1>3, TasksAssumption DEF OwnFrames, Tasks, PastEnd
<1>10. CallAnswered'
  <2>1. \A t \in Tasks : pcb[t].eax # "request"
      BY <1>1, <1>2 DEF CallAnswered
  <2> QED
      BY <1>1, <1>3, <2>1 DEF CallAnswered, TaskRuns
<1> QED
    BY <1>5, <1>6, <1>7, <1>8, <1>9, <1>10

-----------------------------------------------------------------------------
(* Tasks and devices.                                                      *)

LEMMA WorkStep ==
    ASSUME TaskInv, Work
    PROVE  TaskInv'
<1> USE DEF TaskInv
<1>1. /\ setup = "up" /\ stack = <<>> /\ cpu' = Further("own")
      /\ UNCHANGED <<setup, opened, irq_table, imr, irr, isr, full, depth, ready,
                     sp0, pcb, stack>>
    BY DEF Work, TaskRuns, pic
<1>2. TTypeOK'
    BY <1>1, FurtherType DEF TTypeOK
<1>3. SettingUp' /\ Masking' /\ Nesting' /\ NoReentry'
    BY <1>1 DEF SettingUp, Masking, Serving, Nesting, NoReentry, Top
<1>4. OwnFrames' /\ CallAnswered'
    BY <1>1, FurtherType DEF OwnFrames, CallAnswered, TaskRuns
<1> QED
    BY <1>2, <1>3, <1>4

LEMMA DeviceStep ==
    ASSUME TaskInv, Devices
    PROVE  TaskInv'
<1> USE DEF TaskInv
<1>1. /\ irr' \subseteq Lines /\ full' \in BOOLEAN
      /\ UNCHANGED <<setup, opened, irq_table, imr, isr, depth, ready, sp0, pcb,
                     cpu, stack>>
    BY LinesAssumption DEF Devices, KeyPressed, Request, TTypeOK, tasks
<1>2. TTypeOK'
    BY <1>1 DEF TTypeOK
<1>3. /\ SettingUp' /\ Masking' /\ Nesting' /\ NoReentry' /\ OwnFrames'
      /\ CallAnswered'
    BY <1>1 DEF SettingUp, Masking, Serving, Nesting, NoReentry, OwnFrames,
                CallAnswered, TaskRuns, Top
<1> QED
    BY <1>2, <1>3

LEMMA StutterStep ==
    ASSUME TaskInv, UNCHANGED tvars
    PROVE  TaskInv'
    BY DEF TaskInv, tvars, pic, tasks, TTypeOK, SettingUp, Masking, Serving,
           Nesting, NoReentry, OwnFrames, CallAnswered, TaskRuns, Top

-----------------------------------------------------------------------------
(* Theorems.                                                               *)

\* save, restart and the handlers keep the counter, the stack, the masks and
\* the frames in step, whatever interrupts what.
THEOREM TaskInvariance == TSpec => []TaskInv
<1>1. TaskInv /\ [TNext]_tvars => TaskInv'
  <2> SUFFICES ASSUME TaskInv, [TNext]_tvars PROVE TaskInv'
      OBVIOUS
  <2>1. CASE kmain
      BY <2>1, KmainStep
  <2>2. CASE \E l \in Lines : Interrupt(l)
      BY <2>2, InterruptStep
  <2>3. CASE hwint_leaves
      BY <2>3, ReenterStep, RestartStep
  <2>4. CASE Kernel /\ ~hwint_leaves
      BY <2>4, MaskStep, HandlerStep, ClockStep, WrapStep, CallStep DEF Kernel
  <2>5. CASE Task
      BY <2>5, WorkStep, TestCallStep DEF Task
  <2>6. CASE Devices
      BY <2>6, DeviceStep
  <2>7. CASE UNCHANGED tvars
      BY <2>7, StutterStep
  <2> QED
      BY <2>1, <2>2, <2>3, <2>4, <2>5, <2>6, <2>7 DEF TNext, Processor, Kernel
<1> QED
    BY <1>1, InitInv, PTL DEF TSpec

\* No handler is entered again while it runs: the C handlers, which keep their
\* state in static variables, never need to be reentrant.
THEOREM NeverReentered == TSpec => []NoReentry
<1>1. TaskInv => NoReentry
    BY DEF TaskInv
<1> QED
    BY <1>1, TaskInvariance, PTL

\* A system call is answered in the frame of its caller.
THEOREM CallsAnswered == TSpec => []CallAnswered
<1>1. TaskInv => CallAnswered
    BY DEF TaskInv
<1> QED
    BY <1>1, TaskInvariance, PTL

-----------------------------------------------------------------------------
(* Refinement.                                                             *)

Place == [t \in Tasks |-> IF TaskRuns /\ cpu.task = t THEN cpu.at ELSE pcb[t].at]
Current == IF ready = PastEnd THEN 0 ELSE ready

LEMMA RefineInit == TInit => RR!RRInit
<1> SUFFICES ASSUME TInit PROVE RR!RRInit
    OBVIOUS
<1>1. Place = [t \in Tasks |-> 0]
    BY DEF TInit, Place, Blank, TaskRuns
<1>2. Current = 0
    BY DEF TInit, Current
<1> QED
    BY <1>1, <1>2 DEF RR!RRInit, RR!Tasks, Tasks, Place, Current

\* A step that changes neither whose turn it is nor anybody's place.
LEMMA RefineStutter ==
    ASSUME UNCHANGED <<Current, Place>>
    PROVE  RR!RRNext \/ UNCHANGED RR!rrvars
    BY DEF RR!rrvars, Current, Place

\* In the kernel, places are those of the frames.
LEMMA RefineInKernel ==
    ASSUME ~TaskRuns, ~TaskRuns', \A t \in Tasks : pcb'[t].at = pcb[t].at
    PROVE  UNCHANGED Place
    BY DEF Place

LEMMA RefineKmain ==
    ASSUME TaskInv, TaskInv', kmain
    PROVE  UNCHANGED <<Current, Place>>
<1> USE DEF TaskInv
<1>1. setup # "up"
    BY DEF kmain, init_8259A, RegisterHandlers, enable_irq, StartTasks, Call
<1>2. ready = PastEnd /\ pcb = [t \in Tasks |-> Blank] /\ ~TaskRuns
    BY <1>1 DEF SettingUp, TaskRuns
<1>3. Current = 0 /\ Place = [t \in Tasks |-> 0]
    BY <1>2 DEF Current, Place, Blank
<1>4. CASE StartTasks
  <2>1. /\ ready' = 0 /\ pcb' = [t \in Tasks |-> [task |-> t, at |-> 0, eax |-> "own"]]
        /\ cpu' = pcb'[0] /\ 0 \in Tasks
      BY <1>4, TasksAssumption DEF StartTasks, Tasks
  <2>2. cpu'.at = 0
      BY <2>1
  <2>3. Current' = 0 /\ Place' = [t \in Tasks |-> 0]
      BY <2>1, <2>2 DEF Current, Place
  <2> QED
      BY <1>3, <2>3
<1>5. CASE kmain /\ ~StartTasks
  <2>1. setup' # "up"
      BY <1>5 DEF kmain, init_8259A, RegisterHandlers, enable_irq, Call
  <2>2. ready' = PastEnd /\ pcb' = [t \in Tasks |-> Blank] /\ ~TaskRuns'
      BY <2>1 DEF SettingUp, TaskRuns
  <2>3. Current' = 0 /\ Place' = [t \in Tasks |-> 0]
      BY <2>2 DEF Current, Place, Blank
  <2> QED
      BY <1>3, <2>3
<1> QED
    BY <1>4, <1>5

LEMMA RefineInterrupt ==
    ASSUME TaskInv, NEW l \in Lines, Interrupt(l)
    PROVE  UNCHANGED <<Current, Place>>
<1> USE DEF TaskInv
<1>1. setup = "up" /\ save(l, cpu) /\ UNCHANGED <<setup, ready, sp0, cpu>>
    BY DEF Interrupt, Enabled, save
<1>2. stack' # <<>>
    BY <1>1, SaveEffect
<1>3. ~TaskRuns'
    BY <1>2 DEF TaskRuns
<1>4. /\ stack # <<>> => pcb' = pcb
      /\ stack = <<>> => \A t \in Tasks : pcb'[t] = IF t = sp0 THEN cpu ELSE pcb[t]
    BY <1>1, SaveFrames DEF TTypeOK
<1>5. stack = <<>> => cpu.task = sp0
    BY <1>1 DEF OwnFrames
<1>6. \A t \in Tasks : pcb'[t].at = IF TaskRuns /\ cpu.task = t THEN cpu.at
                                    ELSE pcb[t].at
    BY <1>1, <1>4, <1>5 DEF TaskRuns
<1> QED
    BY <1>1, <1>3, <1>6 DEF Current, Place

\* The task whose turn it is takes a step, by itself or into the kernel.
LEMMA RefineTask ==
    ASSUME TaskInv, Task
    PROVE  RR!Work
<1> USE DEF TaskInv
<1>1. /\ setup = "up" /\ stack = <<>> /\ TaskRuns
      /\ cpu.task = sp0 /\ ready = sp0 /\ sp0 \in Tasks
    BY DEF Task, Work, test_call, TaskRuns, OwnFrames
<1>2. Current = sp0
    BY <1>1, TasksAssumption DEF Current, PastEnd, Tasks
<1>3. ready' = ready
    BY DEF Task, Work, test_call, save
<1>4. Place[sp0] = cpu.at
    BY <1>1 DEF Place
<1>5. Place' = [Place EXCEPT ![sp0] = (@ + 1) % LoopSteps]
  <2>1. CASE Work
    <3>1. TaskRuns' /\ cpu' = Further("own") /\ pcb' = pcb
        BY <2>1 DEF Work, TaskRuns
    <3> QED
        BY <1>1, <1>4, <3>1, FurtherType DEF Place
  <2>2. CASE test_call
    <3>1. save(SysCall, Further("request"))
        BY <2>2 DEF test_call
    <3>2. stack' # <<>>
        BY <1>1, <3>1, SaveEffect
    <3>3. \A t \in Tasks : pcb'[t] = IF t = sp0 THEN Further("request") ELSE pcb[t]
        BY <1>1, <3>1, FurtherType, SaveFrames
    <3> QED
        BY <1>1, <1>4, <3>2, <3>3, FurtherType DEF Place, TaskRuns
  <2> QED
      BY <2>1, <2>2 DEF Task
<1> QED
    BY <1>2, <1>3, <1>5 DEF RR!Work, Current, Place

LEMMA RefineLeave ==
    ASSUME TaskInv, TaskInv', hwint_leaves
    PROVE  UNCHANGED <<Current, Place>>
<1> USE DEF TaskInv
<1>1. /\ setup = "up" /\ stack # <<>> /\ Top.at = "leave"
      /\ UNCHANGED <<setup, ready, pcb>> /\ ~TaskRuns
    BY DEF hwint_leaves, AtStep, Return, TaskRuns
<1>2. CASE TaskRuns'
  <2>1. cpu'.task = ready /\ ready \in Tasks
      BY <1>1, <1>2 DEF TaskRuns, OwnFrames
  <2>2. cpu' = pcb[ready]
    <3>1. CASE Top.exit = "restart"
        BY <1>1, <2>1, <3>1 DEF hwint_leaves, Return, restart, Process
    <3>2. CASE Top.exit # "restart"
      <4>1. stack' = SubSeq(stack, 1, Len(stack) - 1)
          BY <3>2 DEF hwint_leaves, Return, restart_reenter
      <4>2. PICK n \in Nat \ {0} : n = Len(stack) /\ Top = stack[n]
          BY <1>1, TopIsOne DEF Top
      <4>3. n # 1
          BY <1>1, <3>2, <4>2 DEF Nesting
      <4>4. Len(stack') = n - 1
          BY <1>1, <4>1, <4>2, Popped DEF TTypeOK
      <4>5. stack' # <<>>
          BY <4>2, <4>3, <4>4
      <4> QED
          BY <1>2, <4>5 DEF TaskRuns
    <3> QED
        BY <3>1, <3>2
  <2> QED
      BY <1>1, <1>2, <2>1, <2>2 DEF Current, Place
<1>3. CASE ~TaskRuns'
    BY <1>1, <1>3, RefineInKernel DEF Current
<1> QED
    BY <1>2, <1>3

\* The other steps of handlers: the clock's is a switch, the rest change no
\* turn and no place.
LEMMA RefineHandler ==
    ASSUME TaskInv, Kernel, ~hwint_leaves
    PROVE  RR!RRNext \/ UNCHANGED RR!rrvars
<1> USE DEF TaskInv
<1>1. setup = "up" /\ stack # <<>> /\ setup' = setup /\ stack' # <<>>
  <2>1. setup = "up" /\ stack # <<>> /\ setup' = setup
      BY DEF Kernel, hwint_masks, keyboard_handler, clock_handler,
             clock_wraps, sys_call_master, sys_call_answers, Serves, AtStep
  <2>2. \E next \in {"handler", "wrap", "answer", "leave"} : Goto(next)
      BY DEF Kernel, hwint_masks, keyboard_handler, clock_handler,
             clock_wraps, sys_call_master, sys_call_answers
  <2> QED
      BY <2>1, <2>2, GotoEffect
<1>2. ~TaskRuns /\ ~TaskRuns'
    BY <1>1 DEF TaskRuns
<1>3. \A t \in Tasks : pcb'[t].at = pcb[t].at
  <2>1. CASE sys_call_answers
    <3>1. \A t \in Tasks : pcb[t] \in Registers
        BY DEF TTypeOK
    <3> QED
        BY <2>1, <3>1 DEF sys_call_answers, TTypeOK, Registers
  <2>2. CASE ~sys_call_answers
      BY <2>2 DEF Kernel, hwint_masks, keyboard_handler,
                  clock_handler, clock_wraps, sys_call_master
  <2> QED
      BY <2>1, <2>2
<1>4. Place' = Place
    BY <1>2, <1>3, RefineInKernel
<1>5. CASE clock_handler /\ depth = 0
  <2>1. ready' = ready + 1
      BY <1>5 DEF clock_handler
  <2>2. Len(stack) = 1 /\ Top = stack[1] /\ Top.at = "handler"
      BY <1>1, <1>5, Outermost DEF clock_handler, Serves, AtStep
  <2>3. ready = sp0 /\ sp0 \in Tasks
      BY <1>1, <2>2 DEF OwnFrames
  <2>4. Current = ready
      BY <2>3, TasksAssumption DEF Current, PastEnd, Tasks
  <2>5. Current' = IF Current = MAX_THREAD - 1 THEN 0 ELSE Current + 1
      BY <2>1, <2>3, <2>4, TasksAssumption DEF Current, PastEnd, Tasks
  <2>6. RR!Switch
      BY <1>4, <2>5 DEF RR!Switch, Current, Place
  <2> QED
      BY <2>6 DEF RR!RRNext
<1>6. CASE clock_wraps
  <2>1. ready' = IF ready >= MAX_THREAD THEN 0 ELSE ready
      BY <1>6 DEF clock_wraps
  <2>2. Current' = Current
      BY <2>1, TasksAssumption DEF Current, PastEnd, TTypeOK
  <2> QED
      BY <1>4, <2>2, RefineStutter
<1>7. CASE ~(clock_handler /\ depth = 0) /\ ~clock_wraps
  <2>1. ready' = ready
      BY <1>7 DEF Kernel, hwint_masks, keyboard_handler,
                  clock_handler, sys_call_master, sys_call_answers
  <2> QED
      BY <1>4, <2>1, RefineStutter DEF Current
<1> QED
    BY <1>5, <1>6, <1>7

\* Whatever interrupts it and however deeply, each task goes on where it was,
\* and the tasks run in turn.
THEOREM TasksTakeTurns == TSpec => ImplementsRoundRobin
<1>1. TaskInv /\ TaskInv' /\ [TNext]_tvars => [RR!RRNext]_RR!rrvars
  <2> SUFFICES ASSUME TaskInv, TaskInv', [TNext]_tvars
               PROVE  RR!RRNext \/ UNCHANGED RR!rrvars
      OBVIOUS
  <2>1. CASE kmain
      BY <2>1, RefineKmain, RefineStutter
  <2>2. CASE \E l \in Lines : Interrupt(l)
      BY <2>2, RefineInterrupt, RefineStutter
  <2>3. CASE hwint_leaves
      BY <2>3, RefineLeave, RefineStutter
  <2>4. CASE Kernel /\ ~hwint_leaves
      BY <2>4, RefineHandler
  <2>5. CASE Task
      BY <2>5, RefineTask DEF RR!RRNext
  <2>6. CASE Devices \/ UNCHANGED tvars
    <3>1. UNCHANGED <<setup, ready, pcb, cpu, stack>>
        BY <2>6 DEF Devices, KeyPressed, Request, tasks, tvars
    <3>2. UNCHANGED <<Current, Place>>
        BY <3>1 DEF Current, Place, TaskRuns
    <3> QED
        BY <3>2, RefineStutter
  <2> QED
      BY <2>1, <2>2, <2>3, <2>4, <2>5, <2>6 DEF TNext, Processor
<1> QED
    BY <1>1, RefineInit, TaskInvariance, PTL DEF TSpec, ImplementsRoundRobin, RR!RRSpec
=============================================================================
