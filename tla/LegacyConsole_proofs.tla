-------------------------- MODULE LegacyConsole_proofs --------------------------
(***************************************************************************)
(* The console of the legacy kernel, for any screen, any number of tasks   *)
(* and whichever of clock and keyboard are enabled.                        *)
(***************************************************************************)
EXTENDS LegacyConsole, FiniteSetTheorems, SequenceTheorems, TLAPS

-----------------------------------------------------------------------------
(* Counting the printers that are interrupted.                             *)

LEMMA BelowNone == Below(0) = 0
    BY FS_EmptySet DEF Below, Interrupted

LEMMA BelowFinite ==
    ASSUME NEW n \in Nat
    PROVE  IsFiniteSet(Interrupted(n)) /\ Below(n) \in Nat
<1>1. IsFiniteSet(0 .. n - 1)
    BY FS_Interval
<1>2. Interrupted(n) \subseteq 0 .. n - 1
    BY DEF Interrupted
<1>3. IsFiniteSet(Interrupted(n))
    BY <1>1, <1>2, FS_Subset
<1> QED
    BY <1>3, FS_CardinalityType DEF Below

LEMMA BelowNext ==
    ASSUME NEW n \in Nat
    PROVE  Below(n + 1) = Below(n) + (IF InCharacter(Waiting(n)) THEN 1 ELSE 0)
<1>1. CASE InCharacter(Waiting(n))
  <2>1. Interrupted(n + 1) = Interrupted(n) \cup {n}
      BY <1>1 DEF Interrupted
  <2>2. n \notin Interrupted(n)
      BY DEF Interrupted
  <2>3. Cardinality(Interrupted(n) \cup {n}) = Cardinality(Interrupted(n)) + 1
      BY <2>2, BelowFinite, FS_AddElement
  <2> QED
      BY <1>1, <2>1, <2>3 DEF Below
<1>2. CASE ~InCharacter(Waiting(n))
  <2>1. Interrupted(n + 1) = Interrupted(n)
      BY <1>2 DEF Interrupted
  <2> QED
      BY <1>2, <2>1, BelowFinite DEF Below
<1> QED
    BY <1>1, <1>2

LEMMA BelowUnchanged ==
    ASSUME NEW n \in Nat, \A i \in 0 .. n - 1 : Waiting(i)' = Waiting(i)
    PROVE  Below(n)' = Below(n)
<1>1. Interrupted(n)' = Interrupted(n)
    BY DEF Interrupted, InCharacter
<1> QED
    BY <1>1 DEF Below

-----------------------------------------------------------------------------
(* The stack of handlers.                                                  *)

LEMMA Pushed ==
    ASSUME NEW s \in Seq(Printers), NEW p \in Printers
    PROVE  /\ Append(s, p) \in Seq(Printers)
           /\ Len(Append(s, p)) = Len(s) + 1 /\ Append(s, p) # <<>>
           /\ \A i \in 1 .. Len(s) : Append(s, p)[i] = s[i]
           /\ Append(s, p)[Len(s) + 1] = p
    BY AppendProperties

LEMMA Popped ==
    ASSUME NEW s \in Seq(Printers), s # <<>>
    PROVE  LET r == SubSeq(s, 1, Len(s) - 1) IN
           /\ r \in Seq(Printers) /\ Len(r) = Len(s) - 1 /\ Len(s) \in Nat \ {0}
           /\ \A i \in 1 .. Len(s) - 1 : r[i] = s[i]
<1>1. PICK n \in Nat \ {0} : n = Len(s)
    BY EmptySeq, LenProperties
<1>2. \A i \in 1 .. n - 1 : s[i] \in Printers
    BY <1>1, ElementOfSeq
<1> DEFINE r == SubSeq(s, 1, n - 1)
<1>3. /\ r \in Seq(Printers)
      /\ Len(r) = IF 1 <= n - 1 THEN n - 1 - 1 + 1 ELSE 0
      /\ \A i \in 1 .. n - 1 - 1 + 1 : r[i] = s[1 + i - 1]
    BY <1>2, SubSeqProperties
<1> HIDE DEF r
<1>4. Len(r) = n - 1
    BY <1>3
<1>5. \A i \in 1 .. n - 1 : r[i] = s[i]
    BY <1>3
<1> QED
    BY <1>1, <1>3, <1>4, <1>5 DEF r

LEMMA Replaced ==
    ASSUME NEW s \in Seq(Printers), s # <<>>, NEW p \in Printers
    PROVE  LET r == [s EXCEPT ![Len(s)] = p] IN
           /\ r \in Seq(Printers) /\ Len(r) = Len(s) /\ r # <<>>
           /\ \A i \in 1 .. Len(s) : r[i] = IF i = Len(s) THEN p ELSE s[i]
<1>1. Len(s) \in Nat \ {0}
    BY EmptySeq, LenProperties
<1> DEFINE r == [s EXCEPT ![Len(s)] = p]
<1>2. /\ r \in Seq(Printers) /\ Len(r) = Len(s)
      /\ \A i \in 1 .. Len(s) : r[i] = IF i = Len(s) THEN p ELSE s[i]
    BY <1>1, ExceptSeq
<1>3. r # <<>>
    BY <1>1, <1>2
<1> QED
    BY <1>2, <1>3

\* The printer that runs is the last of those that wait.
LEMMA PrinterIsLast ==
    ASSUME LCTypeOK
    PROVE  /\ Len(stack) \in Nat /\ (stack = <<>> <=> Len(stack) = 0)
           /\ Printer \in Printers /\ Printer = Waiting(Len(stack))
           /\ \A i \in 0 .. Len(stack) : Waiting(i) \in Printers
<1>1. Len(stack) \in Nat /\ (stack = <<>> <=> Len(stack) = 0)
    BY EmptySeq, LenProperties DEF LCTypeOK
<1>2. \A i \in 1 .. Len(stack) : stack[i] \in Printers
    BY ElementOfSeq DEF LCTypeOK
<1>3. task[current] \in Printers
    BY DEF LCTypeOK
<1> QED
    BY <1>1, <1>2, <1>3 DEF Printer, Waiting
-----------------------------------------------------------------------------
(* A statement of the printer that runs.                                   *)

Moved(there, reg) == [who |-> Printer.who, at |-> there, reg |-> reg]

\* It moves that printer and leaves the others where they are.
LEMMA Stepped ==
    ASSUME LCTypeOK, NEW here, NEW there \in Statements, NEW reg \in Nat,
           Step(here, there, reg)
    PROVE  /\ task' \in [Tasks -> Printers] /\ stack' \in Seq(Printers)
           /\ Len(stack') = Len(stack) /\ (stack' = <<>> <=> stack = <<>>)
           /\ Printer' = Moved(there, reg)
           /\ \A t \in Tasks : task'[t] = IF t = current /\ stack = <<>>
                                          THEN Printer' ELSE task[t]
           /\ \A i \in 1 .. Len(stack) : stack'[i] = IF i = Len(stack)
                                                     THEN Printer' ELSE stack[i]
           /\ \A i \in 0 .. Len(stack) - 1 : Waiting(i)' = Waiting(i)
<1> DEFINE p == Moved(there, reg)
<1>1. p \in Printers
    BY PrinterIsLast DEF Moved, Printers
<1>2. current \in Tasks /\ task \in [Tasks -> Printers] /\ stack \in Seq(Printers)
    BY DEF LCTypeOK
<1>3. current' = current /\ Become(p)
    BY DEF Step, Moved
<1> HIDE DEF p
<1>4. CASE stack = <<>>
  <2>1. task' = [task EXCEPT ![current] = p] /\ stack' = stack
      BY <1>3, <1>4 DEF Become
  <2>2. Printer' = p
      BY <1>2, <1>3, <1>4, <2>1 DEF Printer
  <2>3. Len(stack) = 0
      BY <1>4, PrinterIsLast
  <2> QED
      BY <1>1, <1>2, <1>4, <2>1, <2>2, <2>3 DEF p
<1>5. CASE stack # <<>>
  <2>1. stack' = [stack EXCEPT ![Len(stack)] = p] /\ task' = task
      BY <1>3, <1>5 DEF Become
  <2>2. /\ stack' \in Seq(Printers) /\ Len(stack') = Len(stack) /\ stack' # <<>>
        /\ \A i \in 1 .. Len(stack) : stack'[i] = IF i = Len(stack) THEN p ELSE stack[i]
      BY <1>1, <1>2, <1>5, <2>1, Replaced
  <2>3. Len(stack) \in Nat \ {0}
      BY <1>5, PrinterIsLast
  <2>4. Printer' = p
      BY <2>2, <2>3 DEF Printer
  <2>5. ASSUME NEW i \in 0 .. Len(stack) - 1 PROVE Waiting(i)' = Waiting(i)
    <3>1. i # 0 => stack'[i] = stack[i]
        BY <2>2, <2>3
    <3> QED
        BY <1>3, <2>1, <3>1 DEF Waiting
  <2> QED
      BY <1>2, <1>5, <2>1, <2>2, <2>4, <2>5 DEF p
<1> QED
    BY <1>4, <1>5

\* So that the invariant is kept if that printer keeps its part.
LEMMA StatementKeeps ==
    ASSUME LCTypeOK, PrintersInv, NEW here, NEW there \in Statements, NEW reg \in Nat,
           Step(here, there, reg),
           x_pos' \in Nat, y_pos' \in Nat, clear' \in {0, 1},
           Where(Moved(there, reg), Below(Len(stack)), x_pos', y_pos'),
           Kept(Moved(there, reg), Below(Len(stack)))
    PROVE  LCTypeOK' /\ PrintersInv'
<1>1. PICK n \in Nat : n = Len(stack) /\ (stack = <<>> <=> n = 0)
    BY PrinterIsLast
<1>2. /\ task' \in [Tasks -> Printers] /\ stack' \in Seq(Printers)
      /\ Len(stack') = n /\ (stack' = <<>> <=> stack = <<>>)
      /\ Printer' = Moved(there, reg)
      /\ \A t \in Tasks : task'[t] = IF t = current /\ stack = <<>> THEN Printer' ELSE task[t]
      /\ \A i \in 1 .. n : stack'[i] = IF i = n THEN Printer' ELSE stack[i]
      /\ \A i \in 0 .. n - 1 : Waiting(i)' = Waiting(i)
    BY <1>1, Stepped
<1>3. opened' = opened /\ current' = current
    BY DEF Step
<1>4. \A i \in 0 .. n : Below(i)' = Below(i)
  <2> SUFFICES ASSUME NEW i \in 0 .. n PROVE Below(i)' = Below(i)
      OBVIOUS
  <2>1. i \in Nat /\ \A j \in 0 .. i - 1 : Waiting(j)' = Waiting(j)
      BY <1>1, <1>2
  <2> QED
      BY <2>1, BelowUnchanged
<1>5. LCTypeOK'
    BY <1>2, <1>3 DEF LCTypeOK
<1>6. Below(Len(stack))' = Below(n) /\ Below(n) = Below(Len(stack))
  <2>1. Below(Len(stack))' = Below(n)' /\ Below(n) = Below(Len(stack))
      BY <1>1, <1>2 DEF Below, Interrupted
  <2> QED
      BY <1>1, <1>4, <2>1
<1>7. Where(Printer, Below(Len(stack)), x_pos, y_pos)'
    BY <1>2, <1>6 DEF Where
<1>8. \A t \in Tasks : Kept(task[t], 0)'
  <2>1. n = 0 => Kept(Printer', 0)
      BY <1>2, <1>6, BelowNone
  <2> QED
      BY <1>1, <1>2, <2>1 DEF PrintersInv, Kept
<1>9. \A i \in 1 .. Len(stack') : Kept(stack[i], Below(i))'
  <2> SUFFICES ASSUME NEW i \in 1 .. n PROVE Kept(stack'[i], Below(i)')
      BY <1>2 DEF Kept
  <2>1. Below(i)' = Below(i)
      BY <1>1, <1>4
  <2>2. i = n => Kept(Printer', Below(i))
      BY <1>2, <1>6
  <2>3. Kept(stack[i], Below(i))
      BY <1>1 DEF PrintersInv
  <2> QED
      BY <1>2, <2>1, <2>2, <2>3
<1>10. /\ \A t \in Tasks : task'[t].at = "bug" => t = current' /\ stack' = <<>>
       /\ \A i \in 1 .. Len(stack') : stack'[i].at = "bug" => i = Len(stack')
  <2>1. \A t \in Tasks : task[t].at = "bug" => t = current /\ stack = <<>>
      BY DEF PrintersInv
  <2>2. \A i \in 1 .. n : stack[i].at = "bug" => i = n
      BY <1>1 DEF PrintersInv
  <2> QED
      BY <1>2, <1>3, <2>1, <2>2
<1> QED
    BY <1>5, <1>7, <1>8, <1>9, <1>10 DEF PrintersInv
-----------------------------------------------------------------------------
(* Where each statement of fb_putchar leaves the cursor.                   *)

\* What a statement may rely on, and what it has to show.
LEMMA Standing ==
    ASSUME LCTypeOK, PrintersInv
    PROVE  /\ Below(Len(stack)) \in Nat
           /\ Where(Printer, Below(Len(stack)), x_pos, y_pos)
           /\ Kept(Printer, Below(Len(stack)))
           /\ x_pos \in Nat /\ y_pos \in Nat /\ clear \in {0, 1}
           /\ Printer \in Printers
<1>1. Len(stack) \in Nat /\ (stack = <<>> <=> Len(stack) = 0)
    BY PrinterIsLast
<1>2. Below(Len(stack)) \in Nat
    BY <1>1, BelowFinite
<1>3. Kept(Printer, Below(Len(stack)))
  <2>1. CASE stack = <<>>
    <3>1. Below(Len(stack)) = 0
        BY <1>1, <2>1, BelowNone
    <3>2. Printer = task[current] /\ current \in Tasks
        BY <2>1 DEF Printer, LCTypeOK
    <3> QED
        BY <3>1, <3>2 DEF PrintersInv
  <2>2. CASE stack # <<>>
      BY <1>1, <2>2 DEF PrintersInv, Printer
  <2> QED
      BY <2>1, <2>2
<1> QED
    BY <1>2, <1>3, PrinterIsLast DEF PrintersInv, LCTypeOK

LEMMA GuardKeeps ==
    ASSUME LCTypeOK, PrintersInv, NEW c \in Characters, guard(c)
    PROVE  LCTypeOK' /\ PrintersInv'
<1>1. PICK k \in Nat : k = Below(Len(stack))
    BY Standing
<1>2. UNCHANGED cursor
    BY DEF guard
<1>3. CASE Step("guard", IF x_pos > Cols THEN "bug" ELSE "guardY", 0)
  <2> DEFINE there == IF x_pos > Cols THEN "bug" ELSE "guardY"
  <2>1. Printer.at = "guard" /\ there \in Statements
      BY <1>3 DEF Step, Statements
  <2>2. Where(Moved(there, 0), k, x_pos, y_pos) /\ Kept(Moved(there, 0), k)
      BY <1>1, <2>1, Standing, ScreenAssumption DEF Where, Kept, Moved
  <2> QED
      BY <1>1, <1>2, <1>3, <2>1, <2>2, Standing, StatementKeeps DEF cursor
<1>4. CASE Step("guardY", IF y_pos > Rows THEN "bug"
                          ELSE IF c = "newline" THEN "return" ELSE "row", 0)
  <2> DEFINE there == IF y_pos > Rows THEN "bug"
                      ELSE IF c = "newline" THEN "return" ELSE "row"
  <2>1. Printer.at = "guardY" /\ there \in Statements
      BY <1>4 DEF Step, Statements
  <2>2. Where(Moved(there, 0), k, x_pos, y_pos) /\ Kept(Moved(there, 0), k)
      BY <1>1, <2>1, Standing, ScreenAssumption DEF Where, Kept, Moved
  <2> QED
      BY <1>1, <1>2, <1>4, <2>1, <2>2, Standing, StatementKeeps DEF cursor
<1> QED
    BY <1>3, <1>4 DEF guard

LEMMA GlyphKeeps ==
    ASSUME LCTypeOK, PrintersInv, Glyph
    PROVE  LCTypeOK' /\ PrintersInv'
<1>1. PICK k \in Nat : k = Below(Len(stack))
    BY Standing
<1>2. CASE /\ Step("row", "cell", y_pos)
           /\ UNCHANGED cursor
  <2> DEFINE there == "cell"
  <2>1. Printer.at = "row" /\ there \in Statements
      BY <1>2 DEF Step, Statements
  <2>2. x_pos' \in Nat /\ y_pos' \in Nat /\ clear' \in {0, 1}
      BY <1>2, Standing DEF cursor, Printers
  <2>3. Where(Moved(there, y_pos), k, x_pos', y_pos') /\ Kept(Moved(there, y_pos), k)
      BY <1>1, <1>2, <2>1, Standing, ScreenAssumption
         DEF Where, Kept, Moved, cursor, Printers
  <2> QED
      BY <1>1, <1>2, <2>1, <2>2, <2>3, Standing, StatementKeeps
<1>3. CASE /\ Step("cell", "inc", 0)
           /\ UNCHANGED cursor
  <2> DEFINE there == "inc"
  <2>1. Printer.at = "cell" /\ there \in Statements
      BY <1>3 DEF Step, Statements
  <2>2. x_pos' \in Nat /\ y_pos' \in Nat /\ clear' \in {0, 1}
      BY <1>3, Standing DEF cursor, Printers
  <2>3. Where(Moved(there, 0), k, x_pos', y_pos') /\ Kept(Moved(there, 0), k)
      BY <1>1, <1>3, <2>1, Standing, ScreenAssumption
         DEF Where, Kept, Moved, cursor, Printers
  <2> QED
      BY <1>1, <1>3, <2>1, <2>2, <2>3, Standing, StatementKeeps
<1>4. CASE /\ Step("inc", "incremented", x_pos)
           /\ UNCHANGED cursor
  <2> DEFINE there == "incremented"
  <2>1. Printer.at = "inc" /\ there \in Statements
      BY <1>4 DEF Step, Statements
  <2>2. x_pos' \in Nat /\ y_pos' \in Nat /\ clear' \in {0, 1}
      BY <1>4, Standing DEF cursor, Printers
  <2>3. Where(Moved(there, x_pos), k, x_pos', y_pos') /\ Kept(Moved(there, x_pos), k)
      BY <1>1, <1>4, <2>1, Standing, ScreenAssumption
         DEF Where, Kept, Moved, cursor, Printers
  <2> QED
      BY <1>1, <1>4, <2>1, <2>2, <2>3, Standing, StatementKeeps
<1>5. CASE /\ Step("incremented", "testX", 0)
           /\ x_pos' = Printer.reg + 1 /\ UNCHANGED <<y_pos, clear>>
  <2> DEFINE there == "testX"
  <2>1. Printer.at = "incremented" /\ there \in Statements
      BY <1>5 DEF Step, Statements
  <2>2. x_pos' \in Nat /\ y_pos' \in Nat /\ clear' \in {0, 1}
      BY <1>5, Standing DEF cursor, Printers
  <2>3. Where(Moved(there, 0), k, x_pos', y_pos') /\ Kept(Moved(there, 0), k)
      BY <1>1, <1>5, <2>1, Standing, ScreenAssumption
         DEF Where, Kept, Moved, cursor, Printers
  <2> QED
      BY <1>1, <1>5, <2>1, <2>2, <2>3, Standing, StatementKeeps
<1> QED
    BY <1>2, <1>3, <1>4, <1>5 DEF Glyph

LEMMA NewlineKeeps ==
    ASSUME LCTypeOK, PrintersInv, Newline
    PROVE  LCTypeOK' /\ PrintersInv'
<1>1. PICK k \in Nat : k = Below(Len(stack))
    BY Standing
<1>2. CASE /\ Step("return", "feed", 0)
           /\ x_pos' = 0 /\ UNCHANGED <<y_pos, clear>>
  <2> DEFINE there == "feed"
  <2>1. Printer.at = "return" /\ there \in Statements
      BY <1>2 DEF Step, Statements
  <2>2. x_pos' \in Nat /\ y_pos' \in Nat /\ clear' \in {0, 1}
      BY <1>2, Standing DEF cursor, Printers
  <2>3. Where(Moved(there, 0), k, x_pos', y_pos') /\ Kept(Moved(there, 0), k)
      BY <1>1, <1>2, <2>1, Standing, ScreenAssumption
         DEF Where, Kept, Moved, cursor, Printers
  <2> QED
      BY <1>1, <1>2, <2>1, <2>2, <2>3, Standing, StatementKeeps
<1>3. CASE /\ Step("feed", "fed", y_pos)
           /\ UNCHANGED cursor
  <2> DEFINE there == "fed"
  <2>1. Printer.at = "feed" /\ there \in Statements
      BY <1>3 DEF Step, Statements
  <2>2. x_pos' \in Nat /\ y_pos' \in Nat /\ clear' \in {0, 1}
      BY <1>3, Standing DEF cursor, Printers
  <2>3. Where(Moved(there, y_pos), k, x_pos', y_pos') /\ Kept(Moved(there, y_pos), k)
      BY <1>1, <1>3, <2>1, Standing, ScreenAssumption
         DEF Where, Kept, Moved, cursor, Printers
  <2> QED
      BY <1>1, <1>3, <2>1, <2>2, <2>3, Standing, StatementKeeps
<1>4. CASE /\ Step("fed", "testClear", 0)
           /\ y_pos' = Printer.reg + 1 /\ UNCHANGED <<x_pos, clear>>
  <2> DEFINE there == "testClear"
  <2>1. Printer.at = "fed" /\ there \in Statements
      BY <1>4 DEF Step, Statements
  <2>2. x_pos' \in Nat /\ y_pos' \in Nat /\ clear' \in {0, 1}
      BY <1>4, Standing DEF cursor, Printers
  <2>3. Where(Moved(there, 0), k, x_pos', y_pos') /\ Kept(Moved(there, 0), k)
      BY <1>1, <1>4, <2>1, Standing, ScreenAssumption
         DEF Where, Kept, Moved, cursor, Printers
  <2> QED
      BY <1>1, <1>4, <2>1, <2>2, <2>3, Standing, StatementKeeps
<1>5. CASE /\ Step("testClear", IF clear = 1 THEN "clearRow" ELSE "testX", 0)
           /\ UNCHANGED cursor
  <2> DEFINE there == IF clear = 1 THEN "clearRow" ELSE "testX"
  <2>1. Printer.at = "testClear" /\ there \in Statements
      BY <1>5 DEF Step, Statements
  <2>2. x_pos' \in Nat /\ y_pos' \in Nat /\ clear' \in {0, 1}
      BY <1>5, Standing DEF cursor, Printers
  <2>3. Where(Moved(there, 0), k, x_pos', y_pos') /\ Kept(Moved(there, 0), k)
      BY <1>1, <1>5, <2>1, Standing, ScreenAssumption
         DEF Where, Kept, Moved, cursor, Printers
  <2> QED
      BY <1>1, <1>5, <2>1, <2>2, <2>3, Standing, StatementKeeps
<1>6. CASE /\ Step("clearRow", "testX", 0)
           /\ UNCHANGED cursor
  <2> DEFINE there == "testX"
  <2>1. Printer.at = "clearRow" /\ there \in Statements
      BY <1>6 DEF Step, Statements
  <2>2. x_pos' \in Nat /\ y_pos' \in Nat /\ clear' \in {0, 1}
      BY <1>6, Standing DEF cursor, Printers
  <2>3. Where(Moved(there, 0), k, x_pos', y_pos') /\ Kept(Moved(there, 0), k)
      BY <1>1, <1>6, <2>1, Standing, ScreenAssumption
         DEF Where, Kept, Moved, cursor, Printers
  <2> QED
      BY <1>1, <1>6, <2>1, <2>2, <2>3, Standing, StatementKeeps
<1> QED
    BY <1>2, <1>3, <1>4, <1>5, <1>6 DEF Newline

LEMMA WrapLineKeeps ==
    ASSUME LCTypeOK, PrintersInv, WrapLine
    PROVE  LCTypeOK' /\ PrintersInv'
<1>1. PICK k \in Nat : k = Below(Len(stack))
    BY Standing
<1>2. CASE /\ Step("testX", IF x_pos >= Cols THEN "wrap" ELSE "testY", 0)
           /\ UNCHANGED cursor
  <2> DEFINE there == IF x_pos >= Cols THEN "wrap" ELSE "testY"
  <2>1. Printer.at = "testX" /\ there \in Statements
      BY <1>2 DEF Step, Statements
  <2>2. x_pos' \in Nat /\ y_pos' \in Nat /\ clear' \in {0, 1}
      BY <1>2, Standing DEF cursor, Printers
  <2>3. Where(Moved(there, 0), k, x_pos', y_pos') /\ Kept(Moved(there, 0), k)
      BY <1>1, <1>2, <2>1, Standing, ScreenAssumption
         DEF Where, Kept, Moved, cursor, Printers
  <2> QED
      BY <1>1, <1>2, <2>1, <2>2, <2>3, Standing, StatementKeeps
<1>3. CASE /\ Step("wrap", "wrapFeed", 0)
           /\ x_pos' = 0 /\ UNCHANGED <<y_pos, clear>>
  <2> DEFINE there == "wrapFeed"
  <2>1. Printer.at = "wrap" /\ there \in Statements
      BY <1>3 DEF Step, Statements
  <2>2. x_pos' \in Nat /\ y_pos' \in Nat /\ clear' \in {0, 1}
      BY <1>3, Standing DEF cursor, Printers
  <2>3. Where(Moved(there, 0), k, x_pos', y_pos') /\ Kept(Moved(there, 0), k)
      BY <1>1, <1>3, <2>1, Standing, ScreenAssumption
         DEF Where, Kept, Moved, cursor, Printers
  <2> QED
      BY <1>1, <1>3, <2>1, <2>2, <2>3, Standing, StatementKeeps
<1>4. CASE /\ Step("wrapFeed", "wrapFed", y_pos)
           /\ UNCHANGED cursor
  <2> DEFINE there == "wrapFed"
  <2>1. Printer.at = "wrapFeed" /\ there \in Statements
      BY <1>4 DEF Step, Statements
  <2>2. x_pos' \in Nat /\ y_pos' \in Nat /\ clear' \in {0, 1}
      BY <1>4, Standing DEF cursor, Printers
  <2>3. Where(Moved(there, y_pos), k, x_pos', y_pos') /\ Kept(Moved(there, y_pos), k)
      BY <1>1, <1>4, <2>1, Standing, ScreenAssumption
         DEF Where, Kept, Moved, cursor, Printers
  <2> QED
      BY <1>1, <1>4, <2>1, <2>2, <2>3, Standing, StatementKeeps
<1>5. CASE /\ Step("wrapFed", "testY", 0)
           /\ y_pos' = Printer.reg + 1 /\ UNCHANGED <<x_pos, clear>>
  <2> DEFINE there == "testY"
  <2>1. Printer.at = "wrapFed" /\ there \in Statements
      BY <1>5 DEF Step, Statements
  <2>2. x_pos' \in Nat /\ y_pos' \in Nat /\ clear' \in {0, 1}
      BY <1>5, Standing DEF cursor, Printers
  <2>3. Where(Moved(there, 0), k, x_pos', y_pos') /\ Kept(Moved(there, 0), k)
      BY <1>1, <1>5, <2>1, Standing, ScreenAssumption
         DEF Where, Kept, Moved, cursor, Printers
  <2> QED
      BY <1>1, <1>5, <2>1, <2>2, <2>3, Standing, StatementKeeps
<1> QED
    BY <1>2, <1>3, <1>4, <1>5 DEF WrapLine

LEMMA WrapPageKeeps ==
    ASSUME LCTypeOK, PrintersInv, WrapPage
    PROVE  LCTypeOK' /\ PrintersInv'
<1>1. PICK k \in Nat : k = Below(Len(stack))
    BY Standing
<1>2. CASE /\ Step("testY", IF y_pos >= Rows THEN "homeX" ELSE "done", 0)
           /\ UNCHANGED cursor
  <2> DEFINE there == IF y_pos >= Rows THEN "homeX" ELSE "done"
  <2>1. Printer.at = "testY" /\ there \in Statements
      BY <1>2 DEF Step, Statements
  <2>2. x_pos' \in Nat /\ y_pos' \in Nat /\ clear' \in {0, 1}
      BY <1>2, Standing DEF cursor, Printers
  <2>3. Where(Moved(there, 0), k, x_pos', y_pos') /\ Kept(Moved(there, 0), k)
      BY <1>1, <1>2, <2>1, Standing, ScreenAssumption
         DEF Where, Kept, Moved, cursor, Printers
  <2> QED
      BY <1>1, <1>2, <2>1, <2>2, <2>3, Standing, StatementKeeps
<1>3. CASE /\ Step("homeX", "homeY", 0)
           /\ x_pos' = 0 /\ UNCHANGED <<y_pos, clear>>
  <2> DEFINE there == "homeY"
  <2>1. Printer.at = "homeX" /\ there \in Statements
      BY <1>3 DEF Step, Statements
  <2>2. x_pos' \in Nat /\ y_pos' \in Nat /\ clear' \in {0, 1}
      BY <1>3, Standing DEF cursor, Printers
  <2>3. Where(Moved(there, 0), k, x_pos', y_pos') /\ Kept(Moved(there, 0), k)
      BY <1>1, <1>3, <2>1, Standing, ScreenAssumption
         DEF Where, Kept, Moved, cursor, Printers
  <2> QED
      BY <1>1, <1>3, <2>1, <2>2, <2>3, Standing, StatementKeeps
<1>4. CASE /\ Step("homeY", "homeClear", 0)
           /\ y_pos' = 0 /\ UNCHANGED <<x_pos, clear>>
  <2> DEFINE there == "homeClear"
  <2>1. Printer.at = "homeY" /\ there \in Statements
      BY <1>4 DEF Step, Statements
  <2>2. x_pos' \in Nat /\ y_pos' \in Nat /\ clear' \in {0, 1}
      BY <1>4, Standing DEF cursor, Printers
  <2>3. Where(Moved(there, 0), k, x_pos', y_pos') /\ Kept(Moved(there, 0), k)
      BY <1>1, <1>4, <2>1, Standing, ScreenAssumption
         DEF Where, Kept, Moved, cursor, Printers
  <2> QED
      BY <1>1, <1>4, <2>1, <2>2, <2>3, Standing, StatementKeeps
<1>5. CASE /\ Step("homeClear", "done", 0)
           /\ clear' = 1 /\ UNCHANGED <<x_pos, y_pos>>
  <2> DEFINE there == "done"
  <2>1. Printer.at = "homeClear" /\ there \in Statements
      BY <1>5 DEF Step, Statements
  <2>2. x_pos' \in Nat /\ y_pos' \in Nat /\ clear' \in {0, 1}
      BY <1>5, Standing DEF cursor, Printers
  <2>3. Where(Moved(there, 0), k, x_pos', y_pos') /\ Kept(Moved(there, 0), k)
      BY <1>1, <1>5, <2>1, Standing, ScreenAssumption
         DEF Where, Kept, Moved, cursor, Printers
  <2> QED
      BY <1>1, <1>5, <2>1, <2>2, <2>3, Standing, StatementKeeps
<1> QED
    BY <1>2, <1>3, <1>4, <1>5 DEF WrapPage

-----------------------------------------------------------------------------
(* Characters, handlers and tasks that begin and end.                      *)

LEMMA PrintNextKeeps ==
    ASSUME LCTypeOK, PrintersInv, PrintNext
    PROVE  LCTypeOK' /\ PrintersInv'
<1>1. Step("done", "guard", 0) /\ UNCHANGED cursor /\ "guard" \in Statements
    BY DEF PrintNext, Statements
<1>2. PICK k \in Nat : k = Below(Len(stack))
    BY Standing
<1>3. Printer.at = "done"
    BY <1>1 DEF Step
<1>4. Where(Moved("guard", 0), k, x_pos, y_pos) /\ Kept(Moved("guard", 0), k)
    BY <1>2, <1>3, Standing, ScreenAssumption DEF Where, Kept, Moved
<1> QED
    BY <1>1, <1>2, <1>4, Standing, StatementKeeps DEF cursor

\* The printer that is interrupted in the middle of a character counts.
LEMMA EnterKeeps ==
    ASSUME LCTypeOK, PrintersInv, Printer.at # "bug",
           NEW who \in {Clock, Keyboard, SysCall}, Enter(who)
    PROVE  LCTypeOK' /\ PrintersInv'
<1> DEFINE p == PrinterAt(who, "guard")
<1>1. p \in Printers /\ p.at = "guard"
    BY DEF PrinterAt, Printers, Statements
<1>2. PICK n \in Nat : n = Len(stack) /\ (stack = <<>> <=> n = 0)
    BY PrinterIsLast
<1>3. UNCHANGED <<opened, x_pos, y_pos, clear, current, task>>
    BY DEF Enter, cursor
<1>4. /\ stack' \in Seq(Printers) /\ Len(stack') = n + 1 /\ stack' # <<>>
      /\ \A i \in 1 .. n : stack'[i] = stack[i]
      /\ stack'[n + 1] = p
    BY <1>1, <1>2, Pushed DEF Enter, LCTypeOK
<1> HIDE DEF p
<1>5. \A i \in 0 .. n : Waiting(i)' = Waiting(i)
    BY <1>3, <1>4 DEF Waiting
<1>6. \A i \in 0 .. n + 1 : Below(i)' = Below(i)
  <2> SUFFICES ASSUME NEW i \in 0 .. n + 1 PROVE Below(i)' = Below(i)
      OBVIOUS
  <2>1. i \in Nat /\ \A j \in 0 .. i - 1 : Waiting(j)' = Waiting(j)
      BY <1>5
  <2> QED
      BY <2>1, BelowUnchanged
<1>7. LCTypeOK'
    BY <1>3, <1>4 DEF LCTypeOK
<1>8. Printer' = p
    BY <1>4 DEF Printer
<1>9. Below(Len(stack))' = Below(n + 1)
  <2>1. Below(Len(stack))' = Below(n + 1)'
      BY <1>4 DEF Below, Interrupted
  <2> QED
      BY <1>6, <2>1
<1>10. Where(Printer, Below(Len(stack)), x_pos, y_pos)'
  <2>1. PICK k \in Nat : k = Below(n)
      BY BelowFinite
  <2>2. Where(Printer, k, x_pos, y_pos) /\ Printer \in Printers
      BY <1>2, <2>1, Standing
  <2>3. Below(n + 1) = k + (IF InCharacter(Printer) THEN 1 ELSE 0)
      BY <1>2, <2>1, BelowNext, PrinterIsLast
  <2>4. x_pos \in Nat /\ y_pos \in Nat
      BY DEF LCTypeOK
  <2>5. Where(p, k + (IF InCharacter(Printer) THEN 1 ELSE 0), x_pos, y_pos)
      BY <1>1, <2>2, <2>4, ScreenAssumption DEF Where, InCharacter
  <2> QED
      BY <1>3, <1>8, <1>9, <2>3, <2>5
<1>11. \A t \in Tasks : Kept(task[t], 0)'
    BY <1>3 DEF PrintersInv, Kept
<1>12. \A i \in 1 .. Len(stack') : Kept(stack[i], Below(i))'
  <2> SUFFICES ASSUME NEW i \in 1 .. n + 1 PROVE Kept(stack'[i], Below(i)')
      BY <1>4 DEF Kept
  <2>1. CASE i = n + 1
      BY <1>1, <1>4, <2>1 DEF Kept
  <2>2. CASE i # n + 1
      BY <1>2, <1>4, <1>6, <2>2 DEF PrintersInv
  <2> QED
      BY <2>1, <2>2
<1>13. /\ \A t \in Tasks : task'[t].at = "bug" => t = current' /\ stack' = <<>>
       /\ \A i \in 1 .. Len(stack') : stack'[i].at = "bug" => i = Len(stack')
  <2>1. \A t \in Tasks : task[t].at # "bug"
      BY DEF PrintersInv, Printer
  <2>2. \A i \in 1 .. n : stack[i].at # "bug"
      BY <1>2 DEF PrintersInv, Printer
  <2> QED
      BY <1>3, <1>4, <2>1, <2>2
<1> QED
    BY <1>7, <1>10, <1>11, <1>12, <1>13 DEF PrintersInv

\* A handler has left the cursor on the screen, where any statement may go on.
LEMMA ReturnKeeps ==
    ASSUME LCTypeOK, PrintersInv, Return
    PROVE  LCTypeOK' /\ PrintersInv'
<1>1. PICK n \in Nat : n = Len(stack) /\ (stack = <<>> <=> n = 0)
    BY PrinterIsLast
<1>2. stack # <<>> /\ n # 0 /\ Printer.at = "done"
    BY <1>1 DEF Return, Between
<1>3. UNCHANGED <<opened, x_pos, y_pos, clear, task>> /\ current' \in Tasks
  <2>1. current' \in {current, (current + 1) % MAX_THREAD}
      BY DEF Return
  <2>2. current \in Tasks /\ MAX_THREAD \in Nat \ {0}
      BY PrintersAssumption DEF LCTypeOK
  <2>3. (current + 1) % MAX_THREAD \in Tasks
      BY <2>2 DEF Tasks
  <2> QED
      BY <2>1, <2>2, <2>3 DEF Return, cursor
<1>4. /\ stack' \in Seq(Printers) /\ Len(stack') = n - 1
      /\ \A i \in 1 .. n - 1 : stack'[i] = stack[i]
    BY <1>1, <1>2, Popped DEF Return, LCTypeOK
<1>5. n = 1 => stack' = <<>>
    BY <1>4, EmptySeq
<1>6. n # 1 => stack' # <<>> /\ current' = current
  <2> SUFFICES ASSUME n # 1 PROVE stack' # <<>> /\ current' = current
      OBVIOUS
  <2>1. n - 1 # 0
      BY <1>1
  <2>2. stack' # <<>>
      BY <1>4, <2>1, EmptySeq
  <2>3. current' = current
      BY <1>1 DEF Return
  <2> QED
      BY <2>2, <2>3
<1>7. x_pos < Cols /\ y_pos < Rows /\ x_pos \in Nat /\ y_pos \in Nat
    BY <1>2, Standing DEF Where
<1>8. LCTypeOK'
    BY <1>3, <1>4 DEF LCTypeOK
<1>9. /\ \A t \in Tasks : task[t].at # "bug"
      /\ \A i \in 1 .. n - 1 : stack[i].at # "bug"
    BY <1>1, <1>2 DEF PrintersInv
<1>10. Printer'.at # "bug"
  <2>1. CASE n = 1
      BY <1>3, <1>5, <1>9, <2>1 DEF Printer
  <2>2. CASE n # 1
      BY <1>1, <1>2, <1>4, <1>6, <1>9, <2>2 DEF Printer
  <2> QED
      BY <2>1, <2>2
<1>11. Where(Printer, Below(Len(stack)), x_pos, y_pos)'
  <2>1. PICK k \in Nat : k = Below(Len(stack))'
    <3>1. Below(n - 1)' \in Nat
      <4>1. PICK m \in Nat : m = n - 1
          BY <1>1, <1>2
      <4>2. IsFiniteSet(0 .. m - 1)
          BY <4>1, FS_Interval
      <4>3. Interrupted(m)' \subseteq 0 .. m - 1
          BY DEF Interrupted
      <4>4. IsFiniteSet(Interrupted(m)')
          BY <4>2, <4>3, FS_Subset
      <4>5. Cardinality(Interrupted(m)') \in Nat
          BY <4>4, FS_CardinalityType
      <4> QED
          BY <4>1, <4>5 DEF Below
    <3>2. Below(Len(stack))' = Below(n - 1)'
        BY <1>4 DEF Below, Interrupted
    <3> QED
        BY <3>1, <3>2
  <2>2. Where(Printer', k, x_pos, y_pos)
      BY <1>7, <1>10, ScreenAssumption DEF Where
  <2> QED
      BY <1>3, <2>1, <2>2
<1>12. \A t \in Tasks : Kept(task[t], 0)'
    BY <1>3 DEF PrintersInv, Kept
<1>13. \A i \in 1 .. Len(stack') : Kept(stack[i], Below(i))'
  <2> SUFFICES ASSUME NEW i \in 1 .. n - 1 PROVE Kept(stack'[i], Below(i)')
      BY <1>4 DEF Kept
  <2>1. i \in Nat /\ n # 1
      OBVIOUS
  <2>2. \A j \in 0 .. i - 1 : Waiting(j)' = Waiting(j)
      BY <1>3, <1>4, <1>6, <2>1 DEF Waiting
  <2>3. Below(i)' = Below(i)
      BY <2>1, <2>2, BelowUnchanged
  <2> QED
      BY <1>1, <1>4, <2>3 DEF PrintersInv
<1>14. /\ \A t \in Tasks : task'[t].at = "bug" => t = current' /\ stack' = <<>>
       /\ \A i \in 1 .. Len(stack') : stack'[i].at = "bug" => i = Len(stack')
    BY <1>3, <1>4, <1>9
<1> QED
    BY <1>8, <1>11, <1>12, <1>13, <1>14 DEF PrintersInv

-----------------------------------------------------------------------------
LEMMA Begins == LCInit => LCTypeOK /\ PrintersInv
<1> SUFFICES ASSUME LCInit PROVE LCTypeOK /\ PrintersInv
    OBVIOUS
<1>1. 0 \in Tasks
    BY PrintersAssumption DEF Tasks
<1>2. \A t \in Tasks : PrinterAt(t, "done") \in Printers
    BY DEF PrinterAt, Printers, Statements
<1>3. LCTypeOK
    BY <1>1, <1>2, EmptySeq, ScreenAssumption DEF LCInit, LCTypeOK
<1>4. Len(stack) = 0 /\ Below(Len(stack)) = 0
    BY <1>3, PrinterIsLast, BelowNone DEF LCInit
<1>5. Printer.at = "done" /\ \A t \in Tasks : task[t].at = "done"
    BY <1>1 DEF LCInit, Printer, PrinterAt
<1>6. x_pos < Cols /\ y_pos < Rows /\ x_pos \in Nat /\ y_pos \in Nat
    BY ScreenAssumption DEF LCInit
<1>7. Where(Printer, Below(Len(stack)), x_pos, y_pos)
    BY <1>4, <1>5, <1>6, ScreenAssumption DEF Where
<1> QED
    BY <1>3, <1>4, <1>5, <1>7 DEF PrintersInv, Kept

LEMMA NextKeeps == LCTypeOK /\ PrintersInv /\ [LCNext]_lvars => LCTypeOK' /\ PrintersInv'
<1> SUFFICES ASSUME LCTypeOK, PrintersInv, [LCNext]_lvars
             PROVE  LCTypeOK' /\ PrintersInv'
    OBVIOUS
<1>1. CASE LCNext
  <2>1. Printer.at # "bug"
      BY <1>1 DEF LCNext
  <2>2. CASE fb_putchar
      BY <2>2, GuardKeeps, GlyphKeeps, NewlineKeeps, WrapLineKeeps, WrapPageKeeps
         DEF fb_putchar
  <2>3. CASE PrintNext
      BY <2>3, PrintNextKeeps
  <2>4. CASE test_call
      BY <2>1, <2>4, EnterKeeps DEF test_call
  <2>5. CASE Return
      BY <2>5, ReturnKeeps
  <2>6. CASE \E l \in opened : Interrupt(l)
    <3>1. PICK l \in opened : Interrupt(l)
        BY <2>6
    <3>2. l \in {Clock, Keyboard, SysCall}
        BY <3>1, PrintersAssumption DEF LCTypeOK
    <3> QED
        BY <2>1, <3>1, <3>2, EnterKeeps DEF Interrupt
  <2> QED
      BY <1>1, <2>2, <2>3, <2>4, <2>5, <2>6 DEF LCNext
<1>2. CASE UNCHANGED lvars
  <2>1. UNCHANGED <<opened, x_pos, y_pos, clear, current, task, stack>>
      BY <1>2 DEF lvars, cursor
  <2>2. LCTypeOK'
      BY <2>1 DEF LCTypeOK
  <2>3. PrintersInv'
      BY <2>1 DEF PrintersInv, Printer, Below, Interrupted, InCharacter, Waiting, Kept, Where
  <2> QED
      BY <2>2, <2>3
<1> QED
    BY <1>1, <1>2

\* What a printer has to show bounds the cursor and the guard.
LEMMA Bounded == LCTypeOK /\ PrintersInv => OneBeyondEach /\ TripsOnlyNested
<1> SUFFICES ASSUME LCTypeOK, PrintersInv PROVE OneBeyondEach /\ TripsOnlyNested
    OBVIOUS
<1>1. PICK k \in Nat : k = Below(Len(stack))
    BY Standing
<1>2. Below(Len(stack) + 1) = k + (IF InCharacter(Printer) THEN 1 ELSE 0)
    BY <1>1, BelowNext, PrinterIsLast
<1>3. Where(Printer, k, x_pos, y_pos) /\ x_pos \in Nat /\ y_pos \in Nat
    BY <1>1, Standing
<1>4. OneBeyondEach
    BY <1>2, <1>3, ScreenAssumption DEF OneBeyondEach, Where, InCharacter
<1>5. Printer.at = "bug" => k >= 2
    BY <1>3, ScreenAssumption DEF Where
<1> QED
    BY <1>1, <1>4, <1>5 DEF TripsOnlyNested

\* Each printer that is interrupted leaves the cursor one place beyond the screen
\* at most, on any screen and at any depth.
THEOREM ConsoleInvariance == LCSpec => []ConsoleInv
<1>1. LCTypeOK /\ PrintersInv => ConsoleInv
    BY Bounded DEF ConsoleInv
<1> QED
    BY <1>1, Begins, NextKeeps, PTL DEF LCSpec

\* The guard of fb_putchar never trips unless three printers are in the middle
\* of a character at once.
THEOREM GuardTripsOnlyNested == LCSpec => []TripsOnlyNested
<1>1. ConsoleInv => TripsOnlyNested
    BY Bounded DEF ConsoleInv
<1> QED
    BY <1>1, ConsoleInvariance, PTL
=============================================================================
