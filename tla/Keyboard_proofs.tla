--------------------------- MODULE Keyboard_proofs ---------------------------
(***************************************************************************)
(* Proofs about the keyboard driver and the console it prints on, for      *)
(* every size of the screen, every set of keys and all messages.           *)
(***************************************************************************)
EXTENDS Keyboard, FiniteSetTheorems, TLAPS

-----------------------------------------------------------------------------
(* The inductive invariant. *)

Columns == {x \in 0 .. Width - 8 : x % 8 \in {0, Width % 8}}
Rows    == {y \in 0 .. Height - 16 : y % 16 = 0}

Inks    == [Places -> 0 .. 2]
Whole(marks) ==
    \A p \in Places : marks[p] > 0 => p[1] <= Width - 8 /\ p[2] <= Height - 16

\* A cursor on the grid with room for a glyph, and glyphs that are whole.
Good(t) == /\ t \in [x : Columns, y : Rows, clear : 0 .. 2, ink : Inks]
           /\ Whole(t.ink)

Screens == [x : Nat, y : Nat, clear : 0 .. 2, ink : Inks]

\* Between the steps of fb_putchar the cursor may be beyond the edges.
Moving(t) == /\ t \in Screens
             /\ t.x % 8 \in {0, Width % 8} /\ t.y % 16 = 0
             /\ Whole(t.ink)

\* Nothing is overprinted, and what the next glyphs will be printed over is
\* blank: the rest of the row, and in the first pass the rows below.
Fresh(t) ==
    t.clear <= 1 =>
      \A p \in Places :
        /\ t.ink[p] <= 1
        /\ p[2] = t.y /\ p[1] >= t.x => t.ink[p] = 0
        /\ t.clear = 0 /\ p[2] > t.y => t.ink[p] = 0

\* The cursor as it will be once kmain's stores are done.
Pending ==
    [x |-> IF printing = "storeX" THEN x_pos ELSE cursor_X,
     y |-> IF printing \in {"storeX", "storeY"} THEN y_pos ELSE cursor_Y,
     clear |-> clear, ink |-> ink]

ConsoleInv ==
    /\ ConsoleTypeOK
    /\ Good(Shown)
    /\ x_pos \in Columns /\ y_pos \in Rows
    /\ printing # "copyX" => printed < Len(Message)

\* Until it is raced, kmain works on a true copy.
UnracedInv ==
    ~raced =>
      /\ Fresh(Pending)
      /\ printing \in {"copyY", "work", "storeY"} => x_pos = cursor_X
      /\ printing = "work" => y_pos = cursor_Y

-----------------------------------------------------------------------------
(* Induction, over sets of numbers: the provers do not find it in the      *)
(* library's schemes, whose parameter is an operator.                      *)

\* A set that holds 0, and with a number the next, holds all of them: among
\* the numbers up to one that it lacks, those it holds would be as many as
\* their successors, which are all among them without being 0.
LEMMA SetInduction ==
    ASSUME NEW S, 0 \in S, \A k \in Nat : k \in S => k + 1 \in S
    PROVE  Nat \subseteq S
  <1> SUFFICES ASSUME NEW n \in Nat, n \notin S
               PROVE  FALSE
    OBVIOUS
  <1> DEFINE T == {k \in 0 .. n : k \in S}
             next == [k \in T |-> k + 1]
  <1>1. IsFiniteSet(T) /\ Cardinality(T) \in Nat
    <2>1. IsFiniteSet(0 .. n)  BY FS_Interval
    <2> QED  BY <2>1, FS_Subset, FS_CardinalityType
  <1>2. /\ IsFiniteSet(T \ {0})
        /\ Cardinality(T \ {0}) = Cardinality(T) - 1
    <2>1. 0 \in T  OBVIOUS
    <2> HIDE DEF T
    <2> QED  BY <1>1, <2>1, FS_RemoveElement
  <1>3. next \in [T -> T \ {0}]
    OBVIOUS
  <1>4. next \in Injection(T, T \ {0})
    <2>1. \A a, b \in T : next[a] = next[b] => a = b
      OBVIOUS
    <2> HIDE DEF next, T
    <2> QED  BY <1>3, <2>1 DEF Injection, IsInjective
  <1>5. Cardinality(T) <= Cardinality(T \ {0})
    <2> HIDE DEF next, T
    <2> QED  BY <1>2, <1>4, FS_Injection
  <1> HIDE DEF T
  <1> QED  BY <1>1, <1>2, <1>5

\* printf puts one character after the other on the screen.
LEMMA PrintfSteps ==
    ASSUME NEW t, NEW text, Len(text) \in Nat
    PROVE  \E after : /\ after[0] = t
                      /\ \A k \in 1 .. Len(text) :
                           after[k] = fb_putchar(after[k - 1], text[k])
                      /\ printf(t, text) = after[Len(text)]
  <1> DEFINE IsAfter(f, n) ==
               f = [k \in 0 .. n |-> IF k = 0 THEN t ELSE fb_putchar(f[k - 1], text[k])]
             S == {n \in Nat : \E f : IsAfter(f, n)}
  <1>1. 0 \in S
    <2>1. IsAfter([k \in 0 .. 0 |-> t], 0)
      OBVIOUS
    <2> QED  BY <2>1
  <1>2. ASSUME NEW n \in Nat, n \in S
        PROVE  n + 1 \in S
    <2>1. PICK f : IsAfter(f, n)
      BY <1>2
    <2> DEFINE g == [k \in 0 .. n + 1 |->
                       IF k = n + 1 THEN fb_putchar(f[n], text[n + 1]) ELSE f[k]]
    <2>2. \A k \in 0 .. n : g[k] = f[k]
      OBVIOUS
    <2>3. \A k \in 0 .. n : f[k] = IF k = 0 THEN t ELSE fb_putchar(f[k - 1], text[k])
      BY <2>1, Zenon
    <2>4. ASSUME NEW k \in 0 .. n + 1
          PROVE  g[k] = IF k = 0 THEN t ELSE fb_putchar(g[k - 1], text[k])
      <3>1. CASE k = n + 1
        <4>1. k # 0 /\ k - 1 = n /\ n \in 0 .. n  BY <3>1
        <4>2. g[k] = fb_putchar(f[n], text[n + 1])  BY <3>1
        <4>3. g[k - 1] = f[n]  BY <2>2, <4>1
        <4> HIDE DEF g
        <4> QED  BY <3>1, <4>1, <4>2, <4>3
      <3>2. CASE k # n + 1
        <4>1. k \in 0 .. n /\ (k # 0 => k - 1 \in 0 .. n)  BY <3>2
        <4> HIDE DEF g
        <4> QED  BY <2>2, <2>3, <4>1
      <3> QED  BY <3>1, <3>2
    <2>5. IsAfter(g, n + 1)
      <3>1. g = [k \in 0 .. n + 1 |-> g[k]]  OBVIOUS
      <3> HIDE DEF g
      <3> QED  BY <2>4, <3>1
    <2> HIDE DEF IsAfter
    <2> QED  BY <2>5
  <1>3. Len(text) \in S
    <2> HIDE DEF S
    <2> QED  BY <1>1, <1>2, SetInduction
  <1> DEFINE after == CHOOSE f : IsAfter(f, Len(text))
  <1>4. IsAfter(after, Len(text))
    BY <1>3, Zenon
  <1>5. printf(t, text) = after[Len(text)]
    BY DEF printf
  <1>6. \A k \in 0 .. Len(text) :
           after[k] = IF k = 0 THEN t ELSE fb_putchar(after[k - 1], text[k])
    <2> HIDE DEF after
    <2> QED  BY <1>4, Zenon
  <1> HIDE DEF after
  <1> WITNESS after
  <1> QED  BY <1>5, <1>6

-----------------------------------------------------------------------------
(* The console's operators. *)

LEMMA SizesNat == Width \in Nat /\ Width >= 16 /\ Height \in Nat /\ Height >= 32
  BY ScreenAssumption

\* A place is a pair of numbers.
LEMMA PlacePair ==
    ASSUME NEW p \in Places
    PROVE  p = <<p[1], p[2]>> /\ p[1] \in Nat /\ p[2] \in Nat
  BY SizesNat DEF Places

\* Clearing a row only takes ink away.
LEMMA CleanInk ==
    ASSUME NEW marks \in Inks, NEW row
    PROVE  /\ Clean(marks, row) \in Inks
           /\ \A p \in Places :
                Clean(marks, row)[p] = IF p[2] = row THEN 0 ELSE marks[p]
           /\ Whole(marks) => Whole(Clean(marks, row))
  <1>1. Clean(marks, row) = [p \in Places |-> IF p[2] = row THEN 0 ELSE marks[p]]
    BY DEF Clean, Inks
  <1>2. Clean(marks, row) \in Inks
    <2>1. \A p \in Places : marks[p] \in 0 .. 2  BY DEF Inks
    <2> QED  BY <1>1, <2>1 DEF Inks
  <1>3. \A p \in Places : Clean(marks, row)[p] = IF p[2] = row THEN 0 ELSE marks[p]
    BY <1>1
  <1> QED  BY <1>2, <1>3 DEF Whole

\* A glyph is printed at a place of the grid or not at all.
LEMMA StampInk ==
    ASSUME NEW t, Moving(t)
    PROVE  /\ Stamp(t) \in Inks /\ Whole(Stamp(t))
           /\ \A p \in Places : p # <<t.x, t.y>> => Stamp(t)[p] = t.ink[p]
           /\ \A p \in Places : p = <<t.x, t.y>> /\ t.ink[p] = 0 => Stamp(t)[p] <= 1
  <1>1. t.ink \in Inks /\ t.x \in Nat /\ t.y \in Nat /\ Whole(t.ink)
    BY DEF Moving, Screens
  <1>2. CASE t.x > Width - 8 \/ t.y > Height - 16
    BY <1>1, <1>2 DEF Stamp, Whole
  <1>3. CASE ~(t.x > Width - 8 \/ t.y > Height - 16)
    <2> DEFINE q == <<t.x, t.y>>
    <2>1. q \in Places /\ q[1] = t.x /\ q[2] = t.y
      BY <1>1, <1>3, SizesNat DEF Moving, Places
    <2>2. t.ink[q] \in 0 .. 2 /\ Overlay(t.ink[q]) \in 0 .. 2
          /\ (t.ink[q] = 0 => Overlay(t.ink[q]) = 1)
      BY <1>1, <2>1 DEF Inks, Overlay
    <2>3. Stamp(t) = [t.ink EXCEPT ![q] = Overlay(t.ink[q])]
      BY <1>3 DEF Stamp
    <2> HIDE DEF q
    <2>4. Stamp(t) \in Inks
      BY <1>1, <2>1, <2>2, <2>3 DEF Inks
    <2>5. \A p \in Places : Stamp(t)[p] = IF p = q THEN Overlay(t.ink[q]) ELSE t.ink[p]
      BY <1>1, <2>3 DEF Inks
    <2>6. Whole(Stamp(t))
      BY <1>1, <1>3, <2>1, <2>5, SizesNat DEF Whole
    <2> QED  BY <2>1, <2>2, <2>4, <2>5, <2>6 DEF q
  <1> QED  BY <1>2, <1>3

LEMMA NewLineMoves ==
    ASSUME NEW t, Moving(t)
    PROVE  /\ Moving(NewLine(t)) /\ NewLine(t).x = 0 /\ NewLine(t).y = t.y + 16
           /\ Fresh(t) => Fresh(NewLine(t))
  <1> DEFINE y == t.y + 16
             u == [t EXCEPT !.x = 0, !.y = y]
  <1>1. /\ t \in Screens
        /\ t.ink \in Inks /\ t.y \in Nat /\ t.clear \in 0 .. 2 /\ Whole(t.ink)
    BY DEF Moving, Screens
  <1>2. /\ u \in Screens
        /\ u.x = 0 /\ u.y = t.y + 16 /\ u.clear = t.clear /\ u.ink = t.ink
    <2>1. 0 \in Nat /\ y \in Nat  BY <1>1
    <2> HIDE DEF y
    <2>2. /\ u \in Screens
          /\ u.x = 0 /\ u.y = y /\ u.clear = t.clear /\ u.ink = t.ink
      BY <1>1, <2>1 DEF Screens
    <2> HIDE DEF u
    <2> QED  BY <2>2 DEF y
  <1>6. (t.y + 16) % 16 = 0 /\ 0 % 8 = 0
    BY <1>1 DEF Moving
  <1>3. NewLine(t) = IF u.clear = 1 THEN [u EXCEPT !.ink = Clean(u.ink, u.y)] ELSE u
    BY DEF NewLine, ClearRow
  <1> HIDE DEF u
  <1>4. CASE u.clear = 1
    <2>1. /\ NewLine(t).x = 0 /\ NewLine(t).y = t.y + 16 /\ NewLine(t).clear = 1
          /\ NewLine(t).ink = Clean(t.ink, t.y + 16)
          /\ NewLine(t) \in Screens
      BY <1>2, <1>3, <1>4, CleanInk DEF Screens
    <2>2. Moving(NewLine(t))
      BY <1>1, <1>6, <2>1, CleanInk DEF Moving
    <2>3. Fresh(t) => Fresh(NewLine(t))
      BY <1>1, <1>2, <1>4, <2>1, CleanInk DEF Fresh
    <2> QED  BY <2>1, <2>2, <2>3
  <1>5. CASE u.clear # 1
    <2>1. NewLine(t) = u  BY <1>3, <1>5
    <2>2. Moving(u)
      BY <1>1, <1>2, <1>6 DEF Moving
    <2>3. Fresh(t) => Fresh(u)
      <3>1. \A p \in Places : p[2] = t.y + 16 => p[2] > t.y
        BY <1>1
      <3>2. \A p \in Places : p[2] > t.y + 16 => p[2] > t.y
        BY <1>1, PlacePair
      <3> QED  BY <1>1, <1>2, <1>5, <3>1, <3>2 DEF Fresh
    <2> QED  BY <1>2, <2>1, <2>2, <2>3
  <1> QED  BY <1>4, <1>5

LEMMA EchoMoves ==
    ASSUME NEW t, Moving(t), NEW c \in Forward
    PROVE  Moving(Echo(t, c)) /\ (Fresh(t) => Fresh(Echo(t, c)))
  <1>1. /\ t \in Screens
        /\ t.ink \in Inks /\ t.x \in Nat /\ t.y \in Nat /\ t.clear \in 0 .. 2
        /\ Whole(t.ink) /\ t.x % 8 \in {0, Width % 8} /\ t.y % 16 = 0
    BY DEF Moving, Screens
  <1>2. CASE c = "newline"
    BY <1>2, NewLineMoves DEF Echo
  <1>3. CASE c = "tab" \/ c = " "
    <2> DEFINE x == IF c = "tab" THEN 64 * ((t.x + 64) \div 64) ELSE t.x + 8
               u == [t EXCEPT !.x = x]
    <2>1. Echo(t, c) = u
      BY <1>3 DEF Echo
    <2>2. x \in Nat /\ x > t.x /\ x % 8 \in {0, Width % 8}
      <3>1. CASE c = "tab"
        <4>1. x = 64 * ((t.x + 64) \div 64)  BY <3>1
        <4>2. t.x \in Nat  BY <1>1
        <4> HIDE DEF x
        <4> QED  BY <4>1, <4>2
      <3>2. CASE c = " "
        <4>1. x = t.x + 8  BY <3>2
        <4>2. x % 8 = t.x % 8 /\ x > t.x /\ x \in Nat  BY <1>1, <4>1
        <4> QED  BY <1>1, <4>2
      <3> QED  BY <1>3, <3>1, <3>2
    <2> HIDE DEF x
    <2>3. /\ u \in Screens
          /\ u.x = x /\ u.y = t.y /\ u.clear = t.clear /\ u.ink = t.ink
      BY <1>1, <2>2 DEF Screens
    <2> HIDE DEF u
    <2>4. Moving(u)
      BY <1>1, <2>2, <2>3 DEF Moving
    <2>5. Fresh(t) => Fresh(u)
      BY <1>1, <2>2, <2>3, PlacePair DEF Fresh
    <2> QED  BY <2>1, <2>4, <2>5
  <1>4. CASE c = "glyph"
    <2> DEFINE x == t.x + 8
               m == Stamp(t)
               u == [t EXCEPT !.x = x, !.ink = m]
    <2>1. Echo(t, c) = u
      BY <1>4 DEF Echo
    <2>2. /\ u \in Screens
          /\ u.x = t.x + 8 /\ u.y = t.y /\ u.clear = t.clear /\ u.ink = Stamp(t)
      <3>1. m \in Inks  BY StampInk
      <3>2. x \in Nat  BY <1>1
      <3> HIDE DEF x, m
      <3>3. u \in Screens /\ u.x = x /\ u.y = t.y /\ u.clear = t.clear /\ u.ink = m
        BY <1>1, <3>1, <3>2 DEF Screens
      <3> HIDE DEF u
      <3> QED  BY <3>3 DEF x, m
    <2> HIDE DEF u
    <2>3. Moving(u)
      <3>1. (t.x + 8) % 8 = t.x % 8  BY <1>1
      <3> QED  BY <1>1, <2>2, <3>1, StampInk DEF Moving
    <2>4. Fresh(t) => Fresh(u)
      <3> SUFFICES ASSUME Fresh(t), t.clear <= 1, NEW p \in Places
                   PROVE  /\ u.ink[p] <= 1
                          /\ p[2] = u.y /\ p[1] >= u.x => u.ink[p] = 0
                          /\ u.clear = 0 /\ p[2] > u.y => u.ink[p] = 0
        BY <2>2 DEF Fresh
      <3>1. /\ t.ink[p] <= 1
            /\ p[2] = t.y /\ p[1] >= t.x => t.ink[p] = 0
            /\ t.clear = 0 /\ p[2] > t.y => t.ink[p] = 0
        BY DEF Fresh
      <3>2. CASE p = <<t.x, t.y>>
        <4>1. p[1] = t.x /\ p[2] = t.y  BY <3>2
        <4> QED  BY <1>1, <2>2, <3>1, <3>2, <4>1, StampInk
      <3>3. CASE p # <<t.x, t.y>>
        <4>1. u.ink[p] = t.ink[p]  BY <2>2, <3>3, StampInk
        <4> QED  BY <1>1, <2>2, <3>1, <4>1, PlacePair
      <3> QED  BY <3>2, <3>3
    <2> QED  BY <2>1, <2>3, <2>4
  <1> QED  BY <1>2, <1>3, <1>4 DEF Forward, Characters

LEMMA WrapLineMoves ==
    ASSUME NEW t, Moving(t)
    PROVE  /\ Moving(WrapLine(t)) /\ WrapLine(t).x < Width - 8
           /\ Fresh(t) => Fresh(WrapLine(t))
  <1>1. t.x \in Nat  BY DEF Moving, Screens
  <1> QED  BY <1>1, NewLineMoves, SizesNat DEF WrapLine

LEMMA WrapPageMoves ==
    ASSUME NEW t, Moving(t), t.x < Width - 8
    PROVE  /\ Moving(WrapPage(t))
           /\ WrapPage(t).x < Width - 8 /\ WrapPage(t).y < Height - 16
           /\ Fresh(t) => Fresh(WrapPage(t))
  <1> DEFINE n == IF t.clear = 0 THEN 1 ELSE 2
             m == Clean(t.ink, 0)
             u == [t EXCEPT !.x = 0, !.y = 0, !.clear = n, !.ink = m]
  <1>1. /\ t \in Screens /\ t.ink \in Inks /\ t.x \in Nat /\ t.y \in Nat
        /\ t.clear \in 0 .. 2 /\ Whole(t.ink)
    BY DEF Moving, Screens
  <1>2. WrapPage(t) = IF t.y >= Height - 16 THEN u ELSE t
    BY DEF WrapPage
  <1>3. CASE t.y >= Height - 16
    <2>1. n \in 0 .. 2 /\ m \in Inks /\ Whole(m)
          /\ \A p \in Places : m[p] = IF p[2] = 0 THEN 0 ELSE t.ink[p]
      BY <1>1, CleanInk
    <2> HIDE DEF m
    <2>2. u \in Screens /\ u.x = 0 /\ u.y = 0 /\ u.clear = n /\ u.ink = m
      <3> HIDE DEF n
      <3> QED  BY <1>1, <2>1 DEF Screens
    <2> HIDE DEF u
    <2>3. Moving(u)
      BY <2>1, <2>2 DEF Moving
    <2>4. Fresh(t) => Fresh(u)
      BY <1>1, <2>1, <2>2 DEF Fresh
    <2> QED  BY <1>2, <1>3, <2>2, <2>3, <2>4, SizesNat
  <1>4. CASE ~(t.y >= Height - 16)
    BY <1>1, <1>2, <1>4, SizesNat
  <1> QED  BY <1>3, <1>4

LEMMA GoodMoves ==
    ASSUME NEW t, Good(t)
    PROVE  /\ Moving(t) /\ t \in Screens
           /\ t.x <= Width - 8 /\ t.y <= Height - 16
  BY SizesNat DEF Good, Moving, Screens, Columns, Rows

\* Where the cursor of a good screen is, another cursor with room for a glyph
\* can be.
LEMMA MovesGood ==
    ASSUME NEW t, Moving(t), t.x <= Width - 8, t.y <= Height - 16
    PROVE  Good(t)
  BY SizesNat DEF Good, Moving, Screens, Columns, Rows

\* fb_putchar leaves the cursor where a glyph has room, whatever it prints, and
\* prints on what is blank.
LEMMA PutcharGood ==
    ASSUME NEW t, Good(t), NEW c \in Forward
    PROVE  Good(fb_putchar(t, c)) /\ (Fresh(t) => Fresh(fb_putchar(t, c)))
  <1> DEFINE e == Echo(t, c)
             l == WrapLine(e)
             q == WrapPage(l)
  <1>1. Home(t, Width) = t
    BY GoodMoves, SizesNat DEF Home, Screens
  <1>2. Moving(e) /\ (Fresh(t) => Fresh(e))
    BY GoodMoves, EchoMoves
  <1>3. Moving(l) /\ l.x < Width - 8 /\ (Fresh(e) => Fresh(l))
    <2> HIDE DEF e
    <2> QED  BY <1>2, WrapLineMoves
  <1>4. Moving(q) /\ q.x < Width - 8 /\ q.y < Height - 16 /\ (Fresh(l) => Fresh(q))
    <2> HIDE DEF l
    <2> QED  BY <1>3, WrapPageMoves
  <1>5. fb_putchar(t, c) = Home(q, Width - 8)
    BY <1>1 DEF fb_putchar
  <1> HIDE DEF q
  <1>6. Home(q, Width - 8) = q /\ q.x <= Width - 8 /\ q.y <= Height - 16
    BY <1>4, SizesNat DEF Home, Moving, Screens
  <1> QED  BY <1>2, <1>3, <1>4, <1>5, <1>6, MovesGood

\* So does printf, for a message of any length.
LEMMA PrintfGood ==
    ASSUME NEW t, Good(t), NEW text \in Seq(Forward)
    PROVE  Good(printf(t, text)) /\ (Fresh(t) => Fresh(printf(t, text)))
  <1>1. Len(text) \in Nat /\ \A k \in 1 .. Len(text) : text[k] \in Forward
    OBVIOUS
  <1>2. PICK after : /\ after[0] = t
                     /\ \A k \in 1 .. Len(text) :
                          after[k] = fb_putchar(after[k - 1], text[k])
                     /\ printf(t, text) = after[Len(text)]
    BY <1>1, PrintfSteps
  <1> DEFINE S == {k \in Nat : k <= Len(text) =>
                     Good(after[k]) /\ (Fresh(t) => Fresh(after[k]))}
  <1>3. 0 \in S
    BY <1>1, <1>2
  <1>4. ASSUME NEW k \in Nat, k \in S
        PROVE  k + 1 \in S
    <2> SUFFICES ASSUME k + 1 <= Len(text)
                 PROVE  Good(after[k + 1]) /\ (Fresh(t) => Fresh(after[k + 1]))
      OBVIOUS
    <2>1. Good(after[k]) /\ (Fresh(t) => Fresh(after[k]))
      BY <1>1, <1>4
    <2>2. k + 1 \in 1 .. Len(text) /\ (k + 1) - 1 = k
      BY <1>1
    <2>3. after[k + 1] = fb_putchar(after[k], text[k + 1]) /\ text[k + 1] \in Forward
      BY <1>1, <1>2, <2>2
    <2> QED  BY <2>1, <2>3, PutcharGood
  <1>5. Len(text) \in S
    <2> HIDE DEF S
    <2> QED  BY <1>1, <1>3, <1>4, SetInduction
  <1> QED  BY <1>1, <1>2, <1>5

\* Clearing a character goes back to a place with room for a glyph, and leaves
\* it blank.  On a screen whose columns are not multiples of a glyph's width the
\* cursor goes back to another grid than it came from.
LEMMA ClearCharGood ==
    ASSUME NEW t, Good(t)
    PROVE  /\ Good(fbClearChar(t))
           /\ Width % 8 = 0 /\ Fresh(t) => Fresh(fbClearChar(t))
  <1>1. /\ t \in Screens /\ t.x \in Columns /\ t.y \in Rows /\ t.clear \in 0 .. 2
        /\ t.ink \in Inks /\ Whole(t.ink) /\ t.x \in Nat /\ t.y \in Nat
    BY SizesNat DEF Good, Screens, Columns, Rows
  <1>2. CASE AtHome(t)
    BY <1>2 DEF fbClearChar
  <1>3. CASE ~AtHome(t)
    <2> DEFINE w == Width - 8
               y == t.y - 16
               x == t.x - 8
               b == Back(t)
               q == <<b.x, b.y>>
               u == fbClearChar(t)
    <2>1. /\ b \in Screens /\ b.ink = t.ink /\ b.clear = t.clear
          /\ b.x \in Columns /\ b.y \in Rows
          /\ \/ b.x = Width - 8 /\ b.y = t.y - 16 /\ t.x < 8
             \/ b.x = t.x - 8 /\ b.y = t.y
      <3>1. CASE t.x < 8
        <4>1. t.y >= 16 /\ b = [t EXCEPT !.x = w, !.y = y]
          BY <1>1, <1>3, <3>1 DEF AtHome, Back
        <4>2. w \in Columns /\ y \in Rows /\ w \in Nat /\ y \in Nat
          BY <1>1, <4>1, SizesNat DEF Columns, Rows
        <4> HIDE DEF b, w, y
        <4>3. /\ b \in Screens /\ b.x = w /\ b.y = y
              /\ b.clear = t.clear /\ b.ink = t.ink
          BY <1>1, <4>1, <4>2 DEF Screens
        <4> QED  BY <3>1, <4>2, <4>3 DEF w, y
      <3>2. CASE ~(t.x < 8)
        <4>1. b = [t EXCEPT !.x = x]
          BY <3>2 DEF Back
        <4>2. x \in Columns /\ x \in Nat
          BY <1>1, <3>2, SizesNat DEF Columns
        <4> HIDE DEF b, x
        <4>3. b \in Screens /\ b.x = x /\ b.y = t.y /\ b.ink = t.ink
              /\ b.clear = t.clear
          BY <1>1, <4>1, <4>2 DEF Screens
        <4> QED  BY <1>1, <4>2, <4>3 DEF x
      <3> QED  BY <3>1, <3>2
    <2>2. u = [b EXCEPT !.ink = [b.ink EXCEPT ![q] = 0]]
      BY <1>3 DEF fbClearChar
    <2>3. q \in Places /\ q[1] = b.x /\ q[2] = b.y
      <3> HIDE DEF b
      <3> QED  BY <2>1, SizesNat DEF Columns, Rows, Places
    <2> HIDE DEF b, q, u
    <2> DEFINE m == [b.ink EXCEPT ![q] = 0]
    <2>4. m \in Inks /\ \A p \in Places : m[p] = IF p = q THEN 0 ELSE t.ink[p]
      BY <1>1, <2>1, <2>3 DEF Inks
    <2>5. Whole(m)
      <3> HIDE DEF m
      <3> QED  BY <1>1, <2>4, SizesNat DEF Whole
    <2> HIDE DEF m
    <2>6. /\ u \in Screens /\ u.x = b.x /\ u.y = b.y /\ u.clear = t.clear /\ u.ink = m
      BY <2>1, <2>2, <2>4 DEF Screens, m
    <2>7. Good(u)
      BY <2>1, <2>5, <2>6 DEF Good, Screens
    <2>8. ASSUME Width % 8 = 0, Fresh(t)
          PROVE  Fresh(u)
      <3> SUFFICES ASSUME t.clear <= 1, NEW p \in Places
                   PROVE  /\ m[p] <= 1
                          /\ p[2] = b.y /\ p[1] >= b.x => m[p] = 0
                          /\ t.clear = 0 /\ p[2] > b.y => m[p] = 0
        BY <2>6 DEF Fresh
      <3>1. /\ t.ink[p] <= 1 /\ t.ink[p] \in Nat
            /\ p[2] = t.y /\ p[1] >= t.x => t.ink[p] = 0
            /\ t.clear = 0 /\ p[2] > t.y => t.ink[p] = 0
            /\ t.ink[p] > 0 => p[1] <= Width - 8
        BY <1>1, <2>8 DEF Fresh, Whole, Inks
      <3>2. CASE p = q
        BY <2>4, <3>2
      <3>3. CASE p # q
        <4>1. m[p] = t.ink[p]  BY <2>4, <3>3
        <4>2. p[1] \in Nat /\ p[2] \in Nat /\ p = <<p[1], p[2]>> /\ q = <<b.x, b.y>>
              /\ p[1] % 8 = 0 /\ p[2] % 16 = 0 /\ t.x % 8 = 0 /\ t.y % 16 = 0
          BY <1>1, <2>8, SizesNat DEF Places, Columns, Rows, q
        <4>3. CASE b.x = t.x - 8 /\ b.y = t.y
          <5>1. p[2] = b.y /\ p[1] >= b.x => p[1] >= t.x
            BY <1>1, <3>3, <4>2, <4>3
          <5> QED  BY <3>1, <4>1, <4>3, <5>1
        <4>4. CASE b.x = Width - 8 /\ b.y = t.y - 16 /\ t.x < 8
          <5>1. t.x = 0  BY <1>1, <4>2, <4>4
          <5>2. p[2] = b.y /\ p[1] >= b.x => p[1] > Width - 8
            BY <3>3, <4>2, <4>4, SizesNat
          <5>3. p[2] > b.y => p[2] >= t.y
            BY <1>1, <4>2, <4>4
          <5> QED  BY <1>1, <3>1, <4>1, <4>2, <5>1, <5>2, <5>3, SizesNat
        <4> QED  BY <2>1, <4>3, <4>4
      <3> QED  BY <3>2, <3>3
    <2> QED  BY <2>7, <2>8 DEF u
  <1> QED  BY <1>2, <1>3

\* So does whatever a key that goes down prints.
LEMMA PressGood ==
    ASSUME NEW t, Good(t), NEW code
    PROVE  /\ Good(Press(t, code))
           /\ Width % 8 = 0 /\ Fresh(t) => Fresh(Press(t, code))
  <1>1. /\ <<"newline">> \in Seq(Forward) /\ <<" ">> \in Seq(Forward)
        /\ <<"glyph">> \in Seq(Forward)
    BY DEF Forward, Characters
  <1>2. \/ Press(t, code) = printf(t, <<"newline">>)
        \/ Press(t, code) = fbClearChar(t)
        \/ Press(t, code) = printf(t, <<" ">>)
        \/ Press(t, code) = printf(t, <<"glyph">>)
        \/ Press(t, code) = t
    <2>1. CASE code = 28
      BY <2>1 DEF Press, KEYCODE_ENTER, KEYCODE_BACKSPACE, KEYCODE_SPACE
    <2>2. CASE code = 14
      BY <2>2 DEF Press, KEYCODE_ENTER, KEYCODE_BACKSPACE, KEYCODE_SPACE
    <2>3. CASE code = 57
      BY <2>3 DEF Press, KEYCODE_ENTER, KEYCODE_BACKSPACE, KEYCODE_SPACE
    <2>4. CASE code # 28 /\ code # 14 /\ code # 57
      BY <2>4 DEF Press, KEYCODE_ENTER, KEYCODE_BACKSPACE, KEYCODE_SPACE
    <2> QED  BY <2>1, <2>2, <2>3, <2>4
  <1> QED  BY <1>1, <1>2, PrintfGood, ClearCharGood

LEMMA ShowGood ==
    ASSUME NEW t, Good(t), Show(t)
    PROVE  Good(Shown') /\ (Fresh(t) => Fresh(Shown'))
  <1>1. /\ Shown'.x = t.x /\ Shown'.y = t.y
        /\ Shown'.clear = t.clear /\ Shown'.ink = t.ink
        /\ Shown' \in [x : Columns, y : Rows, clear : 0 .. 2, ink : Inks]
    BY DEF Show, Shown, Good
  <1> QED  BY <1>1 DEF Good, Fresh

-----------------------------------------------------------------------------
(* The steps. *)

\* The handler, whatever byte it reads, prints on the cursor itself.
LEMMA HandlerPrints ==
    ASSUME Good(Shown), NEW scancode, intHandlerKB(scancode)
    PROVE  /\ Good(Shown')
           /\ Width % 8 = 0 /\ Fresh(Shown) => Fresh(Shown')
           /\ UNCHANGED caller
           /\ raced' = (raced \/ printing # "copyX")
  <1>1. \/ UNCHANGED screen
        \/ Show(printf(Shown, PrefixMessage))
        \/ Show(Press(Shown, scancode % 128))
        \/ Show(Shown)
    <2>1. keyboardHandle(scancode)  BY DEF intHandlerKB
    <2> QED  BY <2>1 DEF keyboardHandle, PrefixedCode, PlainCode
  <1>2. CASE UNCHANGED screen
    <2>1. Shown' = Shown  BY <1>2 DEF screen, Shown
    <2> QED  BY <2>1 DEF intHandlerKB
  <1>3. CASE Show(printf(Shown, PrefixMessage))
    BY <1>3, PrintfGood, PrefixMessageAssumption, ShowGood DEF intHandlerKB
  <1>4. CASE Show(Press(Shown, scancode % 128))
    BY <1>4, PressGood, ShowGood DEF intHandlerKB
  <1>5. CASE Show(Shown)
    BY <1>5, ShowGood DEF intHandlerKB
  <1> QED  BY <1>1, <1>2, <1>3, <1>4, <1>5

LEMMA KmainPrintsGood ==
    ASSUME ConsoleInv, Putchar, UNCHANGED raced
    PROVE  ConsoleInv' /\ (UnracedInv => UnracedInv')
  <1>1. Good(Shown) /\ x_pos \in Columns /\ y_pos \in Rows
    BY DEF ConsoleInv
  <1>2. CASE CopyX
    <2>1. Shown' = Shown /\ Pending' = Pending
      BY <1>2 DEF CopyX, screen, Shown, Pending
    <2>2. cursor_X \in Columns /\ cursor_X \in Nat
      BY SizesNat DEF Good, Shown, Columns, ConsoleInv, ConsoleTypeOK
    <2> QED  BY <1>2, <2>1, <2>2
            DEF CopyX, screen, ConsoleInv, ConsoleTypeOK, UnracedInv
  <1>3. CASE CopyY
    <2>1. Shown' = Shown /\ Pending' = Pending
      BY <1>3 DEF CopyY, screen, Shown, Pending
    <2>2. cursor_Y \in Rows /\ cursor_Y \in Nat
      BY SizesNat DEF Good, Shown, Rows, ConsoleInv, ConsoleTypeOK
    <2> QED  BY <1>3, <2>1, <2>2
            DEF CopyY, screen, ConsoleInv, ConsoleTypeOK, UnracedInv
  <1>4. CASE Work
    <2> DEFINE u == [Shown EXCEPT !.x = x_pos, !.y = y_pos]
               c == Message[printed + 1]
               t == fb_putchar(u, c)
    <2>1. Good(u)
      BY <1>1 DEF Good, Shown
    <2>2. c \in Forward
      BY <1>4, MessageAssumption DEF Work, ConsoleInv, ConsoleTypeOK
    <2>3. Good(t) /\ (Fresh(u) => Fresh(t))
      <3> HIDE DEF u, c
      <3> QED  BY <2>1, <2>2, PutcharGood
    <2>4. /\ x_pos' = t.x /\ y_pos' = t.y /\ clear' = t.clear /\ ink' = t.ink
          /\ printing = "work" /\ printing' = "storeX"
          /\ UNCHANGED <<cursor_X, cursor_Y, printed>>
      BY <1>4 DEF Work
    <2>5. UnracedInv /\ ~raced => Fresh(u)
      <3> SUFFICES ASSUME UnracedInv, ~raced
                   PROVE  Fresh(u)
        OBVIOUS
      <3>1. printing = "work" /\ x_pos = cursor_X /\ y_pos = cursor_Y
        BY <1>4 DEF Work, UnracedInv
      <3>2. Pending = Shown
        BY <3>1 DEF Pending, Shown
      <3>3. /\ u.x = cursor_X /\ u.y = cursor_Y /\ u.clear = clear /\ u.ink = ink
            /\ Shown.x = cursor_X /\ Shown.y = cursor_Y
            /\ Shown.clear = clear /\ Shown.ink = ink
        BY <3>1 DEF Shown
      <3>4. Fresh(Shown)
        BY <3>2 DEF UnracedInv
      <3> HIDE DEF u
      <3> QED  BY <3>3, <3>4 DEF Fresh
    <2> HIDE DEF t, u, c
    <2>6. t.x \in Columns /\ t.y \in Rows /\ t.x \in Nat /\ t.y \in Nat
          /\ t.clear \in 0 .. 2 /\ t.ink \in Inks /\ Whole(t.ink)
      BY <2>3, SizesNat DEF Good, Columns, Rows
    <2>7. Good(Shown')
      BY <1>1, <2>4, <2>6 DEF Good, Shown
    <2>8. /\ Pending'.x = t.x /\ Pending'.y = t.y
          /\ Pending'.clear = t.clear /\ Pending'.ink = t.ink
      BY <2>4 DEF Pending, Shown
    <2>9. Fresh(t) => Fresh(Pending')
      BY <2>8 DEF Fresh
    <2>10. ConsoleInv'
      BY <2>4, <2>6, <2>7 DEF ConsoleInv, ConsoleTypeOK, Inks
    <2> QED  BY <2>3, <2>4, <2>5, <2>9, <2>10 DEF UnracedInv
  <1>5. CASE StoreX
    <2>1. Pending' = Pending
      BY <1>5 DEF StoreX, Pending, Shown
    <2>2. Good(Shown') /\ x_pos \in Nat
      BY <1>1, <1>5, SizesNat DEF StoreX, Good, Shown, Columns
    <2> QED  BY <1>5, <2>1, <2>2
            DEF StoreX, ConsoleInv, ConsoleTypeOK, UnracedInv
  <1>6. CASE StoreY
    <2>1. Pending' = Pending
      BY <1>6 DEF StoreY, Pending, Shown
    <2>2. Good(Shown') /\ y_pos \in Nat
      BY <1>1, <1>6, SizesNat DEF StoreY, Good, Shown, Rows
    <2>3. Len(Message) \in Nat /\ printed' \in 0 .. Len(Message)
      BY <1>6, MessageAssumption DEF StoreY, ConsoleInv, ConsoleTypeOK
    <2> QED  BY <1>6, <2>1, <2>2, <2>3
            DEF StoreY, ConsoleInv, ConsoleTypeOK, UnracedInv
  <1> QED  BY <1>2, <1>3, <1>4, <1>5, <1>6 DEF Putchar

LEMMA HandlerGood ==
    ASSUME ConsoleInv, NEW scancode, intHandlerKB(scancode)
    PROVE  /\ ConsoleInv'
           /\ Width % 8 = 0 /\ UnracedInv => UnracedInv'
  <1>1. /\ Good(Shown')
        /\ Width % 8 = 0 /\ Fresh(Shown) => Fresh(Shown')
        /\ UNCHANGED <<printing, printed, x_pos, y_pos>>
        /\ raced' = (raced \/ printing # "copyX")
    BY HandlerPrints DEF ConsoleInv, caller
  <1>2. ConsoleInv'
    <2>1. /\ cursor_X' \in Columns /\ cursor_Y' \in Rows /\ clear' \in 0 .. 2
          /\ ink' \in Inks
      BY <1>1 DEF Good, Shown
    <2>2. cursor_X' \in Nat /\ cursor_Y' \in Nat
      BY <2>1, SizesNat DEF Columns, Rows
    <2> QED  BY <1>1, <2>1, <2>2 DEF ConsoleInv, ConsoleTypeOK, Inks
  <1>3. ASSUME Width % 8 = 0, UnracedInv, ~raced'
        PROVE  UnracedInv'
    <2>1. ~raced /\ printing = "copyX"
      BY <1>1, <1>3
    <2>2. Pending = Shown /\ Pending' = Shown'
      BY <1>1, <2>1 DEF Pending, Shown
    <2> QED  BY <1>1, <1>3, <2>1, <2>2 DEF UnracedInv
  <1> QED  BY <1>2, <1>3 DEF UnracedInv

LEMMA ConsoleInitGood ==
    ConsoleInit => ConsoleInv /\ UnracedInv
  <1> SUFFICES ASSUME ConsoleInit
               PROVE  ConsoleInv /\ UnracedInv
    OBVIOUS
  <1>1. 0 \in Columns /\ 0 \in Rows
    BY SizesNat DEF Columns, Rows
  <1>2. ink \in Inks /\ \A p \in Places : ink[p] = 0
    BY DEF ConsoleInit, Inks
  <1>3. Len(Message) \in Nat
    BY MessageAssumption
  <1>4. Good(Shown)
    BY <1>1, <1>2 DEF ConsoleInit, Good, Whole, Shown
  <1>5. Fresh(Pending)
    BY <1>2 DEF ConsoleInit, Fresh, Pending, Shown
  <1>6. ConsoleTypeOK
    <2>1. 0 \in Nat /\ 0 \in 0 .. 2 /\ 0 \in 0 .. Len(Message)
      BY <1>3
    <2> QED  BY <1>2, <2>1 DEF ConsoleInit, ConsoleTypeOK, Inks
  <1>7. ConsoleInv
    BY <1>1, <1>4, <1>6 DEF ConsoleInit, ConsoleInv
  <1>8. UnracedInv
    BY <1>5 DEF ConsoleInit, UnracedInv
  <1> QED  BY <1>7, <1>8

LEMMA ConsoleStep ==
    ASSUME ConsoleInv, [KNext]_kvars
    PROVE  /\ ConsoleInv'
           /\ Width % 8 = 0 /\ UnracedInv => UnracedInv'
  <1>1. ASSUME NEW b, intHandlerKB(b)
        PROVE  ConsoleInv' /\ (Width % 8 = 0 /\ UnracedInv => UnracedInv')
    BY <1>1, HandlerGood
  <1>2. ASSUME UNCHANGED <<screen, caller, raced>>
        PROVE  ConsoleInv' /\ (Width % 8 = 0 /\ UnracedInv => UnracedInv')
    <2>1. Shown' = Shown /\ Pending' = Pending
      BY <1>2 DEF screen, caller, Shown, Pending
    <2> QED  BY <1>2, <2>1
            DEF screen, caller, ConsoleInv, ConsoleTypeOK, UnracedInv
  <1>3. CASE KmainPrints
    BY <1>3, KmainPrintsGood DEF KmainPrints
  <1>4. \/ \E b : intHandlerKB(b)
        \/ UNCHANGED <<screen, caller, raced>>
        \/ KmainPrints
    BY DEF KNext, KeyboardByte, StrayInterrupt, StolenByte, MouseServed, kvars
  <1> QED  BY <1>1, <1>2, <1>3, <1>4

-----------------------------------------------------------------------------
(* The driver and the keyboard, of which the console knows nothing. *)

\* What the codes of the left shift key, 42 and 170, make of how it stands.
ShiftMoved(b, old, new) == /\ new \in BOOLEAN
                           /\ b = 42 => new
                           /\ b = 170 => ~new
                           /\ b \notin {42, 170} => new = old

\* What the keyboard does as it sends a byte, told by the byte.
LEMMA Sent ==
    ASSUME NEW b \in Codes, Sends(b), TypeOK
    PROVE  /\ b \in 0 .. 255
           /\ prefixSent' \in BOOLEAN /\ (prefixSent' <=> b = 224)
           /\ prefixSent => held' = held
           /\ ~prefixSent => ShiftMoved(b, held, held')
  <1> USE DEF TypeOK, KEYCODE_LSHIFT, ShiftMoved
  <1>1. CASE b \in Keys /\ KeyDown(b)
    <2>1. b \in 0 .. 127 /\ ~prefixSent /\ prefixSent' = prefixSent
          /\ held' = (held \/ b = 42)
      BY <1>1, KeysAssumption DEF KeyDown
    <2>2. b = 42 => held'
      BY <2>1
    <2>3. b # 42 => held' = held
      BY <2>1
    <2> QED  BY <2>1, <2>2, <2>3
  <1>2. CASE b \in Released /\ KeyUp(b - 128)
    <2>1. PICK k \in Keys : b = k + 128
      BY <1>2 DEF Released
    <2>2. k \in 0 .. 127 /\ k # 96 /\ b - 128 = k
      BY <2>1, KeysAssumption
    <2>3. ~prefixSent /\ prefixSent' = prefixSent /\ held' = (held /\ k # 42)
      BY <1>2, <2>2 DEF KeyUp
    <2>4. k = 42 => ~held'
      BY <2>3
    <2>5. k # 42 => held' = held
      BY <2>3
    <2> QED  BY <2>1, <2>2, <2>3, <2>4, <2>5
  <1>3. CASE b = 224 /\ Prefix
    <2>1. b = 224 /\ ~prefixSent /\ prefixSent' = TRUE /\ held' = held
      BY <1>3 DEF Prefix
    <2> QED  BY <2>1
  <1>4. CASE b \in PrefixedCodes /\ Prefixed
    <2>1. b \in 0 .. 255 /\ b # 224
      BY <1>4, KeysAssumption
    <2>2. prefixSent /\ prefixSent' = FALSE /\ held' = held
      BY <1>4 DEF Prefixed
    <2> QED  BY <2>1, <2>2
  <1> QED  BY <1>1, <1>2, <1>3, <1>4 DEF Sends

\* What the driver makes of a byte.
LEMMA Taken ==
    ASSUME NEW b \in 0 .. 255, keyboardHandle(b), TypeOK
    PROVE  /\ e0_prefix' \in BOOLEAN /\ (e0_prefix' <=> b = 224)
           /\ lshift' \in BOOLEAN /\ rshift' \in BOOLEAN
           /\ e0_prefix => lshift' = lshift
           /\ ~e0_prefix => ShiftMoved(b, lshift, lshift')
  <1> USE DEF TypeOK, ShiftMoved
  <1>1. CASE b = 224
    <2>1. e0_prefix' = TRUE /\ lshift' = lshift /\ rshift' = rshift
      BY <1>1 DEF keyboardHandle
    <2> QED  BY <1>1, <2>1
  <1>2. CASE b # 224 /\ e0_prefix
    <2>1. e0_prefix' = FALSE /\ lshift' = lshift /\ rshift' = rshift
      BY <1>2 DEF keyboardHandle, PrefixedCode
    <2> QED  BY <1>2, <2>1
  <1>3. CASE b # 224 /\ ~e0_prefix
    <2>1. PlainCode(b)
      BY <1>3 DEF keyboardHandle
    <2>2. Shifts(b % 128, b < 128) /\ e0_prefix' = e0_prefix
      BY <2>1 DEF PlainCode
    <2>3. CASE b < 128
      <3>1. b % 128 = b
        BY <2>3
      <3>2. lshift' = (IF b = 42 THEN TRUE ELSE lshift) /\ rshift' \in BOOLEAN
        BY <2>2, <2>3, <3>1 DEF Shifts, KEYCODE_LSHIFT
      <3>3. b # 170 /\ e0_prefix' \in BOOLEAN /\ ~e0_prefix'
        BY <1>3, <2>2, <2>3
      <3>4. ShiftMoved(b, lshift, lshift')
        BY <3>2, <3>3
      <3> QED  BY <1>3, <3>2, <3>3, <3>4
    <2>4. CASE ~(b < 128)
      <3>1. b % 128 = 42 <=> b = 170
        BY <2>4
      <3>2. (b < 128) = FALSE
        BY <2>4
      <3>3. lshift' = (IF b % 128 = 42 THEN FALSE ELSE lshift) /\ rshift' \in BOOLEAN
        BY <2>2, <3>2 DEF Shifts, KEYCODE_LSHIFT
      <3>4. b # 42 /\ e0_prefix' \in BOOLEAN /\ ~e0_prefix'
        BY <1>3, <2>2, <2>4
      <3>5. ShiftMoved(b, lshift, lshift')
        BY <3>1, <3>3, <3>4
      <3> QED  BY <1>3, <3>3, <3>4, <3>5
    <2> QED  BY <2>3, <2>4
  <1> QED  BY <1>1, <1>2, <1>3

LEMMA DriverStep ==
    ASSUME DriverInv, [KNext]_kvars, ConsoleTypeOK'
    PROVE  DriverInv'
  <1> USE DEF DriverInv, TypeOK, LeftShiftFollowsKey, PrefixInStep
  <1>1. ASSUME NEW b \in Codes, KeyboardByte(b)
        PROVE  DriverInv'
    <2>1. /\ Sends(b) /\ keyboardHandle(b)
          /\ unsure' = FALSE /\ missed' = IF IsLeftShift(b) THEN unsure ELSE missed
          /\ strays' \subseteq Ports
      BY <1>1 DEF KeyboardByte, intHandlerKB, Settle
    <2>2. /\ b \in 0 .. 255
          /\ prefixSent' \in BOOLEAN /\ (prefixSent' <=> b = 224)
          /\ prefixSent => held' = held
          /\ ~prefixSent => ShiftMoved(b, held, held')
      BY <2>1, Sent
    <2>3. /\ e0_prefix' \in BOOLEAN /\ (e0_prefix' <=> b = 224)
          /\ lshift' \in BOOLEAN /\ rshift' \in BOOLEAN
          /\ e0_prefix => lshift' = lshift
          /\ ~e0_prefix => ShiftMoved(b, lshift, lshift')
      BY <2>1, <2>2, Taken
    <2>4. held' \in BOOLEAN
      BY <2>2 DEF ShiftMoved
    <2>5. (b % 128 = 42) <=> b \in {42, 170}
      BY <2>2
    <2>6. ~missed' => lshift' = held'
      <3>1. CASE IsLeftShift(b)
        <4>1. ~prefixSent /\ b \in {42, 170}
          BY <3>1, <2>5 DEF IsLeftShift, KEYCODE_LSHIFT
        <4>2. ShiftMoved(b, held, held')
          BY <2>2, <4>1
        <4>3. ASSUME ~unsure
              PROVE  ShiftMoved(b, lshift, lshift')
          BY <2>3, <4>1, <4>3
        <4>4. missed' = unsure
          BY <2>1, <3>1
        <4> QED  BY <2>3, <2>4, <4>1, <4>2, <4>3, <4>4 DEF ShiftMoved
      <3>2. CASE ~IsLeftShift(b)
        <4>1. prefixSent \/ b \notin {42, 170}
          BY <3>2, <2>5 DEF IsLeftShift, KEYCODE_LSHIFT
        <4>2. missed' = missed
          BY <2>1, <3>2
        <4>3. ASSUME ~missed
              PROVE  lshift' = held'
          <5>1. e0_prefix = prefixSent /\ lshift = held
            BY <4>3
          <5>2. CASE prefixSent
            BY <5>1, <5>2, <2>2, <2>3
          <5>3. CASE ~prefixSent
            BY <5>1, <5>3, <4>1, <2>2, <2>3 DEF ShiftMoved
          <5> QED  BY <5>2, <5>3
        <4> QED  BY <4>2, <4>3
      <3> QED  BY <3>1, <3>2
    <2> QED  BY <2>1, <2>2, <2>3, <2>4, <2>6
  <1>2. ASSUME NEW b \in StrayBytes, StrayInterrupt(b)
        PROVE  DriverInv'
    <2>1. /\ keyboardHandle(b) /\ b \in 0 .. 255
          /\ unsure' = TRUE /\ missed' = TRUE
          /\ UNCHANGED device
      BY <1>2, KeysAssumption DEF StrayInterrupt, intHandlerKB
    <2>2. strays' \subseteq Ports
      BY <1>2 DEF StrayInterrupt, Settle, Pass, Ports, Other
    <2>3. e0_prefix' \in BOOLEAN /\ lshift' \in BOOLEAN /\ rshift' \in BOOLEAN
      BY <2>1, Taken
    <2> QED  BY <2>1, <2>2, <2>3 DEF device
  <1>3. ASSUME NEW b \in Codes, StolenByte(b)
        PROVE  DriverInv'
    <2>1. /\ Sends(b) /\ unsure' = TRUE /\ missed' = TRUE
          /\ UNCHANGED <<lshift, rshift, e0_prefix>>
      BY <1>3 DEF StolenByte, keyboard
    <2>2. strays' \subseteq Ports
      BY <1>3 DEF StolenByte, Pass, Ports, Other
    <2>3. held' \in BOOLEAN /\ prefixSent' \in BOOLEAN
      BY <2>1, Sent DEF ShiftMoved
    <2> QED  BY <2>1, <2>2, <2>3
  <1>4. CASE MouseServed
    BY <1>4 DEF MouseServed, Settle, keyboard, device
  <1>5. CASE KmainPrints
    BY <1>5 DEF KmainPrints, keyboard, device
  <1>6. CASE UNCHANGED kvars
    BY <1>6 DEF kvars, keyboard, device
  <1> QED  BY <1>1, <1>2, <1>3, <1>4, <1>5, <1>6 DEF KNext

-----------------------------------------------------------------------------
(* The theorems. *)

\* Every glyph on the screen is whole, and a call of fb_putchar starts where
\* one has room, whatever kmain and the handler do to each other's stores of
\* cursor_position.
THEOREM CursorStaysOnScreen == KSpec => []CursorOnScreen
  <1>1. KInit => ConsoleInv
    BY ConsoleInitGood DEF KInit
  <1>2. ConsoleInv /\ [KNext]_kvars => ConsoleInv'
    BY ConsoleStep
  <1>3. ConsoleInv => CursorOnScreen
    BY SizesNat DEF ConsoleInv, Good, Whole, Shown, Columns, Rows, CursorOnScreen
  <1> QED  BY <1>1, <1>2, <1>3, PTL DEF KSpec

\* Whatever bytes PS2MouseInit polled away, the mouse's handler takes or a
\* stray request reads twice: keyboardHandle's e0_prefix is true of the
\* keyboard again after one more byte of the keyboard, and its lshift once the
\* left shift key has moved after that.
THEOREM DriverFollowsKeyboard == KSpec => []DriverInv
  <1>1. KInit => ConsoleInv /\ DriverInv
    <2> SUFFICES ASSUME KInit
                 PROVE  ConsoleInv /\ DriverInv
      OBVIOUS
    <2>1. ConsoleInv /\ ConsoleTypeOK
      BY ConsoleInitGood DEF KInit, ConsoleInv
    <2>2. TypeOK
      BY <2>1 DEF KInit, SInit, TypeOK
    <2> QED  BY <2>1, <2>2
            DEF KInit, DriverInv, LeftShiftFollowsKey, PrefixInStep
  <1>2. ConsoleInv /\ DriverInv /\ [KNext]_kvars => (ConsoleInv /\ DriverInv)'
    <2> SUFFICES ASSUME ConsoleInv, DriverInv, [KNext]_kvars
                 PROVE  (ConsoleInv /\ DriverInv)'
      OBVIOUS
    <2>1. ConsoleInv'  BY ConsoleStep
    <2>2. ConsoleTypeOK'  BY <2>1 DEF ConsoleInv
    <2> QED  BY <2>1, <2>2, DriverStep
  <1> QED  BY <1>1, <1>2, PTL DEF KSpec

\* No glyph is printed over another before the screen has wrapped twice, on a
\* screen that is a whole number of glyphs wide: fb_putchar prints on what is
\* blank, unless a handler printed between its copies and its stores.
THEOREM NothingOverprinted ==
    ASSUME Width % 8 = 0
    PROVE  KSpec => []NoOverprint
  <1>1. KInit => ConsoleInv /\ UnracedInv
    BY ConsoleInitGood DEF KInit
  <1>2. ConsoleInv /\ UnracedInv /\ [KNext]_kvars => (ConsoleInv /\ UnracedInv)'
    BY ConsoleStep
  <1>3. ConsoleInv /\ UnracedInv => NoOverprint
    BY DEF UnracedInv, Fresh, Pending, Shown, NoOverprint
  <1> QED  BY <1>1, <1>2, <1>3, PTL DEF KSpec
=============================================================================
