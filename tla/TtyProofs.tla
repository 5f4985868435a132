----------------------------- MODULE TtyProofs -----------------------------
(* For any sizes of the ring, the line queue and the screen and any writers  *)
(* and readers: the ring of events never runs empty under input_read, no     *)
(* cell of the shown terminal is stale and unmarked, the cooked counter is   *)
(* the number of complete lines a reader finds in the queue, the queue of    *)
(* the first terminal is a line discipline, and all indexes stay inside      *)
(* their buffers.                                                            *)
EXTENDS Tty, FiniteSetTheorems, SequenceTheorems, WellFoundedInduction, TLAPS

RingOK == /\ front \in Slots /\ rear \in Slots /\ eventSem \in Nat
          /\ DOMAIN at = Actors

EventInv == RingOK /\ EventsCounted

\* The permits on their way, and the events in the ring.
Posting == IF daemon = "post" THEN 1 ELSE 0
Taking  == IF at[T] = "pop" THEN 1 ELSE 0
InRing  == (rear - front) % NEvents

-----------------------------------------------------------------------------
\* One step around a ring, and the distance between two of its places.
LEMMA RingNext ==
  ASSUME NEW N \in Nat \ {0}, NEW a \in 0 .. (N - 1)
  PROVE  (a + 1) % N = IF a = N - 1 THEN 0 ELSE a + 1
OBVIOUS

LEMMA RingDistance ==
  ASSUME NEW N \in Nat \ {0}, NEW a \in 0 .. (N - 1), NEW b \in 0 .. (N - 1)
  PROVE  (a - b) % N = IF a >= b THEN a - b ELSE a - b + N
OBVIOUS

\* An event more at the rear, or one less at the front, changes the number of
\* events in the ring by one.
LEMMA RingGrows ==
  ASSUME NEW N \in Nat \ {0}, NEW r \in 0 .. (N - 1), NEW f \in 0 .. (N - 1),
         (r + 1) % N # f
  PROVE  /\ (r + 1) % N \in 0 .. (N - 1)
         /\ (((r + 1) % N) - f) % N = ((r - f) % N) + 1
<1> DEFINE s == IF r = N - 1 THEN 0 ELSE r + 1
<1>1. (r + 1) % N = s
  BY RingNext
<1>2. s \in 0 .. (N - 1) /\ s # f
  BY <1>1
<1>3. (s - f) % N = IF s >= f THEN s - f ELSE s - f + N
  BY <1>2, RingDistance
<1>4. (r - f) % N = IF r >= f THEN r - f ELSE r - f + N
  BY RingDistance
<1>5. (IF s >= f THEN s - f ELSE s - f + N) = (IF r >= f THEN r - f ELSE r - f + N) + 1
  BY <1>2
<1> HIDE DEF s
<1> QED BY <1>1, <1>2, <1>3, <1>4, <1>5

LEMMA RingShrinks ==
  ASSUME NEW N \in Nat \ {0}, NEW r \in 0 .. (N - 1), NEW f \in 0 .. (N - 1), r # f,
         NEW g, g = (f + 1) % N
  PROVE  /\ g \in 0 .. (N - 1)
         /\ (r - g) % N = ((r - f) % N) - 1
<1>1. g = IF f = N - 1 THEN 0 ELSE f + 1
  BY RingNext
<1>2. g \in 0 .. (N - 1)
  BY <1>1
<1>3. (r - g) % N = IF r >= g THEN r - g ELSE r - g + N
  BY <1>2, RingDistance
<1>4. (r - f) % N = IF r >= f THEN r - f ELSE r - f + N
  BY RingDistance
<1>5. (IF r >= g THEN r - g ELSE r - g + N) = (IF r >= f THEN r - f ELSE r - f + N) - 1
  BY <1>1
<1> QED BY <1>2, <1>3, <1>4, <1>5

-----------------------------------------------------------------------------
LEMMA EventInit == Init => EventInv
<1> SUFFICES ASSUME Init PROVE EventInv
    OBVIOUS
<1>1. front = 0 /\ rear = 0 /\ eventSem = 0 /\ 0 \in Slots
  BY RingAssumption DEF Init, InputInit, Slots
<1>2. (0 - 0) % NEvents = 0
  BY RingDistance, RingAssumption
<1>3. at[T] = "start" /\ DOMAIN at = Actors
  BY DEF Init, Actors
<1> QED BY <1>1, <1>2, <1>3 DEF Init, InputInit, EventInv, RingOK, EventsCounted

\* What the daemons and readers do besides the ring.
LEMMA EventFrame ==
  ASSUME EventInv, UNCHANGED <<front, rear, eventSem, DOMAIN at>>,
         (daemon' = "post") <=> (daemon = "post"),
         (at'[T] = "pop") <=> (at[T] = "pop"), panic' # "input_queue_empty"
  PROVE  EventInv'
BY DEF EventInv, RingOK, EventsCounted

LEMMA EventCount ==
  ASSUME RingOK
  PROVE  /\ (rear - front) % NEvents \in Nat
         /\ (rear - front) % NEvents = 0 <=> is_empty
<1>1. (rear - front) % NEvents = IF rear >= front THEN rear - front ELSE rear - front + NEvents
  BY RingDistance, RingAssumption DEF RingOK, Slots
<1>2. NEvents \in Nat \ {0} /\ rear \in 0 .. (NEvents - 1) /\ front \in 0 .. (NEvents - 1)
  BY RingAssumption DEF RingOK, Slots
<1> QED BY <1>1, <1>2 DEF is_empty

LEMMA EventEquation ==
  EventInv <=> RingOK /\ panic # "input_queue_empty" /\ eventSem + Posting + Taking = InRing
BY DEF EventInv, EventsCounted, Posting, Taking, InRing

LEMMA EventNumbers ==
  ASSUME RingOK
  PROVE  Posting \in Int /\ Taking \in Int /\ InRing \in Int /\ eventSem \in Int
<1>1. InRing \in Int
  BY EventCount DEF InRing
<1> QED BY <1>1 DEF Posting, Taking, RingOK

\* What a step adds to the three sorts of permits it adds to the ring.
LEMMA EventStepCount ==
  ASSUME EventInv, RingOK', panic' # "input_queue_empty",
         NEW d \in Int, NEW p \in Int, NEW h \in Int,
         eventSem' = eventSem + d, Posting' = Posting + p, Taking' = Taking + h,
         InRing' = InRing + d + p + h
  PROVE  EventInv'
<1>1. RingOK /\ eventSem + Posting + Taking = InRing
  BY EventEquation
<1>2. eventSem' + Posting' + Taking' = InRing'
  BY <1>1, EventNumbers
<1>3. EventInv' <=> RingOK' /\ panic' # "input_queue_empty" /\ eventSem' + Posting' + Taking' = InRing'
  BY DEF EventInv, EventsCounted, Posting, Taking, InRing
<1> QED BY <1>2, <1>3

LEMMA EventInputStep ==
  ASSUME EventInv, InputStep, UNCHANGED ttyVars
  PROVE  EventInv'
<1> USE DEF ttyVars
<1>1. CASE push_event /\ ~Full
  <2>1. /\ rear' \in Slots
        /\ (rear' - front) % NEvents = InRing + 1
    BY <1>1, RingGrows, RingAssumption DEF push_event, Full, EventInv, RingOK, Slots, InRing
  <2>2. daemon = "push" /\ daemon' = "post" /\ UNCHANGED <<front, eventSem, panic, at>>
    BY <1>1 DEF push_event
  <2>3. RingOK' /\ panic' # "input_queue_empty"
    BY <2>1, <2>2 DEF EventInv, RingOK, EventsCounted
  <2>4. eventSem' = eventSem + 0 /\ InRing' = InRing + 0 + 1 + 0
    BY <2>1, <2>2, EventNumbers DEF EventInv, InRing
  <2>5. Posting' = Posting + 1 /\ Taking' = Taking + 0
    BY <2>2 DEF Posting, Taking
  <2> QED BY <2>3, <2>4, <2>5, EventStepCount
<1>2. CASE push_event /\ Full
  <2>1. /\ UNCHANGED <<front, rear, eventSem, daemon, at>>
        /\ panic' = "input_queue_full"
    BY <1>2 DEF push_event, ring
  <2> QED BY <2>1, EventFrame
<1>3. CASE PostEvent
  <2>1. /\ daemon = "post" /\ daemon' # "post" /\ eventSem' = eventSem + 1
        /\ UNCHANGED <<front, rear, panic, at>>
    BY <1>3 DEF PostEvent, Posted, ring
  <2>2. RingOK' /\ panic' # "input_queue_empty"
    BY <2>1, RingAssumption DEF EventInv, RingOK, EventsCounted, Slots
  <2>3. InRing' = InRing + 1 + (-1) + 0
    BY <2>1, EventNumbers DEF EventInv, InRing
  <2>4. Posting' = Posting + (-1) /\ Taking' = Taking + 0
    BY <2>1 DEF Posting, Taking
  <2> QED BY <2>1, <2>2, <2>3, <2>4, EventStepCount
<1>4. CASE (\E e \in load.keys : input_keydown(e)) \/ CheckTime \/ Sleep \/ input_notify
  <2>1. /\ UNCHANGED <<front, rear, eventSem, panic, at>>
        /\ (daemon' = "post") <=> (daemon = "post")
    BY <1>4 DEF input_keydown, CheckTime, Sleep, input_notify, ring
  <2> QED BY <2>1, EventFrame DEF EventInv, EventsCounted
<1> QED BY <1>1, <1>2, <1>3, <1>4 DEF InputStep

\* The terminal's daemon takes an event: the permit it holds stands for one.
LEMMA EventTaken ==
  ASSUME EventInv, AwaitEvent \/ PopEvent
  PROVE  EventInv'
<1>1. T \in DOMAIN at
  BY DEF EventInv, RingOK, Actors
<1>2. CASE AwaitEvent
  <2>1. /\ at[T] = "event" /\ at' = [at EXCEPT ![T] = "pop"]
        /\ eventSem > 0 /\ eventSem' = eventSem - 1
        /\ UNCHANGED <<front, rear, daemon, panic>>
    BY <1>2 DEF AwaitEvent, WaitEvent, Goto, ring
  <2>2. RingOK' /\ panic' # "input_queue_empty"
    BY <2>1, RingAssumption DEF EventInv, RingOK, EventsCounted, Slots
  <2>3. /\ eventSem' = eventSem + (-1)
        /\ InRing' = InRing + (-1) + 0 + 1
    BY <2>1, EventNumbers DEF EventInv, InRing
  <2>4. Posting' = Posting + 0 /\ Taking' = Taking + 1
    BY <1>1, <2>1 DEF Posting, Taking
  <2> QED BY <2>2, <2>3, <2>4, EventStepCount
<1>3. CASE PopEvent
  <2>1. at[T] = "pop" /\ UNCHANGED <<rear, eventSem, daemon>>
    BY <1>3 DEF PopEvent, NoEvent, TakeEvent, inputVars, ring
  <2>2. Posting \in Nat /\ Taking = 1
    BY <2>1 DEF Posting, Taking
  <2>3. ~is_empty
    <3>1. eventSem + Posting + Taking = InRing /\ RingOK
      BY EventEquation
    <3>2. eventSem \in Nat /\ (InRing = 0 <=> is_empty)
      BY <3>1, EventCount DEF RingOK, InRing
    <3> QED BY <3>1, <3>2, <2>2
  <2>4. /\ front' = (front + 1) % NEvents /\ UNCHANGED panic
        /\ \E where \in {"cook", "switch", "blink", "event"} : at' = [at EXCEPT ![T] = where]
    <3> USE <1>3, <2>3 DEF PopEvent, TakeEvent
    <3>1. front' = (front + 1) % NEvents /\ UNCHANGED panic
      OBVIOUS
    <3>2. \E where \in {"cook", "switch", "blink", "event"} : Goto(T, where)
      OBVIOUS
    <3> QED BY <3>1, <3>2 DEF Goto
  <2>5. /\ front' \in Slots
        /\ (rear - front') % NEvents = InRing - 1
    <3>1. NEvents \in Nat \ {0} /\ rear \in 0 .. (NEvents - 1) /\ front \in 0 .. (NEvents - 1)
      BY RingAssumption DEF EventInv, RingOK, Slots
    <3>2. rear # front
      BY <2>3 DEF is_empty
    <3>3. front' = (front + 1) % NEvents
      BY <2>4
    <3>4. /\ front' \in 0 .. (NEvents - 1)
          /\ (rear - front') % NEvents = ((rear - front) % NEvents) - 1
      BY <3>1, <3>2, <3>3, RingShrinks, Zenon
    <3> QED BY <3>4 DEF Slots, InRing
  <2>6. RingOK' /\ panic' # "input_queue_empty"
    BY <2>1, <2>4, <2>5 DEF EventInv, RingOK, EventsCounted
  <2>7. /\ eventSem' = eventSem + 0
        /\ InRing' = InRing + 0 + 0 + (-1)
    BY <2>1, <2>5, EventNumbers DEF EventInv, InRing
  <2>8. Posting' = Posting + 0 /\ Taking' = Taking + (-1)
    BY <1>1, <2>1, <2>4 DEF Posting, Taking
  <2> QED BY <2>6, <2>7, <2>8, EventStepCount
<1> QED BY <1>2, <1>3

\* All other steps of the daemon, and those of writers and readers.
LEMMA EventOthers ==
  ASSUME EventInv, panic = "no",
         \/ tty_cook \/ tty_queue_full \/ Start \/ SwitchMark \/ SwitchTo \/ Blink
         \/ \E a \in Actors : StartWrite(a) \/ EndWrite(a) \/ Draw(a) \/ Clear(a)
         \/ \E w \in Writers, ch \in load.written : tty_write(w, ch)
         \/ \E r \in Readers : WaitLine(r) \/ \E n \in Counts : ReadLine(r, n)
  PROVE  EventInv'
<1>1. UNCHANGED <<front, rear, eventSem, daemon>> /\ panic' # "input_queue_empty"
  BY DEF tty_cook, tty_queue_full, Start, SwitchMark, SwitchTo, Blink, StartWrite, EndWrite, Draw, Clear,
         tty_write, WaitLine, ReadLine, inputVars, ring
<1>2. \/ UNCHANGED at
      \/ \E a \in Actors, where \in {"blink", "current", "write", "render", "putc", "clear", "out", "event"} :
           /\ at' = [at EXCEPT ![a] = where]
           /\ a = T => at[T] # "pop"
  <2>1. CASE tty_cook \/ Start \/ SwitchMark \/ SwitchTo \/ Blink
    BY <2>1 DEF tty_cook, Start, SwitchMark, SwitchTo, Blink, Goto, Actors
  <2>2. CASE tty_queue_full \/ \E r \in Readers : WaitLine(r) \/ \E n \in Counts : ReadLine(r, n)
    BY <2>2 DEF tty_queue_full, WaitLine, ReadLine, ttyVars
  <2>3. ASSUME NEW a \in Actors, StartWrite(a) \/ EndWrite(a) \/ Draw(a) \/ Clear(a)
        PROVE  <1>2!2
    BY <2>3 DEF StartWrite, EndWrite, Draw, Clear, Goto
  <2>4. CASE \E w \in Writers, ch \in load.written : tty_write(w, ch)
    BY <2>4, TtyAssumption DEF tty_write, Goto, Actors
  <2> QED BY <2>1, <2>2, <2>3, <2>4
<1>3. DOMAIN at' = DOMAIN at /\ ((at'[T] = "pop") <=> (at[T] = "pop"))
  BY <1>2 DEF EventInv, RingOK, Actors
<1> QED BY <1>1, <1>3, EventFrame

THEOREM EventStep == EventInv /\ [Next]_vars => EventInv'
<1> SUFFICES ASSUME EventInv, [Next]_vars PROVE EventInv'
    OBVIOUS
<1>1. CASE UNCHANGED vars
  BY <1>1, EventFrame DEF vars, inputVars, ring, ttyVars, EventInv, EventsCounted
<1> QED BY <1>1, EventInputStep, EventTaken, EventOthers DEF Next

\* The counter of event_sem, with the permits on their way, is the number of
\* events in the ring: input_read finds an event whenever it was let through.
THEOREM NeverReadsEmpty == Spec => []EventsCounted
<1>1. EventInv => EventsCounted
  BY DEF EventInv
<1> QED BY <1>1, EventInit, EventStep, PTL DEF Spec
-----------------------------------------------------------------------------
(* The screen.  Nobody scrolls, erases, marks or switches so that a cell is *)
(* left wrong on the terminal on display and is not marked to be drawn.     *)

Held(a) == at[a] \in {"putc", "clear"}

\* What the screen shows in cell x is what it should.
Right(x) == screen[x] = cells[shown][x] \/ (x = cursor[shown] /\ screen[x] = Block)

Positions == {"start", "event", "pop", "cook", "switch", "current", "blink",
              "out", "write", "putc", "render", "clear"}

ScreenType ==
  /\ load \in Loads
  /\ at \in [Actors -> Positions] /\ DOMAIN out = Actors
  /\ lock \in [Terms -> {0, 1}]
  /\ cells \in [Terms -> [Cells -> Letters \cup {NUL}]]
  /\ dirty \in [Terms -> [Cells -> BOOLEAN]]
  /\ screen \in [Cells -> Letters \cup {NUL, Block}]
  /\ cursor \in [Terms -> 0 .. Size]
  /\ tty \in Terms /\ shown \in Terms

\* Who is inside tty_putc or tty_render has the lock of its terminal, and only
\* there may the cursor be past the last cell.
LocksOK ==
  /\ \A a \in Actors : Held(a) => lock[My(a)] = 0
  /\ \A a, b \in Actors : a # b /\ Held(a) /\ Held(b) => My(a) # My(b)
  /\ \A t \in Terms : cursor[t] = Size => lock[t] = 0
  /\ \A a \in Actors : at[a] = "clear" => cursor[My(a)] # Size

\* The daemon's terminal is the one on display, but in the middle of a switch.
DaemonOK ==
  /\ at[T] = "current" <=> tty # shown
  /\ at[T] = "switch" => ev \in Terms \ {tty}

\* The terminal on display, by who has its lock.
ShownOK ==
  shown \notin lost =>
    /\ lock[shown] = 1 => \A x \in Cells : dirty[shown][x] \/ Right(x)
    /\ \A a \in Actors : My(a) = shown /\ at[a] = "putc" =>
         \/ cursor[shown] = Size
         \/ \A x \in Cells : dirty[shown][x] \/ Right(x) \/ x \in Marked(cursor[shown], out[a])
    /\ \A a \in Actors : My(a) = shown /\ at[a] = "clear" => \A x \in Cells : Right(x)

\* The terminal that is about to be on display: all of it is to be drawn.
ComingOK ==
  at[T] = "current" /\ tty \notin lost =>
    /\ \A x \in Cells : dirty[tty][x]
    /\ \A a \in Actors : My(a) = tty => at[a] # "clear"

ScreenInv == ScreenType /\ LocksOK /\ DaemonOK /\ ShownOK /\ ComingOK

-----------------------------------------------------------------------------
LEMMA Sizes == Columns \in Nat \ {0} /\ Lines \in Nat /\ Size \in Nat /\ Size > 0
<1>1. Columns \in Nat /\ Columns > 0 /\ Lines \in Nat /\ Lines > 0
  BY TtyAssumption
<1>2. Columns * Lines \in Nat /\ Columns * Lines > 0
  BY <1>1
<1> QED BY <1>1, <1>2 DEF Size

\* The start of a line: a multiple of Columns, and every cell is in its line.
LEMMA LineStart ==
  ASSUME NEW p \in Nat
  PROVE  /\ Column(p) \in 0 .. Columns - 1 /\ Column(p) <= p
         /\ Column(p - Column(p)) = 0
         /\ Column(p) = 0 => p \in Line(p)
         /\ \A q \in Nat : Column(q) = 0 /\ q = p - Column(p) => p \in Line(q)
<1>1. Columns \in Nat /\ Columns > 0
  BY Sizes
<1>2. /\ p % Columns \in 0 .. Columns - 1 /\ p % Columns <= p
      /\ (p - (p % Columns)) % Columns = 0
  <2> DEFINE k == p \div Columns
             r == p % Columns
  <2>1. k \in Nat /\ p = Columns * k + r /\ r \in 0 .. Columns - 1
    BY <1>1
  <2> DEFINE q == Columns * k
             m == q \div Columns
             n == q % Columns
  <2>2. q \in Nat
    BY <1>1, <2>1
  <2>3. m \in Nat /\ q = Columns * m + n /\ n \in 0 .. Columns - 1
    BY <1>1, <2>2
  <2> HIDE DEF k, r, m, n
  <2>4. n = 0
    <3>1. Columns * (k - m) = n
      BY <1>1, <2>1, <2>3
    <3>2. k - m >= 1 => Columns * (k - m) >= Columns
      BY <1>1, <2>1, <2>3
    <3>3. k - m <= -1 => Columns * (k - m) <= -Columns
      BY <1>1, <2>1, <2>3
    <3> QED BY <1>1, <2>1, <2>3, <3>1, <3>2, <3>3
  <2>5. p - r = q /\ r <= p
    BY <1>1, <2>1, <2>2
  <2> QED BY <2>1, <2>4, <2>5 DEF r, n
<1>3. ASSUME NEW q \in Nat, Column(q) = 0, q = p - Column(p) PROVE p \in Line(q)
  <2>1. p = q - Column(q) + Column(p)
    BY <1>2, <1>3 DEF Column
  <2> QED BY <2>1, <1>2 DEF Line, Column
<1>4. Column(p) = 0 => p \in Line(p)
  BY <1>3, <1>2 DEF Column
<1> QED BY <1>2, <1>3, <1>4 DEF Column

\* The line after that of a cell of the screen starts on the screen or right
\* behind it.
LEMMA NextLine ==
  ASSUME NEW p \in Cells
  PROVE  /\ p - Column(p) + Columns \in 0 .. Size
         /\ Column(p - Column(p) + Columns - Columns) = 0
<1>1. Columns \in Nat /\ Columns > 0 /\ Lines \in Nat /\ p \in Nat /\ p < Columns * Lines
  BY Sizes DEF Cells, Size
<1> DEFINE k == p \div Columns
<1>2. k \in Nat /\ p = Columns * k + Column(p) /\ Column(p) \in 0 .. Columns - 1
  BY <1>1 DEF Column
<1> HIDE DEF k
<1>3. Column(p) \in Nat /\ Columns * k \in Nat /\ Columns * k < Columns * Lines
  BY <1>1, <1>2
<1>4. k < Lines
  BY <1>1, <1>2, <1>3
<1>5. Columns * (k + 1) <= Columns * Lines
  BY <1>1, <1>2, <1>4
<1>6. Columns * (k + 1) = Columns * k + Columns
  BY <1>1, <1>2
<1>7. p - Column(p) + Columns = Columns * (k + 1)
  BY <1>1, <1>2, <1>3, <1>6
<1>8. Column(p - Column(p)) = 0 /\ p - Column(p) + Columns - Columns = p - Column(p)
  BY <1>1, <1>2, LineStart
<1> QED BY <1>1, <1>3, <1>5, <1>6, <1>7, <1>8 DEF Size

\* The first half of tty_putc: the cells that change and the one the cursor
\* leaves are marked by the second half.
LEMMA WriteMarks ==
  ASSUME ScreenType, NEW a \in Actors, NEW t \in Terms, t = My(a), cursor[t] # Size,
         StartWrite(a), out[a] # NUL
  PROVE  /\ cells' \in [Terms -> [Cells -> Letters \cup {NUL}]]
         /\ cursor' \in [Terms -> 0 .. Size]
         /\ \A u \in Terms : u # t => cells'[u] = cells[u] /\ cursor'[u] = cursor[u]
         /\ \/ cursor'[t] = cursor[t]
            \/ cursor[t] \in Marked(cursor'[t], out[a])
         /\ \A x \in Cells : cells'[t][x] = cells[t][x] \/ x \in Marked(cursor'[t], out[a])
<1> DEFINE p == cursor[t]
           q == cursor'[t]
<1>1. /\ p \in Cells /\ p \in Nat /\ Size \in Nat /\ Size > 0 /\ Columns \in Nat \ {0}
      /\ p < Size /\ Cells \subseteq Nat
  BY Sizes DEF ScreenType, Cells
<1>2. CASE out[a] \in Letters
  <2>1. /\ cells' = [cells EXCEPT ![t][p] = out[a]]
        /\ cursor' = [cursor EXCEPT ![t] = p + 1]
    BY <1>2, CharAssumption DEF StartWrite
  <2>2. q = p + 1 /\ p + 1 \in 0 .. Size
    BY <1>1, <2>1 DEF ScreenType
  <2>3. Marked(q, out[a]) = {q - 1, q}
    BY <1>2, CharAssumption DEF Marked
  <2>4. p \in Marked(q, out[a])
    BY <1>1, <2>2, <2>3
  <2>5. \A x \in Cells : x # p => cells'[t][x] = cells[t][x]
    BY <1>1, <2>1 DEF ScreenType
  <2>6. /\ cells' \in [Terms -> [Cells -> Letters \cup {NUL}]] /\ cursor' \in [Terms -> 0 .. Size]
        /\ \A u \in Terms : u # t => cells'[u] = cells[u] /\ cursor'[u] = cursor[u]
    BY <1>1, <1>2, <2>1, <2>2 DEF ScreenType
  <2> QED BY <2>4, <2>5, <2>6
<1>3. CASE out[a] = BS
  <2>1. /\ cursor' = [cursor EXCEPT ![t] = IF p > 0 THEN p - 1 ELSE 0]
        /\ cells' = IF p > 0 THEN [cells EXCEPT ![t][p - 1] = NUL] ELSE cells
    BY <1>3, CharAssumption DEF StartWrite
  <2>2. q = IF p > 0 THEN p - 1 ELSE 0
    BY <2>1 DEF ScreenType
  <2>3. q \in 0 .. Size
    BY <1>1, <2>2
  <2>4. Marked(q, out[a]) = {q, q + 1}
    BY <1>3, CharAssumption DEF Marked
  <2>5. p \in Marked(q, out[a]) \/ p = q
    BY <1>1, <2>2, <2>4
  <2>6. \A x \in Cells : cells'[t][x] = cells[t][x] \/ x = q
    BY <1>1, <2>1, <2>2 DEF ScreenType
  <2>7. /\ cells' \in [Terms -> [Cells -> Letters \cup {NUL}]] /\ cursor' \in [Terms -> 0 .. Size]
        /\ \A u \in Terms : u # t => cells'[u] = cells[u] /\ cursor'[u] = cursor[u]
    BY <1>1, <2>1, <2>2, <2>3 DEF ScreenType
  <2> QED BY <2>4, <2>5, <2>6, <2>7
<1>4. CASE out[a] \in {CR, NL}
  <2>1. /\ cursor' = [cursor EXCEPT ![t] = p - Column(p) + (IF out[a] = NL THEN Columns ELSE 0)]
        /\ cells' = cells
    BY <1>4, CharAssumption DEF StartWrite
  <2>2. q = p - Column(p) + (IF out[a] = NL THEN Columns ELSE 0)
    BY <2>1 DEF ScreenType
  <2>3. p - Column(p) \in Nat /\ p - Column(p) <= p /\ Column(p - Column(p)) = 0 /\ Column(p) \in Nat
    BY <1>1, LineStart
  <2>4. p \in Line(p - Column(p))
    BY <1>1, <2>3, LineStart
  <2>5. q \in 0 .. Size /\ p \in Marked(q, out[a])
    <3>1. CASE out[a] = CR
      <4>1. q = p - Column(p) /\ q \in 0 .. Size
        BY <1>1, <3>1, <2>2, <2>3, CharAssumption
      <4>2. Marked(q, out[a]) = Line(q)
        BY <3>1, CharAssumption DEF Marked
      <4> QED BY <4>1, <4>2, <2>4
    <3>2. CASE out[a] = NL
      <4>1. q = p - Column(p) + Columns
        BY <3>2, <2>2
      <4>2. q \in 0 .. Size /\ q - Columns = p - Column(p)
        BY <4>1, <1>1, <2>3, NextLine
      <4>3. Marked(q, out[a]) = Line(q - Columns) \cup Line(q)
        BY <3>2, CharAssumption DEF Marked
      <4> QED BY <4>2, <4>3, <2>4
    <3> QED BY <1>4, <3>1, <3>2
  <2>6. /\ cells' \in [Terms -> [Cells -> Letters \cup {NUL}]] /\ cursor' \in [Terms -> 0 .. Size]
        /\ \A u \in Terms : u # t => cells'[u] = cells[u] /\ cursor'[u] = cursor[u]
    BY <2>1, <2>2, <2>5 DEF ScreenType
  <2> QED BY <2>1, <2>5, <2>6
<1> QED BY <1>2, <1>3, <1>4 DEF StartWrite

-----------------------------------------------------------------------------
LEMMA MyTerm ==
  ASSUME ScreenType, NEW a \in Actors
  PROVE  My(a) \in Terms
BY TtyAssumption DEF ScreenType, My, Actors

LEMMA ScreenInit == Init => ScreenInv
<1> SUFFICES ASSUME Init PROVE ScreenInv
    OBVIOUS
<1>1. /\ ScreenType
      /\ \A a \in Actors : at[a] \in {"start", "out"}
      /\ at[T] = "start"
      /\ tty = shown /\ lost = {}
      /\ \A t \in Terms : cursor[t] # Size
  <2>1. 0 \in 0 .. Size /\ 0 # Size
    BY Sizes
  <2>2. First \in Terms /\ T \in Actors
    BY TtyAssumption DEF Actors
  <2>3. at \in [Actors -> Positions] /\ (\A a \in Actors : at[a] \in {"start", "out"}) /\ at[T] = "start"
    BY <2>2 DEF Init, Positions
  <2>4. /\ cells = [t \in Terms |-> [x \in Cells |-> NUL]]
        /\ dirty = [t \in Terms |-> [x \in Cells |-> FALSE]]
        /\ screen = [x \in Cells |-> NUL] /\ cursor = [t \in Terms |-> 0]
        /\ lock = [t \in Terms |-> 1] /\ load \in Loads /\ tty = First /\ shown = First /\ lost = {}
        /\ out = [a \in Actors |-> NUL]
    BY DEF Init
  <2> QED BY <2>1, <2>2, <2>3, <2>4 DEF ScreenType
<1>2. \A x \in Cells : Right(x)
  BY TtyAssumption DEF Init, Right
<1> QED BY <1>1, <1>2 DEF ScreenInv, LocksOK, DaemonOK, ShownOK, ComingOK, Held

\* Steps that touch neither screens nor the positions of writers and daemon.
LEMMA ScreenFrame ==
  ASSUME ScreenInv, UNCHANGED <<load, screenVars, lock, at, out, ev>>
  PROVE  ScreenInv'
<1> USE DEF screenVars
<1>1. \A a : My(a)' = My(a) /\ (Held(a)' <=> Held(a))
  BY DEF My, Held
<1>2. \A x : Right(x)' <=> Right(x)
  BY DEF Right
<1> QED
  BY <1>1, <1>2 DEF ScreenInv, ScreenType, LocksOK, DaemonOK, ShownOK, ComingOK

\* A step of an actor that is not inside: it may mark cells, and only if it does
\* not go inside.
LEMMA ScreenOutside ==
  ASSUME ScreenInv, NEW a \in Actors,
         NEW to \in {"start", "event", "pop", "cook", "switch", "blink", "out", "write", "render"},
         ~Held(a), at[a] # "current", at' = [at EXCEPT ![a] = to],
         to = "switch" => a = T /\ ev' \in Terms \ {tty},
         a = T \/ ev' = ev,
         DOMAIN out' = Actors, \A b \in Actors : b # a => out'[b] = out[b],
         dirty' \in [Terms -> [Cells -> BOOLEAN]],
         \A t \in Terms, x \in Cells : dirty[t][x] => dirty'[t][x],
         UNCHANGED <<load, cells, cursor, tty, shown, screen, lost, lock>>
  PROVE  ScreenInv'
<1>1. /\ at'[a] = to /\ ~Held(a)'
      /\ \A b \in Actors : b # a => at'[b] = at[b] /\ (Held(b)' <=> Held(b))
  BY DEF ScreenInv, ScreenType, Held
<1>2. \A b \in Actors : My(b)' = My(b) /\ My(b) \in Terms
  BY MyTerm DEF My, ScreenInv
<1>3. \A x : Right(x)' <=> Right(x)
  BY DEF Right
<1>4. ScreenType'
  BY DEF ScreenInv, ScreenType, Positions
<1>5. LocksOK'
  BY <1>1, <1>2 DEF ScreenInv, LocksOK, Held
<1>6. T \in Actors /\ (at'[T] = "current" <=> at[T] = "current")
  BY <1>1 DEF Actors
<1>7. DaemonOK'
  BY <1>1, <1>6 DEF ScreenInv, DaemonOK
<1>8. shown \in Terms /\ tty \in Terms
  BY DEF ScreenInv, ScreenType
<1>9. ShownOK'
  <2> SUFFICES ASSUME shown \notin lost PROVE ShownOK'
    BY DEF ShownOK
  <2>1. ASSUME NEW b \in Actors, My(b) = shown, at'[b] = "putc"
        PROVE  \/ cursor[shown] = Size
               \/ \A x \in Cells : dirty'[shown][x] \/ Right(x) \/ x \in Marked(cursor[shown], out'[b])
    <3>1. b # a /\ at[b] = "putc" /\ out'[b] = out[b]
      BY <1>1, <2>1
    <3>2. \/ cursor[shown] = Size
          \/ \A x \in Cells : dirty[shown][x] \/ Right(x) \/ x \in Marked(cursor[shown], out[b])
      BY <2>1, <3>1 DEF ScreenInv, ShownOK
    <3> QED BY <3>1, <3>2, <1>8
  <2>2. ASSUME NEW b \in Actors, My(b) = shown, at'[b] = "clear" PROVE \A x \in Cells : Right(x)
    <3>1. at[b] = "clear"
      BY <1>1, <2>2
    <3> QED BY <2>2, <3>1 DEF ScreenInv, ShownOK
  <2>3. lock[shown] = 1 => \A x \in Cells : dirty'[shown][x] \/ Right(x)
    BY <1>8 DEF ScreenInv, ShownOK
  <2> QED BY <2>1, <2>2, <2>3, <1>2, <1>3 DEF ShownOK
<1>10. ComingOK'
  BY <1>1, <1>2, <1>6, <1>8 DEF ScreenInv, ComingOK
<1> QED BY <1>4, <1>5, <1>7, <1>9, <1>10 DEF ScreenInv

-----------------------------------------------------------------------------
\* Characters, keys and blinking.
LEMMA DaemonKeeps ==
  ASSUME ScreenInv, tty_cook \/ Start \/ AwaitEvent \/ PopEvent \/ Blink
  PROVE  ScreenInv'
<1>1. /\ T \in Actors /\ tty \in Terms /\ dirty \in [Terms -> [Cells -> BOOLEAN]]
      /\ My(T) = tty /\ DOMAIN out = Actors
  BY DEF ScreenInv, ScreenType, Actors, My
<1>2. CASE tty_cook
  <2>1. PICK to \in {"blink", "write"} : at' = [at EXCEPT ![T] = to]
    BY <1>2 DEF tty_cook, Goto
  <2>2. /\ at[T] = "cook" /\ DOMAIN out' = Actors /\ \A b \in Actors : b # T => out'[b] = out[b]
        /\ UNCHANGED <<load, screenVars, lock, ev>>
    <3>1. at[T] = "cook" /\ UNCHANGED <<inputVars, screenVars, lock, ev>>
      BY <1>2 DEF tty_cook
    <3>2. UNCHANGED out \/ out' = [out EXCEPT ![T] = ev]
      BY <1>2 DEF tty_cook
    <3>3. DOMAIN out' = Actors /\ \A b \in Actors : b # T => out'[b] = out[b]
      BY <3>2 DEF ScreenInv, ScreenType
    <3> QED BY <3>1, <3>3 DEF inputVars
  <2> QED BY <1>1, <2>1, <2>2, ScreenOutside DEF screenVars, Held
<1>3. CASE Start
  <2>1. /\ at[T] = "start" /\ at' = [at EXCEPT ![T] = "render"]
        /\ dirty' = [dirty EXCEPT ![tty] = [x \in Cells |-> TRUE]]
        /\ UNCHANGED <<load, cells, cursor, tty, shown, screen, lost, lock, out, ev>>
    BY <1>3 DEF Start, Goto, MarkAll, inputVars
  <2>2. /\ dirty' \in [Terms -> [Cells -> BOOLEAN]]
        /\ \A t \in Terms, x \in Cells : dirty[t][x] => dirty'[t][x]
    BY <1>1, <2>1
  <2> QED BY <1>1, <2>1, <2>2, ScreenOutside DEF Held
<1>4. CASE AwaitEvent
  <2>1. /\ at[T] = "event" /\ at' = [at EXCEPT ![T] = "pop"]
        /\ UNCHANGED <<load, screenVars, lock, out, ev>>
    BY <1>4 DEF AwaitEvent, WaitEvent, Goto
  <2> QED BY <1>1, <2>1, ScreenOutside DEF screenVars, Held
<1>5. CASE PopEvent /\ is_empty
  BY <1>5, ScreenFrame DEF PopEvent, NoEvent, inputVars
<1>6. CASE PopEvent /\ ~is_empty
  <2>1. /\ at[T] = "pop" /\ ev' = events[front]
        /\ UNCHANGED <<load, screenVars, lock, out>>
        /\ \/ Goto(T, IF events[front] \in Chars THEN "cook"
                      ELSE IF events[front] \in Terms \ {tty} THEN "switch" ELSE "blink")
           \/ Goto(T, "event")
    BY <1>6 DEF PopEvent, TakeEvent
  <2>2. \E to \in {"event", "cook", "switch", "blink"} :
          at' = [at EXCEPT ![T] = to] /\ (to = "switch" => ev' \in Terms \ {tty})
    BY <2>1 DEF Goto
  <2>3. PICK to \in {"event", "cook", "switch", "blink"} :
          at' = [at EXCEPT ![T] = to] /\ (to = "switch" => ev' \in Terms \ {tty})
    BY <2>2
  <2> QED BY <1>1, <2>1, <2>3, ScreenOutside DEF screenVars, Held
<1>7. CASE Blink
  <2>1. /\ at[T] = "blink" /\ at' = [at EXCEPT ![T] = "write"]
        /\ dirty' = [dirty EXCEPT ![tty] = [x \in Cells |-> @[x] \/ x = cursor[tty]]]
        /\ UNCHANGED <<load, cells, cursor, tty, shown, screen, lost, lock, out>>
    BY <1>7 DEF Blink, Goto, inputVars
  <2>2. dirty' = [dirty EXCEPT ![tty] = [x \in Cells |-> dirty[tty][x] \/ x = cursor[tty]]]
    BY <1>1, <2>1
  <2>3. /\ dirty' \in [Terms -> [Cells -> BOOLEAN]]
        /\ \A t \in Terms, x \in Cells : dirty[t][x] => dirty'[t][x]
    BY <1>1, <2>2
  <2> QED BY <1>1, <2>1, <2>3, ScreenOutside DEF Held
<1> QED BY <1>2, <1>3, <1>4, <1>5, <1>6, <1>7

LEMMA WriterKeeps ==
  ASSUME ScreenInv, NEW w \in Writers, NEW ch, tty_write(w, ch)
  PROVE  ScreenInv'
<1>1. /\ w \in Actors /\ w # T
      /\ at[w] = "out" /\ at' = [at EXCEPT ![w] = "write"]
      /\ out' = [out EXCEPT ![w] = ch]
      /\ UNCHANGED <<load, screenVars, lock, ev>>
  BY TtyAssumption DEF tty_write, Goto, Actors
<1>2. DOMAIN out' = Actors /\ (\A b \in Actors : b # w => out'[b] = out[b]) /\ dirty \in [Terms -> [Cells -> BOOLEAN]]
  BY <1>1 DEF ScreenInv, ScreenType
<1> QED BY <1>1, <1>2, ScreenOutside DEF screenVars, Held

-----------------------------------------------------------------------------
\* An actor that takes or releases the lock of its terminal: what is to be shown
\* for the other terminals and actors.
LEMMA ScreenLocked ==
  ASSUME ScreenInv, NEW a \in Actors, NEW t \in Terms, t = My(a),
         NEW to \in {"event", "blink", "out", "putc", "render", "clear"},
         at[a] \in {"write", "render", "putc", "clear"}, at' = [at EXCEPT ![a] = to],
         lock[t] = 1 \/ Held(a),
         lock' = [lock EXCEPT ![t] = IF to \in {"putc", "clear"} THEN 0 ELSE 1],
         ScreenType', UNCHANGED <<load, tty, shown, ev>>,
         \A b \in Actors : b # a => out'[b] = out[b],
         \A u \in Terms : u # t => cells'[u] = cells[u] /\ cursor'[u] = cursor[u] /\ dirty'[u] = dirty[u],
         t # shown => \A x \in Cells : screen'[x] = screen[x],
         lost \subseteq lost',
         to # "putc" => cursor'[t] # Size,
         \* what the step has to show for the terminal on display and for the coming one
         t = shown /\ shown \notin lost' =>
           /\ to = "putc" => \/ cursor'[t] = Size
                             \/ \A x \in Cells : dirty'[t][x] \/ Right(x)' \/ x \in Marked(cursor'[t], out'[a])
           /\ to = "clear" => \A x \in Cells : Right(x)'
           /\ to \notin {"putc", "clear"} => \A x \in Cells : dirty'[t][x] \/ Right(x)',
         t = tty /\ at[T] = "current" /\ tty \notin lost' =>
           to # "clear" /\ \A x \in Cells : dirty'[t][x]
  PROVE  ScreenInv'
<1>1. /\ at'[a] = to /\ (Held(a)' <=> to \in {"putc", "clear"})
      /\ \A b \in Actors : b # a => at'[b] = at[b] /\ (Held(b)' <=> Held(b))
  BY DEF ScreenInv, ScreenType, Held
<1>2. \A b \in Actors : My(b)' = My(b) /\ My(b) \in Terms
  BY MyTerm DEF My, ScreenInv
<1>3. \A b \in Actors : b # a /\ Held(b) => My(b) # t
  <2> SUFFICES ASSUME NEW b \in Actors, b # a, Held(b), My(b) = t PROVE FALSE
    OBVIOUS
  <2>1. lock[t] = 0
    BY DEF ScreenInv, LocksOK
  <2>2. Held(a)
    BY <2>1
  <2> QED BY <2>2 DEF ScreenInv, LocksOK
<1>4. /\ T \in Actors /\ (at'[T] = "current" <=> at[T] = "current")
      /\ at'[T] = "switch" <=> at[T] = "switch"
  BY <1>1 DEF Actors
<1>5. shown \in Terms /\ tty \in Terms
  BY DEF ScreenInv, ScreenType
<1>6. /\ lock'[t] = IF to \in {"putc", "clear"} THEN 0 ELSE 1
      /\ \A u \in Terms : u # t => lock'[u] = lock[u]
  BY DEF ScreenInv, ScreenType
<1>7. LocksOK'
  <2>1. ASSUME NEW b \in Actors, Held(b)' PROVE lock'[My(b)] = 0
    BY <1>1, <1>2, <1>3, <1>6, <2>1 DEF ScreenInv, LocksOK
  <2>2. ASSUME NEW b \in Actors, NEW c \in Actors, b # c, Held(b)', Held(c)' PROVE My(b) # My(c)
    BY <1>1, <1>3, <2>2 DEF ScreenInv, LocksOK
  <2>3. ASSUME NEW u \in Terms, cursor'[u] = Size PROVE lock'[u] = 0
    BY <1>6, <2>3 DEF ScreenInv, LocksOK
  <2>4. ASSUME NEW b \in Actors, at'[b] = "clear" PROVE cursor'[My(b)] # Size
    BY <1>1, <1>2, <1>3, <2>4 DEF ScreenInv, LocksOK, Held
  <2> QED BY <1>2, <2>1, <2>2, <2>3, <2>4 DEF LocksOK
<1>8. DaemonOK'
  BY <1>4 DEF ScreenInv, DaemonOK
<1>9. ShownOK'
  <2> SUFFICES ASSUME shown \notin lost' PROVE ShownOK'
    BY DEF ShownOK
  <2>1. CASE t = shown
    <3>1. \A b \in Actors : My(b) = shown /\ at'[b] \in {"putc", "clear"} => b = a
      BY <2>1, <1>1, <1>3 DEF Held
    <3> QED BY <2>1, <3>1, <1>1, <1>2, <1>6 DEF ShownOK
  <2>2. CASE t # shown
    <3>1. \A x \in Cells : Right(x)' <=> Right(x)
      BY <2>2, <1>5 DEF Right
    <3>2. \A b \in Actors : My(b) = shown => b # a
      BY <2>2
    <3>3. cursor'[shown] = cursor[shown] /\ dirty'[shown] = dirty[shown] /\ lock'[shown] = lock[shown]
      BY <2>2, <1>5, <1>6
    <3>4. shown \notin lost
      OBVIOUS
    <3>5. lock[shown] = 1 => \A x \in Cells : dirty[shown][x] \/ Right(x)
      BY <3>4 DEF ScreenInv, ShownOK
    <3>6. ASSUME NEW b \in Actors, My(b) = shown, at'[b] = "putc"
          PROVE  \/ cursor[shown] = Size
                 \/ \A x \in Cells : dirty[shown][x] \/ Right(x) \/ x \in Marked(cursor[shown], out'[b])
      BY <1>1, <3>2, <3>4, <3>6 DEF ScreenInv, ShownOK
    <3>7. ASSUME NEW b \in Actors, My(b) = shown, at'[b] = "clear" PROVE \A x \in Cells : Right(x)
      BY <1>1, <3>2, <3>4, <3>7 DEF ScreenInv, ShownOK
    <3> QED BY <3>1, <3>3, <3>5, <3>6, <3>7, <1>2 DEF ShownOK
  <2> QED BY <2>1, <2>2
<1>10. ComingOK'
  <2> SUFFICES ASSUME at[T] = "current", tty \notin lost' PROVE ComingOK'
    BY <1>4 DEF ComingOK
  <2>1. tty \notin lost
    OBVIOUS
  <2>2. \A x \in Cells : dirty'[tty][x]
    BY <2>1, <1>5 DEF ScreenInv, ComingOK
  <2>3. \A b \in Actors : My(b) = tty => at'[b] # "clear"
    BY <2>1, <1>1 DEF ScreenInv, ComingOK
  <2> QED BY <2>2, <2>3, <1>2 DEF ComingOK
<1> QED BY <1>7, <1>8, <1>9, <1>10 DEF ScreenInv

-----------------------------------------------------------------------------
\* tty_putc and tty_render.
LEMMA StartKeeps ==
  ASSUME ScreenInv, NEW a \in Actors, StartWrite(a)
  PROVE  ScreenInv'
<1> DEFINE t == My(a)
<1>1. t \in Terms /\ ScreenType
  BY MyTerm DEF ScreenInv
<1>2. /\ at[a] = "write" /\ lock[t] = 1
      /\ UNCHANGED <<load, dirty, show, tty, shown, screen, lost, out, ev>>
  BY DEF StartWrite, inputVars
<1>3. CASE out[a] = NUL
  <2>1. at' = [at EXCEPT ![a] = "render"] /\ UNCHANGED <<cells, cursor, lock>>
    BY <1>3 DEF StartWrite, Goto
  <2> QED BY <1>1, <1>2, <2>1, ScreenOutside DEF Held, ScreenType
<1>4. CASE out[a] # NUL
  <2>1. at' = [at EXCEPT ![a] = "putc"] /\ lock' = [lock EXCEPT ![t] = 0]
    BY <1>4 DEF StartWrite, Goto
  <2>2. cursor[t] # Size
    BY <1>1, <1>2 DEF ScreenInv, LocksOK
  <2> HIDE DEF t
  <2>3. /\ cells' \in [Terms -> [Cells -> Letters \cup {NUL}]]
        /\ cursor' \in [Terms -> 0 .. Size]
        /\ \A u \in Terms : u # t => cells'[u] = cells[u] /\ cursor'[u] = cursor[u]
        /\ \/ cursor'[t] = cursor[t]
           \/ cursor[t] \in Marked(cursor'[t], out[a])
        /\ \A x \in Cells : cells'[t][x] = cells[t][x] \/ x \in Marked(cursor'[t], out[a])
    BY <1>1, <1>4, <2>2, WriteMarks DEF t
  <2>4. ScreenType'
    BY <1>1, <1>2, <2>1, <2>3 DEF ScreenType, Positions
  <2>5. ASSUME t = shown, shown \notin lost, NEW x \in Cells
        PROVE  dirty'[t][x] \/ Right(x)' \/ x \in Marked(cursor'[t], out'[a])
    <3>1. dirty[shown][x] \/ Right(x)
      BY <1>2, <2>5 DEF ScreenInv, ShownOK
    <3> QED BY <3>1, <1>2, <2>3, <2>5 DEF Right
  <2>6. t = tty => at[T] # "current" \/ tty \in lost \/ \A x \in Cells : dirty'[t][x]
    BY <1>2 DEF ScreenInv, ComingOK
  <2> QED BY <1>1, <1>2, <2>1, <2>3, <2>4, <2>5, <2>6, ScreenLocked DEF t
<1> QED BY <1>3, <1>4

LEMMA EndKeeps ==
  ASSUME ScreenInv, NEW a \in Actors, EndWrite(a)
  PROVE  ScreenInv'
<1> DEFINE t == My(a)
           p == cursor[t]
<1>1. t \in Terms /\ ScreenType
  BY MyTerm DEF ScreenInv
<1>2. /\ at[a] = "putc" /\ Held(a) /\ at' = [at EXCEPT ![a] = "render"] /\ lock' = [lock EXCEPT ![t] = 1]
      /\ UNCHANGED <<load, show, tty, shown, screen, lost, out, ev>>
  BY DEF EndWrite, inputVars, Goto, Held
<1>3. p \in 0 .. Size /\ Size \in Nat /\ Columns \in Nat \ {0} /\ Lines \in Nat /\ Lines >= 2
  BY <1>1, Sizes, TtyAssumption DEF ScreenType
<1>4. Columns < Size
  <2>1. Columns * Lines > Columns
    BY <1>3
  <2> QED BY <2>1 DEF Size
<1>5. CASE p = Size
  <2>1. /\ cells' = [cells EXCEPT ![t] =
                       [x \in Cells |-> IF x < Size - Columns THEN @[x + Columns] ELSE NUL]]
        /\ cursor' = [cursor EXCEPT ![t] = p - Columns]
        /\ dirty' = [dirty EXCEPT ![t] = [x \in Cells |-> TRUE]]
    BY <1>5 DEF EndWrite
  <2>2. /\ cursor'[t] = p - Columns /\ p - Columns \in 0 .. Size /\ p - Columns # Size
        /\ cursor' \in [Terms -> 0 .. Size]
        /\ \A u \in Terms : u # t => cursor'[u] = cursor[u]
    BY <1>1, <1>3, <1>4, <1>5, <2>1 DEF ScreenType
  <2>3. /\ dirty' \in [Terms -> [Cells -> BOOLEAN]] /\ \A x \in Cells : dirty'[t][x]
        /\ \A u \in Terms : u # t => dirty'[u] = dirty[u]
    BY <1>1, <2>1 DEF ScreenType
  <2>4. /\ cells' \in [Terms -> [Cells -> Letters \cup {NUL}]]
        /\ \A u \in Terms : u # t => cells'[u] = cells[u]
    <3>1. \A x \in Cells : x < Size - Columns => x + Columns \in Cells
      BY <1>3 DEF Cells
    <3>2. cells[t] \in [Cells -> Letters \cup {NUL}]
      BY <1>1 DEF ScreenType
    <3>3. [x \in Cells |-> IF x < Size - Columns THEN cells[t][x + Columns] ELSE NUL]
            \in [Cells -> Letters \cup {NUL}]
      BY <3>1, <3>2
    <3>4. cells' = [cells EXCEPT ![t] =
                       [x \in Cells |-> IF x < Size - Columns THEN cells[t][x + Columns] ELSE NUL]]
      BY <1>1, <2>1 DEF ScreenType
    <3> QED BY <1>1, <3>3, <3>4 DEF ScreenType
  <2>5. ScreenType'
    BY <1>1, <1>2, <2>2, <2>3, <2>4 DEF ScreenType, Positions
  <2> HIDE DEF t, p
  <2> QED BY <1>1, <1>2, <2>2, <2>3, <2>4, <2>5, ScreenLocked DEF t
<1>6. CASE p # Size
  <2>1. /\ dirty' = [dirty EXCEPT ![t] = [x \in Cells |-> @[x] \/ x \in Marked(p, out[a])]]
        /\ UNCHANGED <<cells, cursor>>
    BY <1>6 DEF EndWrite
  <2>2. /\ dirty' \in [Terms -> [Cells -> BOOLEAN]]
        /\ \A x \in Cells : dirty'[t][x] <=> dirty[t][x] \/ x \in Marked(p, out[a])
        /\ \A u \in Terms : u # t => dirty'[u] = dirty[u]
    <3> HIDE DEF t, p
    <3>1. dirty' = [dirty EXCEPT ![t] = [x \in Cells |-> dirty[t][x] \/ x \in Marked(p, out[a])]]
      BY <1>1, <2>1 DEF ScreenType
    <3> QED BY <1>1, <3>1 DEF ScreenType
  <2>3. ScreenType'
    BY <1>1, <1>2, <2>1, <2>2 DEF ScreenType, Positions
  <2>4. ASSUME t = shown, shown \notin lost, NEW x \in Cells PROVE dirty'[t][x] \/ Right(x)'
    <3>1. dirty[shown][x] \/ Right(x) \/ x \in Marked(cursor[shown], out[a])
      BY <1>2, <1>6, <2>4 DEF ScreenInv, ShownOK
    <3> QED BY <3>1, <1>2, <2>1, <2>2, <2>4 DEF Right
  <2>5. t = tty => at[T] # "current" \/ tty \in lost \/ \A x \in Cells : dirty'[t][x]
    BY <2>2 DEF ScreenInv, ComingOK
  <2>6. cursor'[t] # Size
    BY <1>6, <2>1
  <2> HIDE DEF t, p
  <2> QED BY <1>1, <1>2, <2>1, <2>2, <2>3, <2>4, <2>5, <2>6, ScreenLocked DEF t
<1> QED BY <1>5, <1>6

LEMMA DrawKeeps ==
  ASSUME ScreenInv, NEW a \in Actors, Draw(a)
  PROVE  ScreenInv'
<1> DEFINE t == My(a)
           drawn(x) == IF x = cursor[t] /\ show THEN Block ELSE cells[t][x]
<1>1. t \in Terms /\ ScreenType
  BY MyTerm DEF ScreenInv
<1>2. /\ at[a] = "render" /\ lock[t] = 1 /\ at' = [at EXCEPT ![a] = "clear"] /\ lock' = [lock EXCEPT ![t] = 0]
      /\ lost' = IF t = tty /\ t # shown THEN lost \cup {t} ELSE lost
      /\ UNCHANGED <<load, cells, cursor, dirty, show, tty, shown, out, ev>>
  BY DEF Draw, inputVars, Goto
<1>3. screen' = [x \in Cells |-> IF t = shown /\ x \in {y \in Cells : dirty[t][y]} THEN drawn(x) ELSE screen[x]]
  BY DEF Draw, fb_write
<1>4. cursor[t] # Size
  BY <1>1, <1>2 DEF ScreenInv, LocksOK
<1>5. \A x \in Cells : drawn(x) \in Letters \cup {NUL, Block}
  BY <1>1 DEF ScreenType
<1>6. /\ screen' \in [Cells -> Letters \cup {NUL, Block}]
      /\ \A x \in Cells : screen'[x] = IF t = shown /\ dirty[t][x] THEN drawn(x) ELSE screen[x]
  <2> HIDE DEF t, drawn
  <2> QED BY <1>1, <1>3, <1>5 DEF ScreenType
<1>7. ScreenType'
  BY <1>1, <1>2, <1>6 DEF ScreenType, Positions
<1>8. ASSUME t = shown, shown \notin lost, NEW x \in Cells PROVE Right(x)'
  <2>1. dirty[shown][x] \/ Right(x)
    BY <1>2, <1>8 DEF ScreenInv, ShownOK
  <2> QED BY <2>1, <1>2, <1>6, <1>8 DEF Right
<1>9. at[T] = "current" => tty # shown
  BY DEF ScreenInv, DaemonOK
<1> HIDE DEF t, drawn
<1>10. t # shown => \A x \in Cells : screen'[x] = screen[x]
  BY <1>6
<1>11. lost \subseteq lost' /\ (t = tty /\ at[T] = "current" => tty \in lost')
  BY <1>2, <1>9
<1> QED BY <1>1, <1>2, <1>4, <1>7, <1>8, <1>10, <1>11, ScreenLocked DEF t

LEMMA ClearKeeps ==
  ASSUME ScreenInv, NEW a \in Actors, Clear(a)
  PROVE  ScreenInv'
<1>1. PICK t \in Terms : t = My(a)
  BY MyTerm DEF ScreenInv
<1>2. PICK to \in {"out", "event", "blink"} :
        /\ at[a] = "clear" /\ Held(a) /\ at' = [at EXCEPT ![a] = to] /\ lock' = [lock EXCEPT ![t] = 1]
        /\ dirty' = [dirty EXCEPT ![t] = [x \in Cells |-> FALSE]]
        /\ out' = [out EXCEPT ![a] = NUL]
        /\ UNCHANGED <<load, cells, cursor, show, tty, shown, screen, lost, ev>>
  BY <1>1 DEF Clear, inputVars, Goto, Held
<1>3. ScreenType
  BY DEF ScreenInv
<1>4. /\ dirty' \in [Terms -> [Cells -> BOOLEAN]] /\ \A u \in Terms : u # t => dirty'[u] = dirty[u]
      /\ DOMAIN out' = Actors /\ \A b \in Actors : b # a => out'[b] = out[b]
  BY <1>2, <1>3 DEF ScreenType
<1>5. ScreenType'
  BY <1>1, <1>2, <1>3, <1>4 DEF ScreenType, Positions
<1>6. ASSUME t = shown, shown \notin lost, NEW x \in Cells PROVE Right(x)'
  <2>1. Right(x)
    BY <1>1, <1>2, <1>6 DEF ScreenInv, ShownOK
  <2> QED BY <2>1, <1>2 DEF Right
<1>7. cursor'[t] # Size
  BY <1>1, <1>2 DEF ScreenInv, LocksOK
<1>8. ~(t = tty /\ at[T] = "current" /\ tty \notin lost)
  BY <1>1, <1>2 DEF ScreenInv, ComingOK
<1>9. /\ to \in {"event", "blink", "out", "putc", "render", "clear"} /\ to \notin {"putc", "clear"}
      /\ lock' = [lock EXCEPT ![t] = IF to \in {"putc", "clear"} THEN 0 ELSE 1]
  BY <1>2
<1>10. \A u \in Terms : u # t => cells'[u] = cells[u] /\ cursor'[u] = cursor[u] /\ dirty'[u] = dirty[u]
  BY <1>2, <1>4
<1>11. t = shown /\ shown \notin lost' =>
         /\ to = "putc" => \/ cursor'[t] = Size
                           \/ \A x \in Cells : dirty'[t][x] \/ Right(x)' \/ x \in Marked(cursor'[t], out'[a])
         /\ to = "clear" => \A x \in Cells : Right(x)'
         /\ to \notin {"putc", "clear"} => \A x \in Cells : dirty'[t][x] \/ Right(x)'
  BY <1>2, <1>6, <1>9
<1>12. t = tty /\ at[T] = "current" /\ tty \notin lost' => to # "clear" /\ \A x \in Cells : dirty'[t][x]
  BY <1>2, <1>8
<1>13. lost \subseteq lost' /\ (t # shown => \A x \in Cells : screen'[x] = screen[x])
  BY <1>2
<1>14. /\ at[a] \in {"write", "render", "putc", "clear"} /\ (lock[t] = 1 \/ Held(a))
       /\ at' = [at EXCEPT ![a] = to] /\ UNCHANGED <<load, tty, shown, ev>>
  BY <1>2
<1> QED BY <1>1, <1>4, <1>5, <1>7, <1>9, <1>10, <1>11, <1>12, <1>13, <1>14, ScreenLocked, ZenonT(60)

-----------------------------------------------------------------------------
\* The switch: the marks, without the lock, then the display.
LEMMA SwitchMarkKeeps ==
  ASSUME ScreenInv, SwitchMark
  PROVE  ScreenInv'
<1>1. /\ at[T] = "switch" /\ tty' = ev /\ at' = [at EXCEPT ![T] = "current"]
      /\ dirty' = [dirty EXCEPT ![ev] = [x \in Cells |-> TRUE]]
      /\ lost' = IF \E w \in Writers : at[w] = "clear" /\ load.uses[w] = ev
                   THEN lost \cup {ev} ELSE lost \ {ev}
      /\ UNCHANGED <<load, cells, cursor, show, shown, screen, lock, out, ev>>
  BY DEF SwitchMark, MarkAll, Goto, inputVars
<1>2. ev \in Terms /\ ev # shown /\ tty = shown /\ shown \in Terms /\ T \in Actors
  BY <1>1 DEF ScreenInv, ScreenType, DaemonOK, Actors
<1>3. /\ at'[T] = "current" /\ ~Held(T) /\ ~Held(T)'
      /\ \A b \in Actors : b # T =>
           at'[b] = at[b] /\ (Held(b)' <=> Held(b)) /\ My(b)' = My(b) /\ My(b) = load.uses[b] /\ b \in Writers
  BY <1>1, <1>2 DEF ScreenInv, ScreenType, Held, My, Actors
<1>4. ScreenType'
  BY <1>1, <1>2 DEF ScreenInv, ScreenType, Positions
<1>5. LocksOK'
  BY <1>1, <1>3 DEF ScreenInv, LocksOK, Held
<1>6. DaemonOK'
  BY <1>1, <1>2, <1>3 DEF DaemonOK
<1>7. dirty'[shown] = dirty[shown] /\ \A x \in Cells : dirty'[ev][x]
  BY <1>1, <1>2 DEF ScreenInv, ScreenType
<1>8. \A x \in Cells : Right(x)' <=> Right(x)
  BY <1>1 DEF Right
<1>9. ShownOK'
  <2> SUFFICES ASSUME shown \notin lost PROVE ShownOK'
    BY <1>1, <1>2 DEF ShownOK
  <2>1. ASSUME NEW b \in Actors, My(b)' = shown, at'[b] = "putc"
        PROVE  \/ cursor[shown] = Size
               \/ \A x \in Cells : dirty[shown][x] \/ Right(x) \/ x \in Marked(cursor[shown], out[b])
    <3>1. b # T /\ My(b) = shown /\ at[b] = "putc"
      BY <1>3, <2>1
    <3> QED BY <3>1 DEF ScreenInv, ShownOK
  <2>2. ASSUME NEW b \in Actors, My(b)' = shown, at'[b] = "clear" PROVE \A x \in Cells : Right(x)
    <3>1. b # T /\ My(b) = shown /\ at[b] = "clear"
      BY <1>3, <2>2
    <3> QED BY <3>1 DEF ScreenInv, ShownOK
  <2>3. lock[shown] = 1 => \A x \in Cells : dirty[shown][x] \/ Right(x)
    BY DEF ScreenInv, ShownOK
  <2> QED BY <1>1, <1>7, <1>8, <2>1, <2>2, <2>3 DEF ShownOK
<1>10. ComingOK'
  <2>1. ASSUME ev \notin lost', NEW b \in Actors, My(b)' = ev PROVE at'[b] # "clear"
    BY <1>1, <1>3, <2>1
  <2> QED BY <1>1, <1>7, <2>1 DEF ComingOK
<1> QED BY <1>4, <1>5, <1>6, <1>9, <1>10 DEF ScreenInv

LEMMA SwitchToKeeps ==
  ASSUME ScreenInv, SwitchTo
  PROVE  ScreenInv'
<1>1. /\ at[T] = "current" /\ shown' = tty /\ at' = [at EXCEPT ![T] = "write"]
      /\ UNCHANGED <<load, cells, cursor, dirty, show, tty, screen, lost, lock, out, ev>>
  BY DEF SwitchTo, Goto, inputVars
<1>2. T \in Actors /\ tty \in Terms
  BY DEF ScreenInv, ScreenType, Actors
<1>3. /\ at'[T] = "write" /\ ~Held(T) /\ ~Held(T)'
      /\ \A b \in Actors : b # T => at'[b] = at[b] /\ (Held(b)' <=> Held(b))
      /\ \A b \in Actors : My(b)' = My(b)
  BY <1>1, <1>2 DEF ScreenInv, ScreenType, Held, My
<1>4. ScreenType'
  BY <1>1, <1>2 DEF ScreenInv, ScreenType, Positions
<1>5. LocksOK'
  BY <1>1, <1>3 DEF ScreenInv, LocksOK, Held
<1>6. DaemonOK' /\ ComingOK'
  BY <1>1, <1>3 DEF DaemonOK, ComingOK
<1>7. ShownOK'
  <2> SUFFICES ASSUME tty \notin lost PROVE ShownOK'
    BY <1>1 DEF ShownOK
  <2>1. /\ \A x \in Cells : dirty[tty][x]
        /\ \A b \in Actors : My(b) = tty => at[b] # "clear"
    BY <1>1 DEF ScreenInv, ComingOK
  <2>2. \A b \in Actors : My(b) = tty => at'[b] # "clear"
    BY <2>1, <1>3
  <2> QED BY <1>1, <1>3, <2>1, <2>2 DEF ShownOK
<1> QED BY <1>4, <1>5, <1>6, <1>7 DEF ScreenInv

LEMMA ScreenStep == ScreenInv /\ [Next]_vars => ScreenInv'
<1> SUFFICES ASSUME ScreenInv, [Next]_vars PROVE ScreenInv'
    OBVIOUS
<1>1. CASE UNCHANGED vars
  BY <1>1, ScreenFrame DEF vars, ttyVars, inputVars
<1>2. CASE InputStep /\ UNCHANGED ttyVars
  <2>1. UNCHANGED load
    BY <1>2 DEF InputStep, input_keydown, CheckTime, push_event, PostEvent, Sleep, input_notify
  <2> QED BY <1>2, <2>1, ScreenFrame DEF ttyVars
<1>3. CASE tty_queue_full
  BY <1>3, ScreenFrame DEF tty_queue_full, ttyVars, inputVars
<1>4. ASSUME NEW r \in Readers, WaitLine(r) \/ \E n \in Counts : ReadLine(r, n) PROVE ScreenInv'
  BY <1>4, ScreenFrame DEF WaitLine, ReadLine, inputVars
<1> QED
  BY <1>1, <1>2, <1>3, <1>4, DaemonKeeps, WriterKeeps, StartKeeps, EndKeeps, DrawKeeps, ClearKeeps,
     SwitchMarkKeeps, SwitchToKeeps DEF Next

\* Whenever nobody is at work on the terminal on display, each of its cells is
\* shown, or is marked to be drawn: for any number of terminals, writers and
\* cells.  The one exception is in ScreenTrue: a switch to a terminal that a task
\* is rendering.
THEOREM ScreenNeverStale == Spec => []ScreenTrue
<1>1. ScreenInv => ScreenTrue
  BY DEF ScreenInv, ShownOK, ScreenTrue, Right
<1> QED BY <1>1, ScreenInit, ScreenStep, PTL DEF Spec

-----------------------------------------------------------------------------
(* The line queues.  Places of a ring of N are told by their distance from  *)
(* the front.                                                               *)

Away(N, f, p) == (p - f) % N

LEMMA RingWrap ==
  ASSUME NEW N \in Nat \ {0}, NEW i \in 0 .. (2 * N - 1)
  PROVE  i % N = IF i < N THEN i ELSE i - N
<1>1. CASE i < N
  BY <1>1
<1>2. CASE i >= N
  <2>1. (i - N) % N = i - N
    BY <1>2
  <2>2. i % N = (i - N) % N
    <3> DEFINE k == i \div N
               m == i % N
    <3>1. k \in Int /\ i = N * k + m /\ m \in 0 .. N - 1
      OBVIOUS
    <3> HIDE DEF k, m
    <3>2. N * (k - 1) = i - N - m
      BY <3>1
    <3>3. k - 1 >= 1 => N * (k - 1) >= N
      BY <3>1
    <3>4. k - 1 <= -1 => N * (k - 1) <= -N
      BY <3>1
    <3>5. m = i - N
      BY <1>2, <3>1, <3>2, <3>3, <3>4
    <3> QED BY <2>1, <3>5 DEF m
  <2> QED BY <1>2, <2>1, <2>2
<1> QED BY <1>1, <1>2

LEMMA Distances ==
  ASSUME NEW N \in Nat \ {0}, N >= 3, NEW f \in 0 .. N - 1
  PROVE  /\ \A p \in 0 .. N - 1 : Away(N, f, p) \in 0 .. N - 1
         /\ \A p, q \in 0 .. N - 1 : Away(N, f, p) = Away(N, f, q) => p = q
         /\ Away(N, f, f) = 0
         /\ \A p \in 0 .. N - 1 : (p + 1) % N \in 0 .. N - 1 /\ (p + N - 1) % N \in 0 .. N - 1
         /\ Away(N, f, (f + N - 1) % N) = N - 1
         /\ \A p \in 0 .. N - 1 :
              Away(N, f, p) < N - 1 => Away(N, f, (p + 1) % N) = Away(N, f, p) + 1
         /\ \A p \in 0 .. N - 1 :
              p # f => Away(N, f, (p + N - 1) % N) = Away(N, f, p) - 1
         /\ \A p \in 0 .. N - 1 : (f - p - 1) % N = N - 1 - Away(N, f, p)
         /\ \A m \in 0 .. N - 1 : (f + m) % N \in 0 .. N - 1 /\ Away(N, f, (f + m) % N) = m
         /\ \A p \in 0 .. N - 1 : (f + Away(N, f, p)) % N = p
<1>1. \A p \in 0 .. N - 1 : Away(N, f, p) = IF p >= f THEN p - f ELSE p - f + N
  BY RingDistance DEF Away
<1>2. \A i \in 0 .. (2 * N - 1) : i % N = IF i < N THEN i ELSE i - N
  BY RingWrap
<1>3. ASSUME NEW p \in 0 .. N - 1
      PROVE  /\ (p + 1) % N = IF p = N - 1 THEN 0 ELSE p + 1
             /\ (p + N - 1) % N = IF p = 0 THEN N - 1 ELSE p - 1
             /\ (f + p) % N = IF f + p < N THEN f + p ELSE f + p - N
  <2>1. p + 1 \in 0 .. (2 * N - 1) /\ p + N - 1 \in 0 .. (2 * N - 1) /\ f + p \in 0 .. (2 * N - 1)
    OBVIOUS
  <2>2. (p + 1) % N = IF p + 1 < N THEN p + 1 ELSE p + 1 - N
    BY <2>1, <1>2
  <2>3. (p + N - 1) % N = IF p + N - 1 < N THEN p + N - 1 ELSE p + N - 1 - N
    BY <2>1, <1>2
  <2>4. (f + p) % N = IF f + p < N THEN f + p ELSE f + p - N
    BY <2>1, <1>2
  <2> QED BY <2>2, <2>3, <2>4
<1>4. ASSUME NEW p \in 0 .. N - 1 PROVE (f - p - 1) % N = N - 1 - Away(N, f, p)
  <2>1. CASE p = N - 1
    <3>1. (f - p - 1) % N = f
      <4>1. f - p - 1 = f - N
        BY <2>1
      <4>2. (f - N) % N = f
        OBVIOUS
      <4> QED BY <4>1, <4>2
    <3> QED BY <2>1, <3>1, <1>1
  <2>2. CASE p # N - 1
    <3>1. p + 1 \in 0 .. N - 1 /\ f - p - 1 = f - (p + 1)
      BY <2>2
    <3>2. (f - (p + 1)) % N = IF f >= p + 1 THEN f - (p + 1) ELSE f - (p + 1) + N
      BY <3>1, RingDistance
    <3> QED BY <3>1, <3>2, <1>1
  <2> QED BY <2>1, <2>2
<1>5. Away(N, f, f) = 0 /\ Away(N, f, (f + N - 1) % N) = N - 1
  BY <1>1, <1>3
<1>6. ASSUME NEW p \in 0 .. N - 1
      PROVE  /\ Away(N, f, p) \in 0 .. N - 1
             /\ (p + 1) % N \in 0 .. N - 1 /\ (p + N - 1) % N \in 0 .. N - 1
             /\ Away(N, f, p) < N - 1 => Away(N, f, (p + 1) % N) = Away(N, f, p) + 1
             /\ p # f => Away(N, f, (p + N - 1) % N) = Away(N, f, p) - 1
             /\ (f + p) % N \in 0 .. N - 1 /\ Away(N, f, (f + p) % N) = p
  <2> DEFINE a == (p + 1) % N
             b == (p + N - 1) % N
             c == (f + p) % N
  <2>1. a = (IF p = N - 1 THEN 0 ELSE p + 1) /\ b = (IF p = 0 THEN N - 1 ELSE p - 1)
        /\ c = (IF f + p < N THEN f + p ELSE f + p - N)
    BY <1>3
  <2> HIDE DEF a, b, c
  <2>2. a \in 0 .. N - 1 /\ b \in 0 .. N - 1 /\ c \in 0 .. N - 1
    BY <2>1
  <2>3. /\ Away(N, f, p) = IF p >= f THEN p - f ELSE p - f + N
        /\ Away(N, f, a) = IF a >= f THEN a - f ELSE a - f + N
        /\ Away(N, f, b) = IF b >= f THEN b - f ELSE b - f + N
        /\ Away(N, f, c) = IF c >= f THEN c - f ELSE c - f + N
    BY <1>1, <2>2
  <2>4. Away(N, f, p) \in 0 .. N - 1 /\ Away(N, f, c) = p
    BY <2>1, <2>3
  <2>5. Away(N, f, p) < N - 1 => Away(N, f, a) = Away(N, f, p) + 1
    BY <2>1, <2>3
  <2>6. p # f => Away(N, f, b) = Away(N, f, p) - 1
    BY <2>1, <2>3
  <2> QED BY <2>2, <2>4, <2>5, <2>6 DEF a, b, c
<1>7. ASSUME NEW p \in 0 .. N - 1 PROVE (f + Away(N, f, p)) % N = p
  <2>1. Away(N, f, p) \in 0 .. N - 1
    BY <1>6
  <2>2. (f + Away(N, f, p)) % N \in 0 .. N - 1
        /\ Away(N, f, (f + Away(N, f, p)) % N) = Away(N, f, p)
    BY <1>6, <2>1
  <2>3. ASSUME NEW q \in 0 .. N - 1, Away(N, f, q) = Away(N, f, p) PROVE q = p
    BY <1>1, <2>3
  <2> QED BY <2>2, <2>3
<1>8. \A p, q \in 0 .. N - 1 : Away(N, f, p) = Away(N, f, q) => p = q
  BY <1>1
<1> QED BY <1>4, <1>5, <1>6, <1>7, <1>8

\* A front m + 1 places further on.
LEMMA DistancesNext ==
  ASSUME NEW N \in Nat \ {0}, N >= 3, NEW f \in 0 .. N - 1, NEW m \in 0 .. N - 2
  PROVE  /\ (f + m + 1) % N \in 0 .. N - 1
         /\ (((f + m + 1) % N) + N - 1) % N = (f + m) % N
         /\ \A p \in 0 .. N - 1 :
              Away(N, (f + m + 1) % N, p)
                = IF Away(N, f, p) > m THEN Away(N, f, p) - m - 1 ELSE Away(N, f, p) + N - m - 1
<1> DEFINE g == (f + m + 1) % N
<1>1. g = IF f + m + 1 < N THEN f + m + 1 ELSE f + m + 1 - N
  <2>1. \A i \in 0 .. (2 * N - 1) : i % N = IF i < N THEN i ELSE i - N
    BY RingWrap
  <2>2. f + m + 1 \in 0 .. (2 * N - 1)
    OBVIOUS
  <2> QED BY ONLY <2>1, <2>2
<1>2. g \in 0 .. N - 1
  BY <1>1
<1>3. (f + m) % N = IF f + m < N THEN f + m ELSE f + m - N
  <2>1. \A i \in 0 .. (2 * N - 1) : i % N = IF i < N THEN i ELSE i - N
    BY RingWrap
  <2>2. f + m \in 0 .. (2 * N - 1)
    OBVIOUS
  <2> QED BY ONLY <2>1, <2>2
<1> HIDE DEF g
<1>4. (g + N - 1) % N = IF g = 0 THEN N - 1 ELSE g - 1
  <2>1. \A h \in 0 .. N - 1 : (h + N - 1) % N = IF h = 0 THEN N - 1 ELSE h - 1
    <3> SUFFICES ASSUME NEW h \in 0 .. N - 1
                 PROVE  (h + N - 1) % N = IF h = 0 THEN N - 1 ELSE h - 1
        OBVIOUS
    <3>1. \A i \in 0 .. (2 * N - 1) : i % N = IF i < N THEN i ELSE i - N
      BY RingWrap
    <3>2. h + N - 1 \in 0 .. (2 * N - 1)
      OBVIOUS
    <3>3. (h + N - 1) % N = IF h + N - 1 < N THEN h + N - 1 ELSE h + N - 1 - N
      BY ONLY <3>1, <3>2
    <3> QED BY <3>3
  <2> QED BY <2>1, <1>2
<1>5. ASSUME NEW p \in 0 .. N - 1
      PROVE  Away(N, g, p) = IF Away(N, f, p) > m THEN Away(N, f, p) - m - 1 ELSE Away(N, f, p) + N - m - 1
  <2>1. Away(N, g, p) = IF p >= g THEN p - g ELSE p - g + N
    BY <1>2, RingDistance DEF Away
  <2>2. Away(N, f, p) = IF p >= f THEN p - f ELSE p - f + N
    BY RingDistance DEF Away
  <2> QED BY <2>1, <2>2, <1>1, <1>2
<1> QED BY <1>1, <1>2, <1>3, <1>4, <1>5 DEF g

-----------------------------------------------------------------------------
Less == {ss \in Nat \X Nat : ss[1] < ss[2]}

LEMMA LeastNatural ==
  ASSUME NEW S, S \subseteq Nat, S # {}
  PROVE  \E n \in S : \A m \in S : n <= m
<1>1. IsWellFoundedOn(Less, Nat)
  BY NatLessThanWellFounded DEF Less, OpToRel
<1>2. PICK n \in S : \A m \in S : <<m, n>> \notin Less
  BY <1>1, WFMin
<1>3. ASSUME NEW m \in S PROVE n <= m
  <2>1. m \in Nat /\ n \in Nat
    OBVIOUS
  <2>2. ~(m < n)
    BY <1>2, <2>1 DEF Less
  <2> QED BY <2>1, <2>2
<1> QED BY <1>3

-----------------------------------------------------------------------------
(* The ends of lines in a queue q from the front f to the rear e, as places. *)

EndSet(q, f, e) == {p \in Places : Away(QSize, f, p) < Away(QSize, f, e) /\ q[p] = NUL}
QueueMemory == [Places -> Characters]

\* The distances of Distances, for the places of a line queue.
LEMMA PlaceFacts ==
  ASSUME NEW f \in Places
  PROVE  /\ \A p \in Places : Away(QSize, f, p) \in 0 .. QSize - 1
         /\ \A p, q \in Places : Away(QSize, f, p) = Away(QSize, f, q) => p = q
         /\ Away(QSize, f, f) = 0
         /\ \A p \in Places : Ahead(p) \in Places /\ Back(p) \in Places
         /\ Away(QSize, f, Back(f)) = QSize - 1
         /\ \A p \in Places :
              Away(QSize, f, p) < QSize - 1 => Away(QSize, f, Ahead(p)) = Away(QSize, f, p) + 1
         /\ \A p \in Places : p # f => Away(QSize, f, Back(p)) = Away(QSize, f, p) - 1
         /\ \A p \in Places : (f - p - 1) % QSize = QSize - 1 - Away(QSize, f, p)
         /\ \A m \in Places : (f + m) % QSize \in Places /\ Away(QSize, f, (f + m) % QSize) = m
         /\ \A p \in Places : (f + Away(QSize, f, p)) % QSize = p
<1>1. QSize \in Nat \ {0} /\ QSize >= 3 /\ f \in 0 .. QSize - 1
  BY TtyAssumption DEF Places
<1> QED BY <1>1, Distances DEF Places, Ahead, Back

WithLetter(q, e, ch) == [q EXCEPT ![e] = ch, ![Ahead(e)] = NUL]

LEMMA LetterEnds ==
  ASSUME NEW q \in QueueMemory, NEW f \in Places, NEW e \in Places, q[Back(f)] = NUL,
         NEW ch \in Characters, ch # NUL, (f - e - 1) % QSize >= 1
  PROVE  /\ WithLetter(q, e, ch) \in QueueMemory /\ Ahead(e) \in Places
         /\ WithLetter(q, e, ch)[Back(f)] = NUL
         /\ EndSet(WithLetter(q, e, ch), f, Ahead(e)) = EndSet(q, f, e)
<1> DEFINE qq == WithLetter(q, e, ch)
<1>1. QSize \in Nat /\ QSize >= 3 /\ NUL \in Characters
  BY TtyAssumption DEF Characters
<1> DEFINE d(p) == Away(QSize, f, p)
<1>2. \A p \in Places : d(p) \in 0 .. QSize - 1
  BY PlaceFacts
<1>3. d(e) <= QSize - 2
  BY PlaceFacts, <1>1, <1>2
<1>4. Ahead(e) \in Places /\ d(Ahead(e)) = d(e) + 1
  BY PlaceFacts, <1>1, <1>2, <1>3
<1>5. Back(f) \in Places /\ d(Back(f)) = QSize - 1
  BY PlaceFacts
<1>6. \A p, r \in Places : d(p) = d(r) => p = r
  BY PlaceFacts
<1> HIDE DEF d
<1>7. /\ qq \in QueueMemory
      /\ \A p \in Places : qq[p] = IF p = Ahead(e) THEN NUL ELSE IF p = e THEN ch ELSE q[p]
  BY <1>1, <1>4 DEF QueueMemory, WithLetter
<1> HIDE DEF qq
<1>8. qq[Back(f)] = NUL
  <2>1. Back(f) # e
    <3>1. d(e) \in Int /\ d(e) # QSize - 1
      BY <1>1, <1>2, <1>3
    <3> QED BY <3>1, <1>5
  <2> QED BY <2>1, <1>5, <1>7
<1>9. ASSUME NEW p \in Places
      PROVE  d(p) < d(Ahead(e)) /\ qq[p] = NUL <=> d(p) < d(e) /\ q[p] = NUL
  <2>0. d(p) \in Int /\ d(e) \in Int /\ d(Ahead(e)) = d(e) + 1
    BY <1>2, <1>4
  <2>1. CASE d(p) < d(e)
    <3>1. p # e /\ p # Ahead(e)
      BY <2>1, <1>1, <1>2, <1>4
    <3>2. qq[p] = q[p]
      BY <3>1, <1>7
    <3> QED BY <3>2, <2>0, <2>1
  <2>2. CASE d(p) = d(e)
    <3>1. p = e /\ p # Ahead(e)
      BY <2>2, <1>1, <1>2, <1>4, <1>6
    <3>2. qq[p] # NUL
      BY <3>1, <1>7
    <3> QED BY <3>2, <2>0, <2>2
  <2>3. CASE d(p) > d(e)
    BY <2>0, <2>3
  <2> QED BY <2>0, <2>1, <2>2, <2>3
<1> QED BY <1>4, <1>7, <1>8, <1>9 DEF EndSet, d, qq

LEMMA LineEnds ==
  ASSUME NEW q \in QueueMemory, NEW f \in Places, NEW e \in Places, q[Back(f)] = NUL,
         (f - e - 1) % QSize >= 2,
         NEW qq, qq = [q EXCEPT ![e] = NL, ![Ahead(e)] = NUL, ![Ahead(Ahead(e))] = NUL]
  PROVE  /\ qq \in QueueMemory /\ Ahead(Ahead(e)) \in Places /\ qq[Back(f)] = NUL
         /\ EndSet(qq, f, Ahead(Ahead(e))) = EndSet(q, f, e) \cup {Ahead(e)}
         /\ Ahead(e) \notin EndSet(q, f, e)
<1>1. QSize \in Nat /\ QSize >= 3 /\ NUL \in Characters /\ NL \in Characters /\ NL # NUL
  BY TtyAssumption, CharAssumption DEF Characters, Chars
<1> DEFINE d(p) == Away(QSize, f, p)
<1>2. \A p \in Places : d(p) \in 0 .. QSize - 1
  BY PlaceFacts
<1>3. d(e) <= QSize - 3
  BY PlaceFacts, <1>1, <1>2
<1>4. Ahead(e) \in Places /\ d(Ahead(e)) = d(e) + 1
  BY PlaceFacts, <1>1, <1>2, <1>3
<1>5. Ahead(Ahead(e)) \in Places /\ d(Ahead(Ahead(e))) = d(e) + 2
  <2>1. d(Ahead(e)) < QSize - 1 /\ d(e) \in Int
    BY <1>1, <1>2, <1>3, <1>4
  <2>2. Ahead(Ahead(e)) \in Places /\ d(Ahead(Ahead(e))) = d(Ahead(e)) + 1
    BY <2>1, <1>4, PlaceFacts
  <2>3. d(e) + 1 + 1 = d(e) + 2
    BY <2>1
  <2> QED BY <2>2, <2>3, <1>4
<1>6. Back(f) \in Places /\ d(Back(f)) = QSize - 1
  BY PlaceFacts
<1>7. \A p, r \in Places : d(p) = d(r) => p = r
  BY PlaceFacts
<1> HIDE DEF d
<1>8. /\ qq \in QueueMemory
      /\ \A p \in Places : qq[p] = IF p = Ahead(Ahead(e)) \/ p = Ahead(e) THEN NUL
                                   ELSE IF p = e THEN NL ELSE q[p]
  BY <1>1, <1>4, <1>5 DEF QueueMemory
<1>9. qq[Back(f)] = NUL
  <2>1. Back(f) # e
    <3>1. d(e) \in Int /\ d(e) # QSize - 1
      BY <1>1, <1>2, <1>3
    <3> QED BY <3>1, <1>6
  <2> QED BY <2>1, <1>6, <1>8
<1>10. ASSUME NEW p \in Places
       PROVE  d(p) < d(e) + 2 /\ qq[p] = NUL <=> (d(p) < d(e) /\ q[p] = NUL) \/ p = Ahead(e)
  <2>0. /\ d(p) \in Int /\ d(e) \in Int /\ d(Ahead(e)) = d(e) + 1
        /\ d(Ahead(Ahead(e))) = d(e) + 2
    BY <1>2, <1>4, <1>5
  <2>1. CASE d(p) < d(e)
    <3>1. p # e /\ p # Ahead(e) /\ p # Ahead(Ahead(e))
      BY <2>0, <2>1
    <3>2. qq[p] = q[p]
      BY <3>1, <1>8
    <3> QED BY <3>1, <3>2, <2>0, <2>1
  <2>2. CASE d(p) = d(e)
    <3>1. p = e /\ p # Ahead(e) /\ p # Ahead(Ahead(e))
      BY <2>0, <2>2, <1>7
    <3>2. qq[p] # NUL
      BY <3>1, <1>1, <1>8
    <3> QED BY <3>1, <3>2, <2>0, <2>2
  <2>3. CASE d(p) = d(e) + 1
    <3>1. p = Ahead(e)
      BY <2>3, <1>4, <1>7
    <3>2. qq[p] = NUL
      BY <3>1, <1>8
    <3> QED BY <3>1, <3>2, <2>0, <2>3
  <2>4. CASE d(p) > d(e) + 1
    <3>1. p # Ahead(e)
      BY <2>0, <2>4
    <3> QED BY <3>1, <2>0, <2>4
  <2> QED BY <2>0, <2>1, <2>2, <2>3, <2>4
<1>11. Ahead(e) \notin EndSet(q, f, e)
  BY <1>2, <1>4 DEF EndSet, d
<1>12. EndSet(qq, f, Ahead(Ahead(e))) = EndSet(q, f, e) \cup {Ahead(e)}
  BY <1>4, <1>5, <1>10 DEF EndSet, d
<1> QED BY <1>5, <1>8, <1>9, <1>11, <1>12

LEMMA EraseEnds ==
  ASSUME NEW q \in QueueMemory, NEW f \in Places, NEW e \in Places, q[Back(f)] = NUL,
         q[Back(e)] # NUL, NEW qq, qq = [q EXCEPT ![Back(e)] = NUL]
  PROVE  /\ qq \in QueueMemory /\ Back(e) \in Places /\ qq[Back(f)] = NUL
         /\ EndSet(qq, f, Back(e)) = EndSet(q, f, e)
<1>1. QSize \in Nat /\ QSize >= 3 /\ NUL \in Characters /\ e # f
  BY TtyAssumption DEF Characters
<1> DEFINE d(p) == Away(QSize, f, p)
<1>2. \A p \in Places : d(p) \in 0 .. QSize - 1
  BY PlaceFacts
<1>3. Back(e) \in Places /\ d(Back(e)) = d(e) - 1 /\ Back(f) \in Places
  BY PlaceFacts, <1>1
<1>4. \A p, r \in Places : d(p) = d(r) => p = r
  BY PlaceFacts
<1> HIDE DEF d
<1>5. /\ qq \in QueueMemory
      /\ \A p \in Places : qq[p] = IF p = Back(e) THEN NUL ELSE q[p]
  BY <1>1, <1>3 DEF QueueMemory
<1>6. ASSUME NEW p \in Places
      PROVE  d(p) < d(e) - 1 /\ qq[p] = NUL <=> d(p) < d(e) /\ q[p] = NUL
  <2>1. CASE p = Back(e)
    BY <2>1, <1>2, <1>3
  <2>2. CASE p # Back(e)
    <3>1. d(p) # d(e) - 1
      BY <2>2, <1>3, <1>4
    <3>2. d(p) < d(e) - 1 <=> d(p) < d(e)
      BY <3>1, <1>2
    <3> QED BY <2>2, <3>2, <1>5
  <2> QED BY <2>1, <2>2
<1>7. EndSet(qq, f, Back(e)) = EndSet(q, f, e)
  BY <1>3, <1>6 DEF EndSet, d
<1> QED BY <1>3, <1>5, <1>7

\* Taking a line, up to the first end, which is n places from the front.
LEMMA ReadEnds ==
  ASSUME NEW q \in QueueMemory, NEW f \in Places, NEW e \in Places, EndSet(q, f, e) # {},
         NEW n \in Places, q[(f + n) % QSize] = NUL,
         \A m \in 0 .. n - 1 : q[(f + m) % QSize] # NUL,
         NEW g, g = (f + n + 1) % QSize
  PROVE  /\ g \in Places /\ q[Back(g)] = NUL
         /\ (f + n) % QSize \in EndSet(q, f, e)
         /\ EndSet(q, g, e) = EndSet(q, f, e) \ {(f + n) % QSize}
<1>1. QSize \in Nat \ {0} /\ QSize >= 3
  BY TtyAssumption
<1> DEFINE d(p) == Away(QSize, f, p)
           c(p) == Away(QSize, g, p)
           z == (f + n) % QSize
<1>2. \A p \in Places : d(p) \in 0 .. QSize - 1 /\ (f + d(p)) % QSize = p
  BY PlaceFacts
<1>3. z \in Places /\ d(z) = n
  BY PlaceFacts
<1>4. ASSUME NEW p \in Places, q[p] = NUL PROVE d(p) >= n
  <2>1. d(p) \in 0 .. QSize - 1 /\ q[(f + d(p)) % QSize] = NUL
    BY <1>2, <1>4
  <2> DEFINE m == d(p)
  <2>2. m \in Int /\ m >= 0 /\ q[(f + m) % QSize] = NUL /\ n \in Int
    BY <2>1, <1>1 DEF Places
  <2> HIDE DEF m
  <2>3. ~(m < n)
    BY <2>2
  <2>4. m >= n
    BY <2>2, <2>3
  <2> QED BY <2>4 DEF m
<1>5. PICK x \in Places : d(x) < d(e) /\ q[x] = NUL
  BY DEF EndSet
<1>6. n < d(e) /\ n \in 0 .. QSize - 2
  <2>1. d(x) >= n /\ d(x) \in 0 .. QSize - 1 /\ d(e) \in 0 .. QSize - 1
    BY <1>2, <1>4, <1>5
  <2> QED BY <2>1, <1>5, <1>1 DEF Places
<1>7. g \in 0 .. QSize - 1 /\ (g + QSize - 1) % QSize = z
  BY <1>1, <1>6, DistancesNext DEF Places
<1>8. \A p \in Places : c(p) = IF d(p) > n THEN d(p) - n - 1 ELSE d(p) + QSize - n - 1
  BY <1>1, <1>6, DistancesNext DEF Places
<1>9. \A p, r \in Places : d(p) = d(r) => p = r
  BY PlaceFacts
<1> HIDE DEF d, c, z
<1>10. ASSUME NEW p \in Places
       PROVE  c(p) < c(e) /\ q[p] = NUL <=> d(p) < d(e) /\ q[p] = NUL /\ p # z
  <2>0. d(p) \in 0 .. QSize - 1 /\ d(e) \in 0 .. QSize - 1 /\ QSize \in Nat /\ n \in Nat
    BY <1>1, <1>2, <1>6
  <2>1. c(e) = d(e) - n - 1
    BY <1>6, <1>8
  <2>2. CASE q[p] = NUL /\ d(p) > n
    <3>1. p # z
      BY <2>0, <2>2, <1>3
    <3>2. c(p) = d(p) - n - 1
      BY <2>2, <1>8
    <3> QED BY <3>1, <3>2, <2>0, <2>1, <2>2
  <2>3. CASE q[p] = NUL /\ d(p) = n
    <3>1. p = z
      BY <2>3, <1>3, <1>9
    <3>2. c(p) = d(p) + QSize - n - 1
      BY <2>0, <2>3, <1>8
    <3>3. ~(c(p) < c(e))
      BY <3>2, <2>0, <2>1, <2>3
    <3> QED BY <3>1, <3>3
  <2>4. q[p] = NUL => d(p) > n \/ d(p) = n
    BY <2>0, <1>4
  <2> QED BY <2>2, <2>3, <2>4
<1>11. EndSet(q, g, e) = EndSet(q, f, e) \ {z}
  BY <1>10 DEF EndSet, c, d
<1>12. z \in EndSet(q, f, e)
  BY <1>3, <1>6 DEF EndSet, d, z
<1>13. q[Back(g)] = NUL
  BY <1>7 DEF Back, z
<1> QED BY <1>7, <1>11, <1>12, <1>13 DEF z, Places

LEMMA FirstEnd ==
  ASSUME NEW q \in QueueMemory, NEW f \in Places, NEW e \in Places, EndSet(q, f, e) # {}
  PROVE  \E n \in Places : /\ q[(f + n) % QSize] = NUL
                           /\ \A m \in 0 .. n - 1 : q[(f + m) % QSize] # NUL
<1> DEFINE S == {n \in Places : q[(f + n) % QSize] = NUL}
<1>1. S \subseteq Nat /\ S # {}
  <2>1. PICK p \in Places : q[p] = NUL
    BY DEF EndSet
  <2>2. Away(QSize, f, p) \in Places /\ (f + Away(QSize, f, p)) % QSize = p
    BY PlaceFacts, TtyAssumption DEF Places
  <2>3. Away(QSize, f, p) \in S
    BY <2>1, <2>2
  <2> QED BY <2>3, TtyAssumption DEF Places
<1> HIDE DEF S
<1>2. PICK n \in S : \A m \in S : n <= m
  BY <1>1, LeastNatural
<1>3. n \in Places /\ q[(f + n) % QSize] = NUL
  BY <1>2 DEF S
<1>4. ASSUME NEW m \in 0 .. n - 1, q[(f + m) % QSize] = NUL PROVE FALSE
  <2>1. m \in Places /\ n \in Nat /\ m < n
    BY <1>3, TtyAssumption DEF Places
  <2>2. m \in S
    BY <2>1, <1>4 DEF S
  <2> QED BY <2>1, <2>2, <1>2
<1> QED BY <1>3, <1>4

\* Counting the ends by their indexes in Content is counting their places.
LEMMA EndsBijection ==
  ASSUME NEW q \in QueueMemory, NEW f \in Places, NEW e \in Places,
         NEW c, c = [i \in 1 .. (e - f) % QSize |-> q[(f + (i - 1)) % QSize]]
  PROVE  Cardinality(Ends(c)) = Cardinality(EndSet(q, f, e))
<1> DEFINE n == Away(QSize, f, e)
           S == Ends(c)
           U == EndSet(q, f, e)
           F == [i \in S |-> (f + (i - 1)) % QSize]
<1>1. QSize \in Nat /\ n \in 0 .. QSize - 1 /\ n = (e - f) % QSize
  BY PlaceFacts, TtyAssumption DEF Away
<1> HIDE DEF n
<1>2. S = {i \in 1 .. n : q[(f + (i - 1)) % QSize] = NUL}
  BY <1>1 DEF Ends
<1>3. U = {p \in Places : Away(QSize, f, p) < n /\ q[p] = NUL}
  BY DEF EndSet, n
<1>4. IsFiniteSet(S)
  <2>1. S \in SUBSET (1 .. n)
    BY <1>2
  <2> HIDE DEF S
  <2>2. n \in Int /\ 1 \in Int
    BY <1>1
  <2>3. IsFiniteSet(1 .. n)
    BY ONLY <2>2, FS_Interval
  <2> QED BY <2>1, <2>3, FS_Subset
<1> HIDE DEF S, U
<1>5. ASSUME NEW i \in S PROVE F[i] \in U /\ Away(QSize, f, F[i]) = i - 1
  <2>1. i \in 1 .. n /\ q[(f + (i - 1)) % QSize] = NUL
    BY <1>2
  <2>2. i - 1 \in Places /\ i - 1 < n
    BY <1>1, <2>1 DEF Places
  <2>3. (f + (i - 1)) % QSize \in Places /\ Away(QSize, f, (f + (i - 1)) % QSize) = i - 1
    BY <2>2, PlaceFacts
  <2>4. F[i] = (f + (i - 1)) % QSize
    OBVIOUS
  <2> HIDE DEF F
  <2>5. F[i] \in Places /\ Away(QSize, f, F[i]) < n /\ q[F[i]] = NUL
    BY <2>1, <2>2, <2>3, <2>4
  <2> QED BY <2>3, <2>4, <2>5, <1>3
<1>6. ASSUME NEW p \in U PROVE \E i \in S : F[i] = p
  <2>1. p \in Places /\ Away(QSize, f, p) < n /\ q[p] = NUL
    BY <1>3
  <2>2. Away(QSize, f, p) \in 0 .. QSize - 1 /\ (f + Away(QSize, f, p)) % QSize = p
    BY <2>1, PlaceFacts
  <2> DEFINE i == Away(QSize, f, p) + 1
  <2>3. i \in 1 .. n /\ i - 1 = Away(QSize, f, p)
    BY <1>1, <2>1, <2>2
  <2> HIDE DEF i
  <2>4. i \in S
    BY <2>1, <2>2, <2>3, <1>2
  <2> QED BY <2>2, <2>3, <2>4
<1>7. F \in [S -> U] /\ \A i, j \in S : F[i] = F[j] => i = j
  <2>1. F \in [S -> U]
    BY <1>5
  <2>2. ASSUME NEW i \in S, NEW j \in S, F[i] = F[j] PROVE i = j
    <3>1. i \in Int /\ j \in Int
      BY <1>1, <1>2
    <3>2. i - 1 = j - 1
      BY <1>5, <2>2
    <3> QED BY <3>1, <3>2
  <2> QED BY <2>1, <2>2
<1> HIDE DEF F
<1>8. F \in Bijection(S, U)
  BY <1>6, <1>7 DEF Bijection, Injection, Surjection, IsInjective
<1>9. Cardinality(U) = Cardinality(S)
  BY <1>4, <1>8, FS_Bijection DEF ExistsBijection
<1> QED BY <1>9 DEF S, U

-----------------------------------------------------------------------------
(* The line queues of all terminals. *)

EndsOf(t)  == EndSet(queue[t], qfront[t], qrear[t])
Waiting(t) == {r \in Readers : rd[r] = "line" /\ load.uses[r] = t}

LinesType ==
  /\ queue \in [Terms -> QueueMemory]
  /\ qfront \in [Terms -> Places] /\ qrear \in [Terms -> Places]
  /\ cooked \in [Terms -> Nat] /\ rd \in [Readers -> {"out", "line"}]

\* Before the front of a queue there is an end, so that tty_pop_back stops there.
LineOK(t) ==
  /\ queue[t][Back(qfront[t])] = NUL
  /\ cooked[t] + Cardinality(Waiting(t)) = Cardinality(EndsOf(t))

LinesInv == LinesType /\ \A t \in Terms : LineOK(t)

LEMMA EndsFinite ==
  ASSUME NEW q, NEW f, NEW e
  PROVE  IsFiniteSet(EndSet(q, f, e)) /\ Cardinality(EndSet(q, f, e)) \in Nat
<1>1. IsFiniteSet(Places)
  BY FS_Interval, TtyAssumption DEF Places
<1>2. EndSet(q, f, e) \in SUBSET Places
  BY DEF EndSet
<1> QED BY <1>1, <1>2, FS_Subset, FS_CardinalityType

LEMMA WaitingFinite ==
  ASSUME NEW W, W \subseteq Readers
  PROVE  IsFiniteSet(W) /\ Cardinality(W) \in Nat
BY FS_Subset, FS_CardinalityType, TtyAssumption

LEMMA LinesInit == Init => LinesInv
<1> SUFFICES ASSUME Init PROVE LinesInv
    OBVIOUS
<1>1. QSize \in Nat /\ QSize >= 3 /\ 0 \in Places /\ NUL \in Characters
  BY TtyAssumption DEF Places, Characters
<1>2. LinesType
  BY <1>1 DEF Init, LinesType, QueueMemory
<1>3. ASSUME NEW t \in Terms PROVE LineOK(t)
  <2>1. queue[t] = [i \in Places |-> NUL] /\ qfront[t] = 0 /\ qrear[t] = 0 /\ cooked[t] = 0
    BY DEF Init
  <2>2. EndsOf(t) = {}
    BY <2>1, <1>1, PlaceFacts DEF EndsOf, EndSet
  <2>3. Waiting(t) = {}
    BY DEF Waiting, Init
  <2>4. queue[t][Back(qfront[t])] = NUL
    BY <2>1, <1>1, PlaceFacts
  <2> QED BY <2>1, <2>2, <2>3, <2>4, FS_EmptySet DEF LineOK
<1> QED BY <1>2, <1>3 DEF LinesInv

LEMMA LinesFrame ==
  ASSUME LinesInv, UNCHANGED <<queueVars, load>>
  PROVE  LinesInv'
BY DEF LinesInv, LinesType, LineOK, EndsOf, Waiting, queueVars

\* A step at the queue of one terminal.
LEMMA LinesAt ==
  ASSUME LinesInv, LinesType', NEW t \in Terms, LineOK(t)',
         \A u \in Terms \ {t} :
           UNCHANGED <<queue[u], qfront[u], qrear[u], cooked[u], Waiting(u)>>
  PROVE  LinesInv'
<1>1. ASSUME NEW u \in Terms, u # t PROVE LineOK(u)'
  <2>1. LineOK(u)
    BY DEF LinesInv
  <2>2. UNCHANGED <<queue[u], qfront[u], qrear[u], cooked[u], Waiting(u)>>
    BY <1>1
  <2> QED BY <2>1, <2>2 DEF LineOK, EndsOf
<1> QED BY <1>1 DEF LinesInv

LEMMA CookKeeps ==
  ASSUME LinesInv, ScreenInv, tty_cook
  PROVE  LinesInv'
<1> DEFINE t == tty
<1>1. /\ t \in Terms /\ QSize \in Nat
      /\ UNCHANGED <<qfront, rd, load>>
  BY TtyAssumption DEF ScreenInv, ScreenType, tty_cook, inputVars
<1>2. PICK q \in QueueMemory, f \in Places, e \in Places :
        q = queue[t] /\ f = qfront[t] /\ e = qrear[t]
  BY <1>1 DEF LinesInv, LinesType
<1>3. /\ q[Back(f)] = NUL /\ cooked[t] + Cardinality(Waiting(t)) = Cardinality(EndSet(q, f, e))
      /\ cooked \in [Terms -> Nat]
  BY <1>1, <1>2 DEF LinesInv, LinesType, LineOK, EndsOf
<1>4. /\ Cardinality(Waiting(t)) \in Nat /\ \A u \in Terms : UNCHANGED Waiting(u)
  BY <1>1, WaitingFinite DEF Waiting
\* What is left to show: the memory and the rear of this queue, and its ends.
<1>5. ASSUME NEW qq \in QueueMemory, NEW ee \in Places, qq[Back(f)] = NUL,
             queue' = [queue EXCEPT ![t] = qq], qrear' = [qrear EXCEPT ![t] = ee],
             cooked' \in [Terms -> Nat], \A u \in Terms \ {t} : cooked'[u] = cooked[u],
             cooked'[t] + Cardinality(Waiting(t)) = Cardinality(EndSet(qq, f, ee))
      PROVE  LinesInv'
  <2>1. LinesType'
    BY <1>1, <1>5 DEF LinesInv, LinesType
  <2>2. queue'[t] = qq /\ qrear'[t] = ee /\ qfront'[t] = f
    BY <1>1, <1>2, <1>5 DEF LinesInv, LinesType
  <2>3. \A u \in Terms \ {t} : UNCHANGED <<queue[u], qfront[u], qrear[u], cooked[u], Waiting(u)>>
    BY <1>1, <1>4, <1>5 DEF LinesInv, LinesType
  <2>4. \A u \in Terms : u = t => LineOK(u)'
    BY <1>1, <1>4, <1>5, <2>2 DEF LineOK, EndsOf
  <2>5. PICK u \in Terms : u = t
    BY <1>1
  <2> HIDE DEF t
  <2> QED BY <2>1, <2>3, <2>4, <2>5, LinesAt
<1>6. CASE ev \in Letters /\ Room(tty, 1) /\ Enqueue(tty, ev) /\ UNCHANGED cooked
  <2>1. ev \in Characters /\ ev # NUL
    BY <1>6, CharAssumption DEF Characters, Chars
  <2>2. PICK ch \in Characters : ch = ev
    BY <2>1
  <2>3. (f - e - 1) % QSize >= 1
    BY <1>2, <1>6 DEF Room
  <2> DEFINE qq == WithLetter(q, e, ch)
  <2>4. ch # NUL /\ q[Back(f)] = NUL
    BY <1>3, <2>1, <2>2
  <2>5. /\ qq \in QueueMemory /\ Ahead(e) \in Places /\ qq[Back(f)] = NUL
        /\ EndSet(qq, f, Ahead(e)) = EndSet(q, f, e)
    BY <2>3, <2>4, LetterEnds
  <2>6. queue' = [queue EXCEPT ![t] = qq] /\ qrear' = [qrear EXCEPT ![t] = Ahead(e)]
    BY <1>1, <1>2, <1>6, <2>2 DEF Enqueue, LinesInv, LinesType, WithLetter
  <2> HIDE DEF qq
  <2> QED BY <1>3, <1>5, <1>6, <2>5, <2>6
<1>7. CASE ev = NL /\ Room(tty, 2) /\ EnqueueLine(tty) /\ cooked' = [cooked EXCEPT ![tty] = @ + 1]
  <2> DEFINE qq == [q EXCEPT ![e] = NL, ![Ahead(e)] = NUL, ![Ahead(Ahead(e))] = NUL]
             ee == Ahead(Ahead(e))
  <2>1. (f - e - 1) % QSize >= 2
    BY <1>2, <1>7 DEF Room
  <2>2. /\ qq \in QueueMemory /\ ee \in Places /\ qq[Back(f)] = NUL
        /\ EndSet(qq, f, ee) = EndSet(q, f, e) \cup {Ahead(e)}
        /\ Ahead(e) \notin EndSet(q, f, e)
    BY <1>3, <2>1, LineEnds
  <2>3. queue' = [queue EXCEPT ![t] = qq] /\ qrear' = [qrear EXCEPT ![t] = ee]
    BY <1>1, <1>2, <1>7 DEF EnqueueLine, LinesInv, LinesType
  <2> HIDE DEF qq, ee
  <2>4. Cardinality(EndSet(qq, f, ee)) = Cardinality(EndSet(q, f, e)) + 1
    BY <2>2, EndsFinite, FS_AddElement
  <2>5. /\ cooked' \in [Terms -> Nat] /\ cooked'[t] = cooked[t] + 1 /\ cooked[t] \in Nat
        /\ \A u \in Terms \ {t} : cooked'[u] = cooked[u]
    BY <1>1, <1>3, <1>7
  <2>6. cooked'[t] + Cardinality(Waiting(t)) = Cardinality(EndSet(qq, f, ee))
    BY <1>3, <1>4, <2>4, <2>5
  <2> QED BY <1>5, <2>2, <2>3, <2>5, <2>6
<1>8. CASE ev = BS /\ Erasable(tty) /\ PopBack(tty) /\ UNCHANGED cooked
  <2> DEFINE qq == [q EXCEPT ![Back(e)] = NUL]
  <2>1. q[Back(e)] # NUL
    BY <1>2, <1>8 DEF Erasable
  <2>2. /\ qq \in QueueMemory /\ Back(e) \in Places /\ qq[Back(f)] = NUL
        /\ EndSet(qq, f, Back(e)) = EndSet(q, f, e)
    BY <1>3, <2>1, EraseEnds
  <2>3. queue' = [queue EXCEPT ![t] = qq] /\ qrear' = [qrear EXCEPT ![t] = Back(e)]
    BY <1>1, <1>2, <1>8 DEF PopBack, LinesInv, LinesType
  <2> HIDE DEF qq
  <2> QED BY <1>3, <1>5, <1>8, <2>2, <2>3
<1>9. CASE ev = BS /\ ~Erasable(tty) /\ UNCHANGED <<queue, qrear, cooked>>
  <2>1. UNCHANGED <<queueVars, load>>
    BY <1>9 DEF tty_cook, queueVars, inputVars
  <2> QED BY <2>1, LinesFrame
<1> QED BY <1>6, <1>7, <1>8, <1>9 DEF tty_cook

\* The uses of the readers are terminals.
LEMMA UsesTerm ==
  ASSUME ScreenInv, NEW r \in Readers
  PROVE  load.uses[r] \in Terms
BY TtyAssumption DEF ScreenInv, ScreenType

LEMMA WaitKeeps ==
  ASSUME LinesInv, ScreenInv, NEW r \in Readers, WaitLine(r)
  PROVE  LinesInv'
<1>1. PICK t \in Terms : t = load.uses[r]
  BY UsesTerm
<1>2. /\ rd[r] = "out" /\ cooked[t] > 0 /\ cooked \in [Terms -> Nat]
      /\ cooked' = [cooked EXCEPT ![t] = @ - 1] /\ rd' = [rd EXCEPT ![r] = "line"]
      /\ rd \in [Readers -> {"out", "line"}]
      /\ UNCHANGED <<queue, qfront, qrear, load>>
  BY <1>1 DEF WaitLine, inputVars, LinesInv, LinesType
<1>3. LinesType'
  <2>1. cooked' \in [Terms -> Nat] /\ rd' \in [Readers -> {"out", "line"}]
    BY <1>2
  <2> QED BY <1>2, <2>1 DEF LinesInv, LinesType
<1>4. Waiting(t)' = Waiting(t) \cup {r} /\ r \notin Waiting(t)
  BY <1>1, <1>2 DEF Waiting
<1>5. \A u \in Terms \ {t} : UNCHANGED Waiting(u)
  BY <1>1, <1>2 DEF Waiting
<1>6. PICK W : W = Waiting(t)
  OBVIOUS
<1>7. Cardinality(W \cup {r}) = Cardinality(W) + 1 /\ Cardinality(W) \in Nat
  BY <1>4, <1>6, WaitingFinite, FS_AddElement DEF Waiting
<1>8. LineOK(t)'
  <2>1. cooked'[t] = cooked[t] - 1 /\ cooked[t] \in Nat
    BY <1>2
  <2>2. cooked[t] + Cardinality(W) = Cardinality(EndsOf(t)) /\ queue[t][Back(qfront[t])] = NUL
    BY <1>6 DEF LinesInv, LineOK
  <2>3. cooked'[t] + Cardinality(Waiting(t)') = Cardinality(EndsOf(t))
    BY <1>4, <1>6, <1>7, <2>1, <2>2
  <2> QED BY <1>2, <2>2, <2>3 DEF LineOK, EndsOf
<1>9. \A u \in Terms \ {t} : UNCHANGED <<queue[u], qfront[u], qrear[u], cooked[u], Waiting(u)>>
  BY <1>2, <1>5
<1> QED BY <1>3, <1>8, <1>9, LinesAt

\* A reader that was let in finds an end: there is one for each of those that wait.
LEMMA ReadKeeps ==
  ASSUME LinesInv, ScreenInv, NEW r \in Readers, NEW count \in Counts, ReadLine(r, count)
  PROVE  LinesInv'
<1>1. PICK t \in Terms : t = load.uses[r]
  BY UsesTerm
<1>2. /\ rd[r] = "line" /\ rd' = [rd EXCEPT ![r] = "out"]
      /\ qfront' = [qfront EXCEPT ![t] = (@ + LineLength(t) + 1) % QSize]
      /\ UNCHANGED <<queue, qrear, cooked, load>>
  BY <1>1 DEF ReadLine, inputVars
<1>3. PICK q \in QueueMemory, f \in Places, e \in Places :
        q = queue[t] /\ f = qfront[t] /\ e = qrear[t]
  BY DEF LinesInv, LinesType
<1>4. PICK W : W = Waiting(t)
  OBVIOUS
<1>5. /\ r \in W /\ IsFiniteSet(W) /\ Cardinality(W) \in Nat /\ cooked[t] \in Nat
      /\ cooked[t] + Cardinality(W) = Cardinality(EndSet(q, f, e))
  BY <1>1, <1>2, <1>3, <1>4, WaitingFinite DEF Waiting, LinesInv, LinesType, LineOK, EndsOf
<1>6. EndSet(q, f, e) # {}
  <2>1. Cardinality(W) # 0
    BY <1>5, FS_EmptySet
  <2> QED BY <1>5, <2>1, EndsFinite, FS_EmptySet
<1>7. PICK n : n = LineLength(t)
  OBVIOUS
<1>8. /\ n \in Places /\ q[(f + n) % QSize] = NUL
      /\ \A m \in 0 .. n - 1 : q[(f + m) % QSize] # NUL
  BY <1>3, <1>6, <1>7, FirstEnd DEF LineLength, FromFront
<1>9. PICK g : g = (f + n + 1) % QSize
  OBVIOUS
<1>10. /\ g \in Places /\ q[Back(g)] = NUL
       /\ (f + n) % QSize \in EndSet(q, f, e)
       /\ EndSet(q, g, e) = EndSet(q, f, e) \ {(f + n) % QSize}
  BY <1>6, <1>8, <1>9, ReadEnds
<1>11. Cardinality(EndSet(q, g, e)) = Cardinality(EndSet(q, f, e)) - 1
  BY <1>10, EndsFinite, FS_RemoveElement
<1>12. Cardinality(W \ {r}) = Cardinality(W) - 1
  BY <1>5, FS_RemoveElement
<1>13. qfront' = [qfront EXCEPT ![t] = g] /\ LinesType'
  <2>1. qfront' = [qfront EXCEPT ![t] = g]
    BY <1>2, <1>3, <1>7, <1>9
  <2> QED BY <2>1, <1>2, <1>10 DEF LinesInv, LinesType
<1>14. Waiting(t)' = W \ {r} /\ \A u \in Terms \ {t} : UNCHANGED Waiting(u)
  BY <1>1, <1>2, <1>4 DEF Waiting, LinesInv, LinesType
<1>15. LineOK(t)'
  <2>1. queue'[t] = q /\ qfront'[t] = g /\ qrear'[t] = e /\ cooked'[t] = cooked[t]
    BY <1>2, <1>3, <1>13 DEF LinesInv, LinesType
  <2>2. cooked[t] + Cardinality(W \ {r}) = Cardinality(EndSet(q, g, e))
    <3>1. Cardinality(EndSet(q, f, e)) \in Nat
      BY EndsFinite
    <3> QED BY <1>5, <1>11, <1>12, <3>1
  <2> QED BY <1>10, <1>14, <2>1, <2>2 DEF LineOK, EndsOf
<1>16. \A u \in Terms \ {t} : UNCHANGED <<queue[u], qfront[u], qrear[u], cooked[u], Waiting(u)>>
  BY <1>2, <1>13, <1>14 DEF LinesInv, LinesType
<1> QED BY <1>13, <1>15, <1>16, LinesAt

LEMMA LinesStep == LinesInv /\ ScreenInv /\ [Next]_vars => LinesInv'
<1> SUFFICES ASSUME LinesInv, ScreenInv, [Next]_vars PROVE LinesInv'
    OBVIOUS
<1>1. CASE UNCHANGED vars
  BY <1>1, LinesFrame DEF vars, ttyVars, inputVars
<1>2. CASE InputStep /\ UNCHANGED ttyVars
  <2>1. UNCHANGED load
    BY <1>2 DEF InputStep, input_keydown, CheckTime, push_event, PostEvent, Sleep, input_notify
  <2> QED BY <1>2, <2>1, LinesFrame DEF ttyVars
<1>3. CASE tty_queue_full
  BY <1>3, LinesFrame DEF tty_queue_full, ttyVars, inputVars
<1>4. CASE Start \/ SwitchMark \/ SwitchTo \/ Blink
  BY <1>4, LinesFrame DEF Start, SwitchMark, SwitchTo, Blink, inputVars
<1>5. CASE AwaitEvent \/ PopEvent
  BY <1>5, LinesFrame DEF AwaitEvent, PopEvent, WaitEvent, NoEvent, TakeEvent, inputVars
<1>6. ASSUME NEW a \in Actors, StartWrite(a) \/ EndWrite(a) \/ Draw(a) \/ Clear(a)
      PROVE  LinesInv'
  BY <1>6, LinesFrame DEF StartWrite, EndWrite, Draw, Clear, inputVars
<1>7. ASSUME NEW w \in Writers, NEW ch \in load.written, tty_write(w, ch) PROVE LinesInv'
  BY <1>7, LinesFrame DEF tty_write
<1> QED
  BY <1>1, <1>2, <1>3, <1>4, <1>5, <1>6, <1>7, CookKeeps, WaitKeeps, ReadKeeps DEF Next

\* There are as many complete lines in each queue as permits of cooked, in the
\* semaphore or in the hands of readers: whatever the size of the queue, however
\* many readers a terminal has, and wherever the daemon switches in between.
THEOREM LinesFound == Spec => []LinesCounted
<1>1. LinesInv => LinesCounted
  <2> SUFFICES ASSUME LinesInv, NEW t \in Terms
               PROVE  cooked[t] + Cardinality(Waiting(t)) = Cardinality(Ends(Content(t)))
      BY DEF LinesCounted, Waiting
  <2>1. PICK q \in QueueMemory, f \in Places, e \in Places :
          q = queue[t] /\ f = qfront[t] /\ e = qrear[t]
    BY DEF LinesInv, LinesType
  <2>2. PICK c : c = Content(t)
    OBVIOUS
  <2>3. c = [i \in 1 .. (e - f) % QSize |-> q[(f + (i - 1)) % QSize]]
    BY <2>1, <2>2 DEF Content, FromFront
  <2>4. Cardinality(Ends(c)) = Cardinality(EndSet(q, f, e))
    BY <2>3, EndsBijection
  <2> QED BY <2>1, <2>2, <2>4 DEF LinesInv, LineOK, EndsOf
<1>2. Init => LinesInv /\ ScreenInv
  BY LinesInit, ScreenInit
<1>3. LinesInv /\ ScreenInv /\ [Next]_vars => (LinesInv /\ ScreenInv)'
  BY LinesStep, ScreenStep
<1> QED BY <1>1, <1>2, <1>3, PTL DEF Spec

-----------------------------------------------------------------------------
(* Sets of positive numbers, as the ends of lines are, and their elements in *)
(* order: EndOf(E, k) is the one that k elements do not exceed.              *)

Rank(E, i) == Cardinality({j \in E : j <= i})

LEMMA SubsetsFinite ==
  ASSUME NEW E, IsFiniteSet(E), NEW F, F \subseteq E
  PROVE  /\ IsFiniteSet(F) /\ Cardinality(F) \in Nat /\ Cardinality(E) \in Nat
         /\ Cardinality(F) <= Cardinality(E)
         /\ F # E => Cardinality(F) < Cardinality(E)
         /\ F # {} => Cardinality(F) >= 1
<1>1. F \in SUBSET E
  OBVIOUS
<1>2. /\ IsFiniteSet(F) /\ Cardinality(F) <= Cardinality(E)
      /\ Cardinality(F) = Cardinality(E) => F = E
  BY <1>1, FS_Subset
<1>3. Cardinality(F) \in Nat /\ Cardinality(E) \in Nat
  BY <1>2, FS_CardinalityType
<1>4. Cardinality(F) = 0 <=> F = {}
  BY <1>2, FS_EmptySet
<1> QED BY <1>2, <1>3, <1>4

LEMMA Ranks ==
  ASSUME NEW E, E \subseteq Nat \ {0}, IsFiniteSet(E)
  PROVE  /\ Cardinality(E) \in Nat
         /\ \A i \in E : Rank(E, i) \in 1 .. Cardinality(E) /\ EndOf(E, Rank(E, i)) = i
         /\ \A i, j \in E : i < j => Rank(E, i) < Rank(E, j)
         /\ \A k \in 1 .. Cardinality(E) : EndOf(E, k) \in E /\ Rank(E, EndOf(E, k)) = k
<1> DEFINE UpTo(i) == {j \in E : j <= i}
<1>1. PICK n \in Nat : n = Cardinality(E)
  BY FS_CardinalityType
<1>2. ASSUME NEW i \in E PROVE Rank(E, i) \in 1 .. n
  <2>1. UpTo(i) \subseteq E /\ i \in UpTo(i)
    OBVIOUS
  <2>2. Cardinality(UpTo(i)) \in Nat /\ Cardinality(UpTo(i)) <= n /\ Cardinality(UpTo(i)) >= 1
    BY <1>1, <2>1, SubsetsFinite
  <2> QED BY <2>2, <1>1 DEF Rank
<1>3. ASSUME NEW i \in E, NEW j \in E, i < j PROVE Rank(E, i) < Rank(E, j)
  <2>0. i \in Nat /\ j \in Nat /\ \A x \in E : x \in Nat
    OBVIOUS
  <2>1. UpTo(i) \subseteq UpTo(j)
    <3> SUFFICES ASSUME NEW x \in UpTo(i) PROVE x \in E /\ x <= j
        OBVIOUS
    <3> QED BY <1>3, <2>0
  <2>4. j \in UpTo(j) /\ j \notin UpTo(i) /\ UpTo(j) \subseteq E
    BY <1>3, <2>0
  <2>2. IsFiniteSet(UpTo(j))
    BY <2>4, SubsetsFinite
  <2>3. Cardinality(UpTo(i)) < Cardinality(UpTo(j))
    BY <2>1, <2>2, <2>4, SubsetsFinite
  <2> QED BY <2>3 DEF Rank
<1>4. ASSUME NEW i \in E, NEW j \in E, Rank(E, i) = Rank(E, j) PROVE i = j
  <2>1. i \in Nat /\ j \in Nat /\ Rank(E, i) \in Nat /\ Rank(E, j) \in Nat
    BY <1>1, <1>2
  <2> QED BY <2>1, <1>3, <1>4
<1>5. ASSUME NEW k \in 1 .. n PROVE \E i \in E : Rank(E, i) = k
  <2> DEFINE r == [i \in E |-> Rank(E, i)]
  <2>1. r \in [E -> 1 .. n] /\ \A i, j \in E : r[i] = r[j] => i = j
    BY <1>2, <1>4
  <2>2. r \in Injection(E, 1 .. n)
    BY <2>1 DEF Injection, IsInjective
  <2>3. IsFiniteSet(1 .. n) /\ Cardinality(1 .. n) = n
    BY FS_Interval, <1>1
  <2> HIDE DEF r
  <2>4. Cardinality(E) = Cardinality(1 .. n) <=> r \in Surjection(E, 1 .. n)
    BY <2>2, <2>3, FS_Injection
  <2>5. r \in Surjection(E, 1 .. n)
    BY <1>1, <2>3, <2>4
  <2>6. \E i \in E : r[i] = k
    BY <2>5 DEF Surjection
  <2> QED BY <2>6 DEF r
<1>6. ASSUME NEW k \in 1 .. n PROVE EndOf(E, k) \in E /\ Rank(E, EndOf(E, k)) = k
  <2>1. EndOf(E, k) = CHOOSE i \in E : Rank(E, i) = k
    BY <1>1 DEF EndOf, Rank
  <2> QED BY <2>1, <1>5
<1>7. ASSUME NEW i \in E PROVE EndOf(E, Rank(E, i)) = i
  <2>1. PICK k \in 1 .. n : k = Rank(E, i)
    BY <1>2
  <2> QED BY <2>1, <1>4, <1>6
<1> QED BY <1>1, <1>2, <1>3, <1>6, <1>7

LEMMA EndsInOrder ==
  ASSUME NEW E, E \subseteq Nat \ {0}, IsFiniteSet(E)
  PROVE  /\ Cardinality(E) \in Nat /\ EndOf(E, 0) = 0
         /\ \A k \in 0 .. Cardinality(E) : EndOf(E, k) \in Nat
         /\ \A k, l \in 0 .. Cardinality(E) : k < l => EndOf(E, k) < EndOf(E, l)
         /\ \A i \in E : i <= EndOf(E, Cardinality(E))
<1>1. PICK n \in Nat : n = Cardinality(E)
  BY Ranks
<1>2. EndOf(E, 0) = 0
  BY DEF EndOf
<1>3. ASSUME NEW k \in 1 .. n
      PROVE  EndOf(E, k) \in E /\ EndOf(E, k) \in Nat /\ EndOf(E, k) > 0 /\ Rank(E, EndOf(E, k)) = k
  <2>1. EndOf(E, k) \in E /\ Rank(E, EndOf(E, k)) = k
    BY <1>1, Ranks
  <2>2. \A i \in E : i \in Nat /\ i > 0
    OBVIOUS
  <2> QED BY <2>1, <2>2
<1>4. ASSUME NEW i \in E, NEW j \in E, Rank(E, i) <= Rank(E, j) PROVE i <= j
  <2>1. i \in Nat /\ j \in Nat /\ Rank(E, i) \in 1 .. n /\ Rank(E, j) \in 1 .. n
    BY <1>1, Ranks
  <2>2. j < i => Rank(E, j) < Rank(E, i)
    BY Ranks
  <2> QED BY <2>1, <2>2, <1>4
<1>5. ASSUME NEW k \in 0 .. n, NEW l \in 0 .. n, k < l PROVE EndOf(E, k) < EndOf(E, l)
  <2>1. l \in 1 .. n
    BY <1>5
  <2>2. CASE k = 0
    BY <2>1, <2>2, <1>2, <1>3
  <2>3. CASE k # 0
    <3>1. k \in 1 .. n
      BY <2>3
    <3>2. EndOf(E, k) # EndOf(E, l)
      BY <3>1, <2>1, <1>3, <1>5
    <3>3. EndOf(E, k) <= EndOf(E, l)
      BY <3>1, <2>1, <1>3, <1>4, <1>5
    <3> QED BY <3>1, <3>2, <3>3, <2>1, <1>3
  <2> QED BY <2>2, <2>3
<1>6. ASSUME NEW i \in E PROVE i <= EndOf(E, n)
  <2>1. Rank(E, i) \in 1 .. n
    BY <1>1, Ranks
  <2>2. n \in 1 .. n
    BY <2>1
  <2>3. EndOf(E, n) \in E /\ Rank(E, i) <= Rank(E, EndOf(E, n))
    BY <2>1, <2>2, <1>3
  <2> QED BY <2>3, <1>4
<1>7. \A k \in 0 .. n : EndOf(E, k) \in Nat
  BY <1>2, <1>3
<1> QED BY <1>1, <1>2, <1>5, <1>6, <1>7

\* A number above all of E.
LEMMA EndAdded ==
  ASSUME NEW E, E \subseteq Nat \ {0}, IsFiniteSet(E), NEW m \in Nat \ {0}, \A i \in E : i < m
  PROVE  /\ Cardinality(E \cup {m}) = Cardinality(E) + 1
         /\ \A k \in 0 .. Cardinality(E) : EndOf(E \cup {m}, k) = EndOf(E, k)
         /\ EndOf(E \cup {m}, Cardinality(E) + 1) = m
<1>1. PICK n \in Nat : n = Cardinality(E)
  BY Ranks
<1>2. PICK D : D = E \cup {m}
  OBVIOUS
<1>3. m \notin E /\ D \subseteq Nat \ {0}
  BY <1>2
<1>4. IsFiniteSet(D) /\ Cardinality(D) = n + 1
  BY <1>1, <1>2, <1>3, FS_AddElement
<1>5. ASSUME NEW k \in 0 .. n PROVE EndOf(D, k) = EndOf(E, k)
  <2>1. CASE k = 0
    BY <2>1 DEF EndOf
  <2>2. CASE k # 0
    <3>0. k \in 1 .. n
      BY <2>2
    <3>1. PICK i \in E : i = EndOf(E, k) /\ Rank(E, i) = k
      BY <3>0, <1>1, Ranks
    <3>2. {j \in D : j <= i} = {j \in E : j <= i}
      BY <1>2
    <3>3. Rank(D, i) = k /\ i \in D
      BY <3>1, <3>2, <1>2 DEF Rank
    <3>4. EndOf(D, Rank(D, i)) = i
      BY <3>3, <1>3, <1>4, Ranks
    <3> QED BY <3>1, <3>3, <3>4
  <2> QED BY <2>1, <2>2
<1>6. EndOf(D, n + 1) = m
  <2>1. {j \in D : j <= m} = D /\ m \in D
    <3>1. \A j \in D : j <= m
      BY <1>2
    <3> QED BY <3>1, <1>2
  <2>2. Rank(D, m) = n + 1
    BY <2>1, <1>4 DEF Rank
  <2>3. EndOf(D, Rank(D, m)) = m
    BY <2>1, <1>3, <1>4, Ranks
  <2> QED BY <2>2, <2>3
<1> QED BY <1>1, <1>2, <1>4, <1>5, <1>6

\* Moving a set of numbers does not change how many they are.
LEMMA Moved ==
  ASSUME NEW F, F \subseteq Int, IsFiniteSet(F), NEW z \in Int,
         NEW G, G \subseteq Int, \A i \in Int : i \in G <=> i + z \in F
  PROVE  IsFiniteSet(G) /\ Cardinality(G) = Cardinality(F)
<1> DEFINE f == [i \in F |-> i - z]
<1>1. f \in [F -> G]
  <2>1. ASSUME NEW i \in F PROVE i - z \in G
    <3>1. i \in Int /\ i - z \in Int /\ (i - z) + z = i
      OBVIOUS
    <3> QED BY <3>1
  <2> QED BY <2>1
<1>2. \A i, j \in F : f[i] = f[j] => i = j
  OBVIOUS
<1>3. ASSUME NEW g \in G PROVE \E i \in F : f[i] = g
  <2>1. g \in Int /\ g + z \in F /\ (g + z) - z = g
    OBVIOUS
  <2> QED BY <2>1
<1> HIDE DEF f
<1>4. f \in Bijection(F, G)
  BY <1>1, <1>2, <1>3 DEF Bijection, Injection, Surjection, IsInjective
<1> QED BY <1>4, FS_Bijection DEF ExistsBijection

\* Without the least element, and the others counted from it on.
LEMMA EndRemoved ==
  ASSUME NEW E, E \subseteq Nat \ {0}, IsFiniteSet(E), NEW z \in E, \A i \in E : z <= i,
         NEW D, D = {i \in Nat \ {0} : i + z \in E}
  PROVE  /\ IsFiniteSet(D) /\ Cardinality(E) = Cardinality(D) + 1
         /\ EndOf(E, 1) = z
         /\ \A k \in 0 .. Cardinality(D) : EndOf(D, k) = EndOf(E, k + 1) - z
<1>1. PICK n \in Nat : n = Cardinality(E)
  BY Ranks
<1>2. z \in Nat /\ z > 0
  OBVIOUS
<1>3. PICK F : F = E \ {z}
  OBVIOUS
<1>4. IsFiniteSet(F) /\ Cardinality(F) = n - 1 /\ F \subseteq Int /\ D \subseteq Int
  BY <1>1, <1>3, FS_RemoveElement
<1>5. \A i \in Int : i \in D <=> i + z \in F
  <2>1. ASSUME NEW i \in D PROVE i + z \in F
    BY <2>1, <1>2, <1>3
  <2>2. ASSUME NEW i \in Int, i + z \in F PROVE i \in D
    <3>1. i + z \in E /\ i + z # z /\ z <= i + z
      BY <2>2, <1>3
    <3>2. i \in Nat \ {0}
      BY <3>1, <1>2
    <3> QED BY <3>1, <3>2
  <2> QED BY <2>1, <2>2
<1>6. IsFiniteSet(D) /\ Cardinality(D) = n - 1
  <2>1. z \in Int
    BY <1>2
  <2> QED BY <2>1, <1>4, <1>5, Moved
<1>7. EndOf(E, 1) = z
  <2>1. {j \in E : j <= z} = {z}
    <3>1. ASSUME NEW j \in E, j <= z PROVE j = z
      <4>1. z <= j /\ j \in Nat
        OBVIOUS
      <4> QED BY <4>1, <3>1, <1>2
    <3> QED BY <3>1, <1>2
  <2>2. Rank(E, z) = 1
    BY <2>1, FS_Singleton DEF Rank
  <2>3. EndOf(E, Rank(E, z)) = z
    BY Ranks
  <2> QED BY <2>2, <2>3
<1>8. ASSUME NEW k \in 0 .. n - 1 PROVE EndOf(D, k) = EndOf(E, k + 1) - z
  <2>1. CASE k = 0
    <3>1. EndOf(D, k) = 0 /\ EndOf(E, k + 1) = z
      BY <2>1, <1>7 DEF EndOf
    <3> QED BY <3>1, <1>2
  <2>2. CASE k # 0
    <3>0. k \in 1 .. Cardinality(D)
      BY <2>2, <1>6
    <3>1. PICK i \in D : i = EndOf(D, k) /\ Rank(D, i) = k
      BY <3>0, <1>6, Ranks
    <3>2. i \in Nat /\ i > 0 /\ i + z \in E
      OBVIOUS
    <3>3. PICK G : G = {j \in D : j <= i}
      OBVIOUS
    <3>4. PICK H : H = {j \in F : j <= i + z}
      OBVIOUS
    <3>5. IsFiniteSet(H) /\ H \subseteq Int /\ G \subseteq Int
      BY <3>3, <3>4, <1>4, SubsetsFinite
    <3>6. \A j \in Int : j \in G <=> j + z \in H
      BY <3>2, <3>3, <3>4, <1>2, <1>5
    <3>7. Cardinality(G) = Cardinality(H) /\ Cardinality(G) = k
      <4>1. Cardinality(G) = k
        BY <3>1, <3>3 DEF Rank
      <4>2. z \in Int
        BY <1>2
      <4>3. Cardinality(G) = Cardinality(H)
        BY <3>5, <3>6, <4>2, Moved
      <4> QED BY <4>1, <4>3
    <3>8. {j \in E : j <= i + z} = H \cup {z} /\ z \notin H
      BY <3>2, <3>4, <1>2, <1>3
    <3>9. Rank(E, i + z) = k + 1
      BY <3>5, <3>7, <3>8, FS_AddElement DEF Rank
    <3>10. EndOf(E, Rank(E, i + z)) = i + z
      BY <3>2, Ranks
    <3>11. EndOf(E, k + 1) = i + z
      BY <3>9, <3>10
    <3>12. (i + z) - z = i
      BY <3>2, <1>2
    <3>13. EndOf(E, k + 1) - z = (i + z) - z
      BY <3>11
    <3> QED BY <3>1, <3>12, <3>13
  <2> QED BY <2>1, <2>2
<1> QED BY <1>1, <1>6, <1>7, <1>8

-----------------------------------------------------------------------------
(* The lines in the content of a queue, before and after it changes. *)

Text == Seq(Characters)

LEMMA PieceSame ==
  ASSUME NEW c \in Text, NEW d \in Text, NEW z \in Nat, NEW a \in Nat \ {0}, NEW b \in Int,
         b <= Len(d), b + z <= Len(c), \A i \in a .. b : d[i] = c[i + z]
  PROVE  SubSeq(d, a, b) = SubSeq(c, a + z, b + z)
<1>1. /\ Len(c) \in Nat /\ c \in [1 .. Len(c) -> Characters]
      /\ Len(d) \in Nat /\ d \in [1 .. Len(d) -> Characters]
  BY LenProperties DEF Text
<1>2. \A i \in a .. b : d[i] \in Characters
  BY <1>1
<1>3. PICK x \in Int, y \in Int : x = a + z /\ y = b + z
  OBVIOUS
<1>4. \A i \in x .. y : c[i] \in Characters
  BY <1>1, <1>3
<1>5. /\ SubSeq(d, a, b) \in Text /\ Len(SubSeq(d, a, b)) = IF a <= b THEN b - a + 1 ELSE 0
      /\ \A i \in 1 .. b - a + 1 : SubSeq(d, a, b)[i] = d[a + i - 1]
  <2>1. a \in Int
    OBVIOUS
  <2> QED BY ONLY <1>2, <2>1, b \in Int, SubSeqProperties DEF Text
<1>6. /\ SubSeq(c, x, y) \in Text /\ Len(SubSeq(c, x, y)) = IF x <= y THEN y - x + 1 ELSE 0
      /\ \A i \in 1 .. y - x + 1 : SubSeq(c, x, y)[i] = c[x + i - 1]
  BY ONLY <1>4, x \in Int, y \in Int, SubSeqProperties DEF Text
<1>7. PICK s \in Text, t \in Text : s = SubSeq(d, a, b) /\ t = SubSeq(c, x, y)
  BY <1>5, <1>6
<1>8. Len(s) = Len(t)
  BY <1>3, <1>5, <1>6, <1>7
<1>9. ASSUME NEW i \in 1 .. Len(s) PROVE s[i] = t[i]
  <2>1. i \in 1 .. b - a + 1 /\ i \in 1 .. y - x + 1
    BY <1>3, <1>5, <1>7
  <2>2. s[i] = d[a + i - 1] /\ t[i] = c[x + i - 1]
    BY <2>1, <1>5, <1>6, <1>7
  <2>3. PICK j \in a .. b : j = a + i - 1
    BY <2>1
  <2>4. d[j] = c[j + z] /\ j + z = x + i - 1
    BY <2>1, <2>3, <1>3
  <2> QED BY <2>2, <2>3, <2>4
<1>10. s = t
  BY <1>8, <1>9, SeqEqual DEF Text
<1> QED BY <1>3, <1>7, <1>10

LEMMA PieceAppend ==
  ASSUME NEW c \in Text, NEW d \in Text, NEW a \in Nat \ {0}, NEW b \in Nat, a <= b + 1,
         b <= Len(c), b + 1 <= Len(d), \A i \in a .. b : d[i] = c[i]
  PROVE  SubSeq(c, a, b) \in Text /\ SubSeq(d, a, b + 1) = Append(SubSeq(c, a, b), d[b + 1])
<1>1. /\ Len(c) \in Nat /\ c \in [1 .. Len(c) -> Characters]
      /\ Len(d) \in Nat /\ d \in [1 .. Len(d) -> Characters]
  BY LenProperties DEF Text
<1>2. PICK y \in Nat, ch \in Characters : y = b + 1 /\ ch = d[y]
  BY <1>1
<1>3. (\A i \in a .. y : d[i] \in Characters) /\ (\A i \in a .. b : c[i] \in Characters)
  BY <1>1, <1>2
<1>4. a \in Int /\ y \in Int /\ b \in Int
  OBVIOUS
<1>5. /\ SubSeq(d, a, y) \in Text /\ Len(SubSeq(d, a, y)) = IF a <= y THEN y - a + 1 ELSE 0
      /\ \A i \in 1 .. y - a + 1 : SubSeq(d, a, y)[i] = d[a + i - 1]
  BY ONLY <1>3, <1>4, SubSeqProperties DEF Text
<1>6. /\ SubSeq(c, a, b) \in Text /\ Len(SubSeq(c, a, b)) = IF a <= b THEN b - a + 1 ELSE 0
      /\ \A i \in 1 .. b - a + 1 : SubSeq(c, a, b)[i] = c[a + i - 1]
  BY ONLY <1>3, <1>4, SubSeqProperties DEF Text
<1>7. PICK s \in Text, t \in Text : s = SubSeq(d, a, y) /\ t = SubSeq(c, a, b)
  BY <1>5, <1>6
<1>8. PICK u \in Text : u = Append(t, ch)
  BY AppendProperties DEF Text
<1>9. /\ Len(u) = Len(t) + 1
      /\ \A i \in 1 .. Len(t) : u[i] = t[i]
      /\ u[Len(t) + 1] = ch
  BY <1>8, AppendProperties DEF Text
<1>10. Len(t) = b - a + 1 /\ Len(s) = b - a + 2
  BY <1>2, <1>5, <1>6, <1>7
<1>11. ASSUME NEW i \in 1 .. Len(s) PROVE s[i] = u[i]
  <2>1. s[i] = d[a + i - 1]
    BY <1>2, <1>5, <1>7, <1>10
  <2>2. CASE i <= Len(t)
    <3>1. u[i] = c[a + i - 1]
      BY <2>2, <1>6, <1>7, <1>9, <1>10
    <3>2. PICK j \in a .. b : j = a + i - 1
      BY <2>2, <1>10
    <3> QED BY <2>1, <3>1, <3>2
  <2>3. CASE i > Len(t)
    <3>1. i = Len(t) + 1 /\ a + i - 1 = y
      BY <2>3, <1>2, <1>10
    <3> QED BY <2>1, <3>1, <1>2, <1>9
  <2> QED BY <2>2, <2>3, <1>10
<1>12. s = u
  <2>1. Len(s) = Len(u)
    BY <1>9, <1>10
  <2> QED BY <2>1, <1>11, SeqEqual DEF Text
<1> QED BY <1>2, <1>6, <1>7, <1>8, <1>12

LEMMA TextFacts ==
  ASSUME NEW c \in Text, NEW E, E = Ends(c)
  PROVE  /\ Len(c) \in Nat /\ DOMAIN c = 1 .. Len(c) /\ c \in [1 .. Len(c) -> Characters]
         /\ E \subseteq Nat \ {0} /\ IsFiniteSet(E) /\ Cardinality(E) \in Nat
         /\ E = {i \in 1 .. Len(c) : c[i] = NUL}
         /\ \A k \in 0 .. Cardinality(E) : EndOf(E, k) \in 0 .. Len(c)
         /\ \A k \in 1 .. Cardinality(E) : EndOf(E, k - 1) + 1 <= EndOf(E, k)
<1>1. /\ Len(c) \in Nat /\ DOMAIN c = 1 .. Len(c) /\ c \in [1 .. Len(c) -> Characters]
  BY LenProperties DEF Text
<1>2. E = {i \in 1 .. Len(c) : c[i] = NUL}
  BY <1>1 DEF Ends
<1>3. IsFiniteSet(1 .. Len(c)) /\ E \subseteq 1 .. Len(c)
  BY <1>1, <1>2, FS_Interval
<1>4. E \subseteq Nat \ {0} /\ IsFiniteSet(E)
  BY <1>1, <1>3, SubsetsFinite
<1>5. PICK n \in Nat : n = Cardinality(E)
  BY <1>4, Ranks
<1>6. ASSUME NEW k \in 0 .. n PROVE EndOf(E, k) \in 0 .. Len(c)
  <2>1. CASE k = 0
    BY <2>1, <1>1 DEF EndOf
  <2>2. CASE k # 0
    <3>1. k \in 1 .. n
      BY <2>2
    <3>2. EndOf(E, k) \in E
      BY <3>1, <1>4, <1>5, Ranks
    <3> QED BY <3>2, <1>1, <1>3
  <2> QED BY <2>1, <2>2
<1>7. ASSUME NEW k \in 1 .. n PROVE EndOf(E, k - 1) + 1 <= EndOf(E, k)
  <2>1. k - 1 \in 0 .. n /\ k \in 0 .. n /\ k - 1 < k
    OBVIOUS
  <2>2. EndOf(E, k - 1) < EndOf(E, k) /\ EndOf(E, k - 1) \in Nat /\ EndOf(E, k) \in Nat
    BY <2>1, <1>4, <1>5, EndsInOrder
  <2> QED BY <2>2
<1> QED BY <1>1, <1>2, <1>4, <1>5, <1>6, <1>7

LEMMA LineFacts ==
  ASSUME NEW c \in Text, NEW E, E = Ends(c), NEW n \in Nat, n = Cardinality(E)
  PROVE  /\ \A k \in 1 .. n : LinesIn(c)[k] = SubSeq(c, EndOf(E, k - 1) + 1, EndOf(E, k) - 1)
         /\ LinesIn(c) \in Seq(Text) /\ Len(LinesIn(c)) = n
         /\ EditIn(c) = SubSeq(c, EndOf(E, n) + 1, Len(c)) /\ EditIn(c) \in Text
<1>1. /\ Len(c) \in Nat /\ c \in [1 .. Len(c) -> Characters] /\ n \in Nat
  BY TextFacts
<1>6. \A k \in 0 .. n : EndOf(E, k) \in 0 .. Len(c)
  BY TextFacts
<1>8. ASSUME NEW a \in Nat \ {0}, NEW b \in Int, b <= Len(c) PROVE SubSeq(c, a, b) \in Text
  <2>1. \A i \in a .. b : c[i] \in Characters
    BY <1>1, <1>8
  <2>2. a \in Int
    OBVIOUS
  <2> QED BY ONLY <2>1, <2>2, b \in Int, SubSeqProperties DEF Text
<1>9. ASSUME NEW k \in 1 .. n PROVE SubSeq(c, EndOf(E, k - 1) + 1, EndOf(E, k) - 1) \in Text
  <2>1. k - 1 \in 0 .. n /\ k \in 0 .. n
    OBVIOUS
  <2>2. PICK x \in 0 .. Len(c), y \in 0 .. Len(c) : x = EndOf(E, k - 1) /\ y = EndOf(E, k)
    BY <2>1, <1>6
  <2>3. x + 1 \in Nat \ {0} /\ y - 1 \in Int /\ y - 1 <= Len(c)
    BY <1>1
  <2> QED BY <2>2, <2>3, <1>8
<1>10. EditIn(c) = SubSeq(c, EndOf(E, n) + 1, Len(c))
  BY DEF EditIn
<1>11. EditIn(c) \in Text
  <2>1. PICK x \in 0 .. Len(c) : x = EndOf(E, n)
    BY <1>6
  <2>2. x + 1 \in Nat \ {0} /\ Len(c) \in Int
    BY <1>1
  <2> QED BY <2>1, <2>2, <1>8, <1>10, <1>1
<1>12. LinesIn(c) = [k \in 1 .. n |-> SubSeq(c, EndOf(E, k - 1) + 1, EndOf(E, k) - 1)]
  BY DEF LinesIn
<1>13. LinesIn(c) \in [1 .. n -> Text]
  BY <1>9, <1>12
<1>14. LinesIn(c) \in Seq(Text) /\ Len(LinesIn(c)) = n
  <2>1. \A f \in [1 .. n -> Text] : f \in Seq(Text) /\ Len(f) = n
    BY SeqDef
  <2> QED BY <2>1, <1>13
<1>15. \A k \in 1 .. n : LinesIn(c)[k] = SubSeq(c, EndOf(E, k - 1) + 1, EndOf(E, k) - 1)
  BY <1>12
<1> QED BY <1>10, <1>11, <1>14, <1>15

\* A character that ends no line is added to the line being typed ...
LEMMA LetterTyped ==
  ASSUME NEW c \in Text, NEW d \in Text, Len(d) = Len(c) + 1,
         \A i \in 1 .. Len(c) : d[i] = c[i], d[Len(c) + 1] # NUL
  PROVE  LinesIn(d) = LinesIn(c) /\ EditIn(d) = Append(EditIn(c), d[Len(c) + 1])
<1>1. PICK E : E = Ends(c)
  OBVIOUS
<1>2. Len(c) \in Nat /\ E = {i \in 1 .. Len(c) : c[i] = NUL}
  BY <1>1, TextFacts
<1>3. Ends(d) = {i \in 1 .. Len(d) : d[i] = NUL}
  BY TextFacts
<1>4. Ends(d) = E
  <2>1. \A i \in 1 .. Len(d) : i \in 1 .. Len(c) \/ i = Len(c) + 1
    BY <1>2
  <2>2. \A i \in 1 .. Len(c) : i \in 1 .. Len(d)
    BY <1>2
  <2> QED BY <1>2, <1>3, <2>1, <2>2
<1>5. PICK n \in Nat : n = Cardinality(E)
  BY <1>1, TextFacts
<1>6. /\ \A k \in 1 .. n : LinesIn(d)[k] = SubSeq(d, EndOf(E, k - 1) + 1, EndOf(E, k) - 1)
      /\ LinesIn(d) \in Seq(Text) /\ Len(LinesIn(d)) = n
  BY ONLY d \in Text, <1>4, <1>5, LineFacts, Zenon
<1>7. /\ \A k \in 1 .. n : LinesIn(c)[k] = SubSeq(c, EndOf(E, k - 1) + 1, EndOf(E, k) - 1)
      /\ LinesIn(c) \in Seq(Text) /\ Len(LinesIn(c)) = n
  BY ONLY c \in Text, <1>1, <1>5, LineFacts, Zenon
<1>8. ASSUME NEW k \in 1 .. n
      PROVE  SubSeq(d, EndOf(E, k - 1) + 1, EndOf(E, k) - 1) = SubSeq(c, EndOf(E, k - 1) + 1, EndOf(E, k) - 1)
  <2>1. k - 1 \in 0 .. n /\ k \in 0 .. n
    OBVIOUS
  <2>2. PICK x \in 0 .. Len(c), y \in 0 .. Len(c) : x = EndOf(E, k - 1) /\ y = EndOf(E, k)
    BY <2>1, <1>1, <1>5, TextFacts
  <2>3. PICK a \in Nat \ {0}, b \in Int : a = x + 1 /\ b = y - 1
    BY <1>2
  <2>4. b <= Len(d) /\ b + 0 <= Len(c) /\ 0 \in Nat /\ a + 0 = a /\ b + 0 = b
        /\ \A i \in a .. b : i \in 1 .. Len(c) /\ i + 0 = i
    BY <1>2, <2>3
  <2>5. SubSeq(d, a, b) = SubSeq(c, a + 0, b + 0)
    BY <2>4, PieceSame
  <2> QED BY <2>2, <2>3, <2>4, <2>5
<1>9. LinesIn(d) = LinesIn(c)
  <2>1. \A i \in 1 .. n : LinesIn(d)[i] = LinesIn(c)[i]
    BY ONLY <1>6, <1>7, <1>8
  <2> QED BY ONLY <2>1, <1>6, <1>7, SeqEqual
<1>10. PICK x \in 0 .. Len(c) : x = EndOf(E, n)
  <2>1. n \in 0 .. n
    OBVIOUS
  <2> QED BY <2>1, <1>1, <1>5, TextFacts
<1>11. PICK a \in Nat \ {0}, b \in Nat : a = x + 1 /\ b = Len(c)
  BY <1>2
<1>12. EditIn(d) = SubSeq(d, a, b + 1) /\ EditIn(c) = SubSeq(c, a, b)
  <2>1. EditIn(d) = SubSeq(d, EndOf(E, n) + 1, Len(d)) /\ EditIn(c) = SubSeq(c, EndOf(E, n) + 1, Len(c))
    BY <1>1, <1>4, <1>5, LineFacts
  <2> QED BY ONLY <2>1, <1>10, <1>11, Len(d) = Len(c) + 1
<1>13. a <= b + 1 /\ b <= Len(c) /\ b + 1 <= Len(d) /\ \A i \in a .. b : d[i] = c[i]
  BY <1>2, <1>11
<1>14. SubSeq(d, a, b + 1) = Append(SubSeq(c, a, b), d[b + 1])
  BY <1>13, PieceAppend
<1> QED BY <1>9, <1>11, <1>12, <1>14

\* ... and Enter makes it, with its newline, the last of the lines.
LEMMA LineTyped ==
  ASSUME NEW c \in Text, NEW d \in Text, Len(d) = Len(c) + 2,
         \A i \in 1 .. Len(c) : d[i] = c[i], d[Len(c) + 1] = NL, d[Len(c) + 2] = NUL
  PROVE  /\ LinesIn(d) = Append(LinesIn(c), Append(EditIn(c), NL))
         /\ EditIn(d) = <<>>
<1>0. NL # NUL
  BY CharAssumption
<1>1. PICK E : E = Ends(c)
  OBVIOUS
<1>2. /\ Len(c) \in Nat /\ E = {i \in 1 .. Len(c) : c[i] = NUL}
      /\ E \subseteq Nat \ {0} /\ IsFiniteSet(E)
  BY <1>1, TextFacts
<1>3. PICK m \in Nat \ {0} : m = Len(c) + 2
  BY <1>2
<1>4. Ends(d) = E \cup {m}
  <2>1. Ends(d) = {i \in 1 .. Len(d) : d[i] = NUL}
    BY TextFacts
  <2>2. \A i \in 1 .. Len(d) : i \in 1 .. Len(c) \/ i = Len(c) + 1 \/ i = m
    BY <1>2, <1>3
  <2>3. (\A i \in 1 .. Len(c) : i \in 1 .. Len(d)) /\ m \in 1 .. Len(d)
    BY <1>2, <1>3
  <2> QED BY <1>0, <1>2, <1>3, <2>1, <2>2, <2>3
<1>5. PICK n \in Nat : n = Cardinality(E)
  BY <1>1, TextFacts
<1>6. PICK D : D = Ends(d)
  OBVIOUS
<1>7. /\ Cardinality(D) = n + 1
      /\ \A k \in 0 .. n : EndOf(D, k) = EndOf(E, k)
      /\ EndOf(D, n + 1) = m
  <2>1. \A i \in E : i < m
    BY <1>2, <1>3
  <2>2. D = E \cup {m}
    BY <1>4, <1>6
  <2>3. /\ Cardinality(E \cup {m}) = Cardinality(E) + 1
        /\ \A k \in 0 .. Cardinality(E) : EndOf(E \cup {m}, k) = EndOf(E, k)
        /\ EndOf(E \cup {m}, Cardinality(E) + 1) = m
    BY <2>1, <1>2, EndAdded
  <2> QED BY ONLY <2>2, <2>3, <1>5
<1>8. /\ \A k \in 1 .. n + 1 : LinesIn(d)[k] = SubSeq(d, EndOf(D, k - 1) + 1, EndOf(D, k) - 1)
      /\ LinesIn(d) \in Seq(Text) /\ Len(LinesIn(d)) = n + 1
  BY ONLY d \in Text, <1>6, <1>7, LineFacts
<1>9. /\ \A k \in 1 .. n : LinesIn(c)[k] = SubSeq(c, EndOf(E, k - 1) + 1, EndOf(E, k) - 1)
      /\ LinesIn(c) \in Seq(Text) /\ Len(LinesIn(c)) = n
  BY ONLY c \in Text, n \in Nat, <1>1, <1>5, LineFacts
<1>10. ASSUME NEW k \in 1 .. n PROVE LinesIn(d)[k] = LinesIn(c)[k]
  <2>1. k - 1 \in 0 .. n /\ k \in 0 .. n /\ k \in 1 .. n + 1
    OBVIOUS
  <2>2. PICK x \in 0 .. Len(c), y \in 0 .. Len(c) : x = EndOf(E, k - 1) /\ y = EndOf(E, k)
    BY <2>1, <1>1, <1>5, TextFacts
  <2>3. PICK a \in Nat \ {0}, b \in Int : a = x + 1 /\ b = y - 1
    BY <1>2
  <2>4. b <= Len(d) /\ b + 0 <= Len(c) /\ 0 \in Nat /\ a + 0 = a /\ b + 0 = b
        /\ \A i \in a .. b : i \in 1 .. Len(c) /\ i + 0 = i
    BY <1>2, <2>3
  <2>5. SubSeq(d, a, b) = SubSeq(c, a + 0, b + 0)
    BY <2>4, PieceSame
  <2>6. LinesIn(d)[k] = SubSeq(d, a, b)
    BY <2>1, <2>2, <2>3, <1>7, <1>8
  <2>7. LinesIn(c)[k] = SubSeq(c, a, b)
    BY <2>1, <2>2, <2>3, <1>9
  <2> QED BY <2>4, <2>5, <2>6, <2>7
<1>11. PICK x \in 0 .. Len(c) : x = EndOf(E, n)
  <2>1. n \in 0 .. n
    OBVIOUS
  <2> QED BY <2>1, <1>1, <1>5, TextFacts
<1>12. PICK a \in Nat \ {0}, b \in Nat : a = x + 1 /\ b = Len(c)
  BY <1>2
<1>13. EditIn(c) = SubSeq(c, a, b) /\ EditIn(c) \in Text
  BY <1>1, <1>5, <1>11, <1>12, LineFacts
<1>14. LinesIn(d)[n + 1] = Append(EditIn(c), NL)
  <2>1. a <= b + 1 /\ b <= Len(c) /\ b + 1 <= Len(d) /\ \A i \in a .. b : d[i] = c[i]
    BY <1>2, <1>12
  <2>2. SubSeq(d, a, b + 1) = Append(SubSeq(c, a, b), d[b + 1])
    BY <2>1, PieceAppend
  <2>3. n + 1 \in 1 .. n + 1 /\ (n + 1) - 1 = n /\ n \in 0 .. n /\ m - 1 = b + 1
    BY <1>3, <1>12
  <2>4. LinesIn(d)[n + 1] = SubSeq(d, EndOf(D, (n + 1) - 1) + 1, EndOf(D, n + 1) - 1)
    BY <2>3, <1>8
  <2>5. EndOf(D, (n + 1) - 1) = x
    BY <2>3, <1>7, <1>11
  <2> QED BY <2>2, <2>3, <2>4, <2>5, <1>7, <1>12, <1>13
<1>15. LinesIn(d) = Append(LinesIn(c), Append(EditIn(c), NL))
  <2>1. PICK ll \in Seq(Text), new1 \in Text : ll = LinesIn(c) /\ new1 = Append(EditIn(c), NL)
    <3>1. NL \in Characters
      BY DEF Characters, Chars
    <3> QED BY <3>1, <1>9, <1>13, AppendProperties DEF Text
  <2>2. /\ Append(ll, new1) \in Seq(Text) /\ Len(Append(ll, new1)) = n + 1
        /\ \A i \in 1 .. n : Append(ll, new1)[i] = ll[i]
        /\ Append(ll, new1)[n + 1] = new1
    <3>1. /\ Append(ll, new1) \in Seq(Text) /\ Len(Append(ll, new1)) = Len(ll) + 1
          /\ \A i \in 1 .. Len(ll) : Append(ll, new1)[i] = ll[i]
          /\ Append(ll, new1)[Len(ll) + 1] = new1
      BY AppendProperties
    <3>2. Len(ll) = n
      BY <2>1, <1>9
    <3> QED BY ONLY <3>1, <3>2
  <2>3. ASSUME NEW i \in 1 .. n + 1 PROVE LinesIn(d)[i] = Append(ll, new1)[i]
    <3>1. CASE i \in 1 .. n
      BY <3>1, <2>1, <2>2, <1>10
    <3>2. CASE i \notin 1 .. n
      <4>1. i = n + 1
        BY <3>2
      <4> QED BY <4>1, <2>1, <2>2, <1>14
    <3> QED BY <3>1, <3>2
  <2> QED BY <2>1, <2>2, <2>3, <1>8, SeqEqual
<1>16. EditIn(d) = <<>>
  <2>1. EditIn(d) = SubSeq(d, EndOf(D, n + 1) + 1, Len(d))
    BY ONLY d \in Text, <1>6, <1>7, LineFacts
  <2>2. m + 1 \in Int /\ m \in Int /\ m < m + 1
    OBVIOUS
  <2> QED BY <2>1, <2>2, <1>3, <1>7, SubSeqEmpty
<1> QED BY <1>15, <1>16

\* A read takes the first of the lines, which ends before the first end.
LEMMA LineTaken ==
  ASSUME NEW c \in Text, NEW d \in Text, NEW z \in 1 .. Len(c), c[z] = NUL,
         \A i \in 1 .. z - 1 : c[i] # NUL,
         Len(d) = Len(c) - z, \A i \in 1 .. Len(d) : d[i] = c[i + z]
  PROVE  /\ LinesIn(c) # <<>> /\ Head(LinesIn(c)) = SubSeq(c, 1, z - 1)
         /\ LinesIn(d) = Tail(LinesIn(c)) /\ EditIn(d) = EditIn(c)
<1>1. PICK E, D : E = Ends(c) /\ D = Ends(d)
  OBVIOUS
<1>2. /\ Len(c) \in Nat /\ E = {i \in 1 .. Len(c) : c[i] = NUL}
      /\ E \subseteq Nat \ {0} /\ IsFiniteSet(E)
  BY <1>1, TextFacts
<1>3. /\ Len(d) \in Nat /\ D = {i \in 1 .. Len(d) : d[i] = NUL}
      /\ D \subseteq Nat \ {0}
  BY <1>1, TextFacts
<1>4. z \in E /\ \A i \in E : z <= i
  BY <1>2
<1>5. \A i \in Nat \ {0} : i \in D <=> i + z \in E
  <2>1. ASSUME NEW i \in D PROVE i + z \in E
    <3>1. i \in 1 .. Len(d) /\ d[i] = NUL /\ i + z \in 1 .. Len(c)
      BY <1>2, <1>3
    <3> QED BY <3>1, <1>2
  <2>2. ASSUME NEW i \in Nat \ {0}, i + z \in E PROVE i \in D
    <3>1. i + z \in 1 .. Len(c) /\ c[i + z] = NUL /\ i \in 1 .. Len(d)
      BY <2>2, <1>2
    <3> QED BY <3>1, <1>3
  <2> QED BY <2>1, <2>2
<1>6. PICK n \in Nat : n = Cardinality(D)
  BY <1>1, TextFacts
<1>7. /\ Cardinality(E) = n + 1 /\ EndOf(E, 1) = z
      /\ \A k \in 0 .. n : EndOf(D, k) = EndOf(E, k + 1) - z
  <2>1. /\ Cardinality(E) = Cardinality(D) + 1
        /\ EndOf(E, 1) = z
        /\ \A k \in 0 .. Cardinality(D) : EndOf(D, k) = EndOf(E, k + 1) - z
    <3>1. D = {i \in Nat \ {0} : i + z \in E}
      BY ONLY <1>3, <1>5
    <3>2. E \subseteq Nat \ {0} /\ IsFiniteSet(E)
      BY ONLY <1>2
    <3> QED BY ONLY <3>1, <3>2, <1>4, EndRemoved, ZenonT(60)
  <2> QED BY ONLY <2>1, <1>6
<1>8. /\ \A k \in 1 .. n + 1 : LinesIn(c)[k] = SubSeq(c, EndOf(E, k - 1) + 1, EndOf(E, k) - 1)
      /\ LinesIn(c) \in Seq(Text) /\ Len(LinesIn(c)) = n + 1
      /\ EditIn(c) = SubSeq(c, EndOf(E, n + 1) + 1, Len(c))
  BY ONLY c \in Text, <1>1, <1>7, LineFacts
<1>9. /\ \A k \in 1 .. n : LinesIn(d)[k] = SubSeq(d, EndOf(D, k - 1) + 1, EndOf(D, k) - 1)
      /\ LinesIn(d) \in Seq(Text) /\ Len(LinesIn(d)) = n
      /\ EditIn(d) = SubSeq(d, EndOf(D, n) + 1, Len(d))
  BY ONLY d \in Text, <1>1, <1>6, LineFacts
\* A piece of d is one of c, z characters further on.
<1>10. ASSUME NEW x \in 0 .. Len(d), NEW y \in Int, y <= Len(d)
       PROVE  SubSeq(d, x + 1, y) = SubSeq(c, x + z + 1, y + z)
  <2>1. PICK a \in Nat \ {0} : a = x + 1
    BY <1>3
  <2>2. y + z <= Len(c) /\ z \in Nat /\ \A i \in a .. y : i \in 1 .. Len(d)
    BY <1>2, <1>3, <1>10, <2>1
  <2>3. SubSeq(d, a, y) = SubSeq(c, a + z, y + z)
    BY <2>2, <1>10, PieceSame
  <2>4. a + z = x + z + 1
    BY <2>1, <2>2, <1>3
  <2> QED BY <2>1, <2>3, <2>4
<1>11. ASSUME NEW k \in 0 .. n
       PROVE  EndOf(D, k) \in 0 .. Len(d) /\ EndOf(D, k) + z = EndOf(E, k + 1)
  <2>1. k + 1 \in 0 .. n + 1
    OBVIOUS
  <2>2. EndOf(E, k + 1) \in 0 .. Len(c) /\ EndOf(D, k) \in 0 .. Len(d)
    BY <2>1, <1>1, <1>6, <1>7, TextFacts
  <2>3. PICK x \in Int : x = EndOf(E, k + 1)
    BY <2>2
  <2>4. EndOf(D, k) = x - z /\ x - z + z = x
    BY <2>3, <1>7
  <2> QED BY <2>2, <2>3, <2>4
<1>12. ASSUME NEW k \in 1 .. n PROVE LinesIn(d)[k] = LinesIn(c)[k + 1]
  <2>1. k - 1 \in 0 .. n /\ k \in 0 .. n /\ k + 1 \in 1 .. n + 1 /\ (k - 1) + 1 = k /\ (k + 1) - 1 = k
    OBVIOUS
  <2>2. PICK x \in 0 .. Len(d), y \in 0 .. Len(d) : x = EndOf(D, k - 1) /\ y = EndOf(D, k)
    BY <2>1, <1>11
  <2>3. x + z = EndOf(E, k) /\ y + z = EndOf(E, k + 1)
    BY <2>1, <2>2, <1>11
  <2>4. LinesIn(d)[k] = SubSeq(d, x + 1, y - 1)
    BY <2>1, <2>2, <1>9
  <2>5. LinesIn(c)[k + 1] = SubSeq(c, x + z + 1, y + z - 1)
    <3>1. LinesIn(c)[k + 1] = SubSeq(c, EndOf(E, (k + 1) - 1) + 1, EndOf(E, k + 1) - 1)
      BY ONLY <2>1, <1>8
    <3>2. EndOf(E, (k + 1) - 1) = EndOf(E, k)
      BY ONLY <2>1
    <3> QED BY ONLY <3>1, <3>2, <2>3
  <2>6. y - 1 \in Int /\ y - 1 <= Len(d) /\ (y - 1) + z = y + z - 1
    BY <1>3
  <2>7. SubSeq(d, x + 1, y - 1) = SubSeq(c, x + z + 1, (y - 1) + z)
    BY <2>6, <1>10
  <2> QED BY <2>4, <2>5, <2>6, <2>7
<1>13. PICK ll \in Seq(Text) : ll = LinesIn(c)
  BY <1>8
<1>14. ll # <<>>
  <2>1. Len(ll) # 0
    BY <1>8, <1>13
  <2>2. Len(<<>>) = 0
    BY EmptySeq
  <2> QED BY <2>1, <2>2
<1>15. LinesIn(d) = Tail(ll)
  <2>1. /\ Tail(ll) \in Seq(Text) /\ Len(Tail(ll)) = n
        /\ \A i \in 1 .. n : Tail(ll)[i] = ll[i + 1]
    <3>1. /\ Tail(ll) \in Seq(Text) /\ Len(Tail(ll)) = Len(ll) - 1
          /\ \A i \in 1 .. Len(Tail(ll)) : Tail(ll)[i] = ll[i + 1]
      BY <1>14, HeadTailProperties
    <3>2. Len(ll) - 1 = n
      BY <1>8, <1>13
    <3> QED BY <3>1, <3>2
  <2>2. \A i \in 1 .. n : LinesIn(d)[i] = Tail(ll)[i]
    BY <2>1, <1>12, <1>13
  <2> QED BY <2>1, <2>2, <1>9, SeqEqual
<1>16. Head(ll) = SubSeq(c, 1, z - 1)
  <2>1. Head(ll) = ll[1]
    BY <1>14
  <2>2. 1 \in 1 .. n + 1 /\ EndOf(E, 1 - 1) = 0
    BY DEF EndOf
  <2>3. ll[1] = SubSeq(c, EndOf(E, 1 - 1) + 1, EndOf(E, 1) - 1)
    BY <2>2, <1>8, <1>13
  <2>4. 0 + 1 = 1 /\ EndOf(E, 1) = z
    BY <1>7
  <2> QED BY ONLY <2>1, <2>2, <2>3, <2>4
<1>17. EditIn(d) = EditIn(c)
  <2>1. n \in 0 .. n
    OBVIOUS
  <2>2. PICK x \in 0 .. Len(d) : x = EndOf(D, n) /\ x + z = EndOf(E, n + 1)
    BY <2>1, <1>11
  <2>3. Len(d) \in Int /\ Len(d) <= Len(d) /\ Len(d) + z = Len(c)
    BY <1>2, <1>3
  <2>4. SubSeq(d, x + 1, Len(d)) = SubSeq(c, x + z + 1, Len(d) + z)
    BY <2>3, <1>10
  <2> QED BY <2>2, <2>3, <2>4, <1>8, <1>9
<1> QED BY <1>13, <1>14, <1>15, <1>16, <1>17

\* What Append added is what an erasure removes.
LEMMA AppendErased ==
  ASSUME NEW s \in Text, NEW ch \in Characters, NEW u, u = Append(s, ch)
  PROVE  u # <<>> /\ SubSeq(u, 1, Len(u) - 1) = s
<1>1. /\ u \in Text /\ u # <<>> /\ Len(u) = Len(s) + 1 /\ Len(s) \in Nat
      /\ \A i \in 1 .. Len(s) : u[i] = s[i]
  BY AppendProperties, LenProperties DEF Text
<1>2. PICK n \in Nat : n = Len(s)
  BY <1>1
<1>3. 1 \in Nat \ {0} /\ n \in Int /\ 0 \in Nat /\ n <= Len(u) /\ n + 0 <= Len(s) /\ 1 + 0 = 1 /\ n + 0 = n
      /\ \A i \in 1 .. n : u[i] = s[i + 0]
  BY <1>1, <1>2
<1>4. SubSeq(u, 1, n) = SubSeq(s, 1 + 0, n + 0)
  BY <1>1, <1>3, PieceSame
<1>5. SubSeq(s, 1, n) = s
  BY <1>2, SubSeqFull DEF Text
<1>6. Len(u) - 1 = n
  BY <1>1, <1>2
<1> QED BY <1>1, <1>3, <1>4, <1>5, <1>6

-----------------------------------------------------------------------------
(* The content of a queue q from the front f to the rear e, and its changes. *)

TextOf(q, f, e) == [i \in 1 .. Away(QSize, f, e) |-> q[(f + (i - 1)) % QSize]]

\* The i-th place from the front on has the distance i - 1.
LEMMA PlaceAt ==
  ASSUME NEW f \in Places, NEW i \in 1 .. QSize
  PROVE  (f + (i - 1)) % QSize \in Places /\ Away(QSize, f, (f + (i - 1)) % QSize) = i - 1
<1>1. i - 1 \in Places
  BY TtyAssumption DEF Places
<1> QED BY <1>1, PlaceFacts

LEMMA TextIs ==
  ASSUME NEW q \in QueueMemory, NEW f \in Places, NEW e \in Places
  PROVE  /\ TextOf(q, f, e) \in Text
         /\ Len(TextOf(q, f, e)) = Away(QSize, f, e) /\ Away(QSize, f, e) \in 0 .. QSize - 1
<1>1. QSize \in Nat /\ QSize >= 3
  BY TtyAssumption
<1>2. PICK n \in 0 .. QSize - 1 : n = Away(QSize, f, e)
  BY PlaceFacts
<1>3. PICK c : c = TextOf(q, f, e)
  OBVIOUS
<1>4. c = [i \in 1 .. n |-> q[(f + (i - 1)) % QSize]]
  BY <1>2, <1>3 DEF TextOf
<1>5. c \in [1 .. n -> Characters]
  <2>1. ASSUME NEW i \in 1 .. n PROVE q[(f + (i - 1)) % QSize] \in Characters
    <3>1. i \in 1 .. QSize
      BY <1>1
    <3>2. (f + (i - 1)) % QSize \in Places
      BY <3>1, PlaceAt
    <3> QED BY <3>2 DEF QueueMemory
  <2> QED BY <2>1, <1>4
<1>6. c \in Text /\ Len(c) = n
  <2>1. n \in Nat
    BY <1>1
  <2>2. \A g \in [1 .. n -> Characters] : g \in Seq(Characters) /\ Len(g) = n
    BY <2>1, SeqDef
  <2> QED BY <2>2, <1>5 DEF Text
<1> QED BY <1>2, <1>3, <1>6

LEMMA TextAt ==
  ASSUME NEW q \in QueueMemory, NEW f \in Places, NEW e \in Places
  PROVE  /\ \A i \in 1 .. Away(QSize, f, e) : TextOf(q, f, e)[i] = q[(f + (i - 1)) % QSize]
         /\ \A p \in Places :
              Away(QSize, f, p) < Away(QSize, f, e) => TextOf(q, f, e)[Away(QSize, f, p) + 1] = q[p]
<1>1. QSize \in Nat /\ QSize >= 3
  BY TtyAssumption
<1>2. PICK n \in 0 .. QSize - 1 : n = Away(QSize, f, e)
  BY PlaceFacts
<1>3. \A i \in 1 .. n : TextOf(q, f, e)[i] = q[(f + (i - 1)) % QSize]
  BY <1>2 DEF TextOf
<1>4. ASSUME NEW p \in Places, Away(QSize, f, p) < n PROVE TextOf(q, f, e)[Away(QSize, f, p) + 1] = q[p]
  <2>1. PICK m \in 0 .. QSize - 1 : m = Away(QSize, f, p) /\ (f + m) % QSize = p
    BY PlaceFacts
  <2>2. m + 1 \in 1 .. n /\ (m + 1) - 1 = m
    BY <1>1, <1>4, <2>1
  <2>3. TextOf(q, f, e)[m + 1] = q[(f + ((m + 1) - 1)) % QSize]
    BY <2>2, <1>3
  <2> QED BY <2>1, <2>2, <2>3
<1> QED BY <1>2, <1>3, <1>4

\* Changed at the rear and beyond, it has the same characters before.
LEMMA TextKept ==
  ASSUME NEW q \in QueueMemory, NEW f \in Places, NEW e \in Places, NEW qq \in QueueMemory,
         NEW ee \in Places, Away(QSize, f, e) <= Away(QSize, f, ee),
         \A p \in Places : Away(QSize, f, p) < Away(QSize, f, e) => qq[p] = q[p]
  PROVE  \A i \in 1 .. Len(TextOf(q, f, e)) : TextOf(qq, f, ee)[i] = TextOf(q, f, e)[i]
<1>1. PICK c, d : c = TextOf(q, f, e) /\ d = TextOf(qq, f, ee)
  OBVIOUS
<1>2. /\ Len(c) = Away(QSize, f, e) /\ Len(c) \in 0 .. QSize - 1
      /\ \A i \in 1 .. Len(c) : c[i] = q[(f + (i - 1)) % QSize]
  BY <1>1, TextIs, TextAt
<1>3. /\ Len(d) = Away(QSize, f, ee) /\ Len(d) \in 0 .. QSize - 1
      /\ \A i \in 1 .. Len(d) : d[i] = qq[(f + (i - 1)) % QSize]
  BY <1>1, TextIs, TextAt
<1>4. QSize \in Nat
  BY TtyAssumption
<1>5. ASSUME NEW i \in 1 .. Len(c) PROVE d[i] = c[i]
  <2>1. i \in 1 .. QSize /\ i \in 1 .. Len(d) /\ i - 1 < Len(c)
    BY <1>2, <1>3, <1>4
  <2>2. PICK p \in Places : p = (f + (i - 1)) % QSize /\ Away(QSize, f, p) = i - 1
    BY <2>1, PlaceAt
  <2>3. qq[p] = q[p]
    BY <2>1, <2>2, <1>2
  <2>4. d[i] = qq[p] /\ c[i] = q[p]
    BY <2>1, <2>2, <1>2, <1>3
  <2> QED BY <2>3, <2>4
<1> QED BY <1>1, <1>5

LEMMA LetterText ==
  ASSUME NEW q \in QueueMemory, NEW f \in Places, NEW e \in Places, q[Back(f)] = NUL,
         NEW ch \in Characters, ch # NUL, (f - e - 1) % QSize >= 1,
         NEW c, c = TextOf(q, f, e), NEW d, d = TextOf(WithLetter(q, e, ch), f, Ahead(e))
  PROVE  /\ c \in Text /\ d \in Text /\ Len(d) = Len(c) + 1
         /\ \A i \in 1 .. Len(c) : d[i] = c[i]
         /\ d[Len(c) + 1] = ch
<1>1. QSize \in Nat /\ QSize >= 3 /\ NUL \in Characters
  BY TtyAssumption DEF Characters
<1>2. /\ Away(QSize, f, e) \in 0 .. QSize - 2
      /\ Ahead(e) \in Places /\ Away(QSize, f, Ahead(e)) = Away(QSize, f, e) + 1
  <2>1. Away(QSize, f, e) \in 0 .. QSize - 1 /\ (f - e - 1) % QSize = QSize - 1 - Away(QSize, f, e)
    BY PlaceFacts
  <2>2. Away(QSize, f, e) \in 0 .. QSize - 2 /\ Away(QSize, f, e) < QSize - 1
    BY <2>1, <1>1
  <2> QED BY <2>2, PlaceFacts
<1>3. PICK qq \in QueueMemory : qq = WithLetter(q, e, ch)
  BY LetterEnds
<1>4. \A p \in Places : qq[p] = IF p = Ahead(e) THEN NUL ELSE IF p = e THEN ch ELSE q[p]
  BY <1>2, <1>3 DEF WithLetter, QueueMemory
<1>5. \A p \in Places : Away(QSize, f, p) < Away(QSize, f, e) => qq[p] = q[p]
  BY <1>1, <1>2, <1>4
<1>6. /\ c \in Text /\ Len(c) = Away(QSize, f, e)
  BY TextIs
<1>7. /\ d \in Text /\ Len(d) = Away(QSize, f, Ahead(e))
      /\ \A p \in Places : Away(QSize, f, p) < Len(d) => d[Away(QSize, f, p) + 1] = qq[p]
  <2>1. PICK x \in Places : x = Ahead(e)
    BY <1>2
  <2>2. d = TextOf(qq, f, x)
    BY <1>3, <2>1
  <2> QED BY <2>1, <2>2, TextIs, TextAt
<1>8. \A i \in 1 .. Len(c) : d[i] = c[i]
  <2>1. PICK x \in Places : x = Ahead(e) /\ Away(QSize, f, e) <= Away(QSize, f, x)
    BY <1>1, <1>2
  <2> QED BY <2>1, <1>3, <1>5, TextKept
<1>9. d[Len(c) + 1] = ch
  <2>1. Away(QSize, f, e) < Len(d) /\ e # Ahead(e)
    BY <1>1, <1>2, <1>7
  <2> QED BY <2>1, <1>4, <1>6, <1>7
<1> QED BY <1>2, <1>6, <1>7, <1>8, <1>9

\* A line completed: its newline, its end mark, and the place behind cleared.
WithLine(q, e) == [q EXCEPT ![e] = NL, ![Ahead(e)] = NUL, ![Ahead(Ahead(e))] = NUL]

LEMMA LineText ==
  ASSUME NEW q \in QueueMemory, NEW f \in Places, NEW e \in Places, q[Back(f)] = NUL,
         (f - e - 1) % QSize >= 2,
         NEW c, c = TextOf(q, f, e),
         NEW d, d = TextOf(WithLine(q, e), f, Ahead(Ahead(e)))
  PROVE  /\ c \in Text /\ d \in Text /\ Len(d) = Len(c) + 2
         /\ \A i \in 1 .. Len(c) : d[i] = c[i]
         /\ d[Len(c) + 1] = NL /\ d[Len(c) + 2] = NUL
<1>0. PICK qq : qq = WithLine(q, e) /\ d = TextOf(qq, f, Ahead(Ahead(e)))
  OBVIOUS
<1>1. QSize \in Nat /\ QSize >= 3 /\ NUL \in Characters
  BY TtyAssumption DEF Characters
<1>2. /\ Away(QSize, f, e) \in 0 .. QSize - 3
      /\ Ahead(e) \in Places /\ Away(QSize, f, Ahead(e)) = Away(QSize, f, e) + 1
      /\ Ahead(Ahead(e)) \in Places /\ Away(QSize, f, Ahead(Ahead(e))) = Away(QSize, f, e) + 2
  <2>1. Away(QSize, f, e) \in 0 .. QSize - 1 /\ (f - e - 1) % QSize = QSize - 1 - Away(QSize, f, e)
    BY PlaceFacts
  <2>2. Away(QSize, f, e) \in 0 .. QSize - 3 /\ Away(QSize, f, e) < QSize - 1
    BY <2>1, <1>1
  <2>3. Ahead(e) \in Places /\ Away(QSize, f, Ahead(e)) = Away(QSize, f, e) + 1
    BY <2>2, PlaceFacts
  <2>4. PICK g \in Places : g = Ahead(e)
    BY <2>3
  <2>5. Away(QSize, f, g) < QSize - 1
    BY <2>2, <2>3, <2>4, <1>1
  <2>6. Ahead(g) \in Places /\ Away(QSize, f, Ahead(g)) = Away(QSize, f, g) + 1
    BY <2>5, PlaceFacts
  <2> QED BY <2>2, <2>3, <2>4, <2>6, <1>1
<1>3. qq \in QueueMemory
  BY <1>0, LineEnds DEF WithLine
<1>4. \A p \in Places : qq[p] = IF p = Ahead(Ahead(e)) \/ p = Ahead(e) THEN NUL
                                ELSE IF p = e THEN NL ELSE q[p]
  <2>1. PICK x \in Places, y \in Places : x = Ahead(e) /\ y = Ahead(Ahead(e))
    BY <1>2
  <2>2. qq = [q EXCEPT ![e] = NL, ![x] = NUL, ![y] = NUL]
    BY <1>0, <2>1 DEF WithLine
  <2>3. q \in [Places -> Characters]
    BY DEF QueueMemory
  <2>4. \A p \in Places : qq[p] = IF p = y \/ p = x THEN NUL ELSE IF p = e THEN NL ELSE q[p]
    BY ONLY <2>2, <2>3
  <2> QED BY <2>1, <2>4
<1>5. \A p \in Places : Away(QSize, f, p) < Away(QSize, f, e) => qq[p] = q[p]
  <2>1. PICK n \in Int, x \in Places, y \in Places :
          n = Away(QSize, f, e) /\ x = Ahead(e) /\ y = Ahead(Ahead(e))
    BY <1>1, <1>2
  <2>2. Away(QSize, f, x) = n + 1 /\ Away(QSize, f, y) = n + 2
    BY <2>1, <1>2
  <2>3. ASSUME NEW p \in Places, Away(QSize, f, p) < n PROVE p # e /\ p # x /\ p # y
    BY ONLY <2>1, <2>2, <2>3
  <2> QED BY <2>1, <2>3, <1>4
<1>6. /\ c \in Text /\ Len(c) = Away(QSize, f, e)
  BY TextIs
<1>7. /\ d \in Text /\ Len(d) = Away(QSize, f, Ahead(Ahead(e)))
      /\ \A p \in Places : Away(QSize, f, p) < Len(d) => d[Away(QSize, f, p) + 1] = qq[p]
  <2>1. PICK x \in Places : x = Ahead(Ahead(e))
    BY <1>2
  <2>2. d = TextOf(qq, f, x)
    BY <1>0, <2>1
  <2> QED BY ONLY f \in Places, <1>3, <2>1, <2>2, TextIs, TextAt
<1>8. \A i \in 1 .. Len(c) : d[i] = c[i]
  <2>1. PICK x \in Places : x = Ahead(Ahead(e)) /\ Away(QSize, f, e) <= Away(QSize, f, x)
    BY <1>1, <1>2
  <2>2. \A i \in 1 .. Len(TextOf(q, f, e)) : TextOf(qq, f, x)[i] = TextOf(q, f, e)[i]
    BY ONLY q \in QueueMemory, f \in Places, e \in Places, <2>1, <1>3, <1>5, TextKept
  <2> QED BY <1>0, <2>1, <2>2
<1>9. d[Len(c) + 1] = NL
  <2>1. Away(QSize, f, e) < Len(d) /\ e # Ahead(e) /\ e # Ahead(Ahead(e))
    BY <1>1, <1>2, <1>7
  <2> QED BY <2>1, <1>4, <1>6, <1>7
<1>10. d[Len(c) + 2] = NUL
  <2>1. PICK n \in Int, x \in Places : n = Away(QSize, f, e) /\ x = Ahead(e)
    BY <1>1, <1>2
  <2>2. Away(QSize, f, x) = n + 1 /\ n + 1 < Len(d) /\ (n + 1) + 1 = Len(c) + 2
    BY <2>1, <1>2, <1>6, <1>7
  <2>3. d[Away(QSize, f, x) + 1] = qq[x] /\ qq[x] = NUL
    BY <2>1, <2>2, <1>4, <1>7
  <2> QED BY <2>2, <2>3
<1>11. Len(d) = Len(c) + 2
  BY <1>2, <1>6, <1>7
<1> QED BY <1>6, <1>7, <1>8, <1>9, <1>10, <1>11

\* The last character erased: its place is cleared.
WithoutLast(q, e) == [q EXCEPT ![Back(e)] = NUL]

LEMMA EraseText ==
  ASSUME NEW q \in QueueMemory, NEW f \in Places, NEW e \in Places, q[Back(f)] = NUL,
         q[Back(e)] # NUL, NEW c, c = TextOf(q, f, e),
         NEW d, d = TextOf(WithoutLast(q, e), f, Back(e))
  PROVE  /\ c \in Text /\ d \in Text /\ Len(c) = Len(d) + 1
         /\ \A i \in 1 .. Len(d) : c[i] = d[i]
         /\ c[Len(d) + 1] = q[Back(e)]
<1>0. PICK qq : qq = WithoutLast(q, e) /\ d = TextOf(qq, f, Back(e))
  OBVIOUS
<1>1. QSize \in Nat /\ QSize >= 3 /\ e # f
  BY TtyAssumption
<1>2. /\ Away(QSize, f, e) \in 0 .. QSize - 1 /\ Back(e) \in Places
      /\ Away(QSize, f, Back(e)) = Away(QSize, f, e) - 1
  BY <1>1, PlaceFacts
<1>3. qq \in QueueMemory
  BY <1>0, EraseEnds DEF WithoutLast
<1>4. \A p \in Places : qq[p] = IF p = Back(e) THEN NUL ELSE q[p]
  BY <1>0, <1>2 DEF QueueMemory, WithoutLast
<1>5. \A p \in Places : Away(QSize, f, p) < Away(QSize, f, Back(e)) => q[p] = qq[p]
  <2>1. Away(QSize, f, Back(e)) \in Int
    BY <1>1, <1>2
  <2> QED BY <2>1, <1>4
<1>6. /\ c \in Text /\ Len(c) = Away(QSize, f, e)
      /\ \A p \in Places : Away(QSize, f, p) < Len(c) => c[Away(QSize, f, p) + 1] = q[p]
  BY TextIs, TextAt
<1>7. /\ d \in Text /\ Len(d) = Away(QSize, f, Back(e))
  BY <1>0, <1>2, <1>3, TextIs
<1>8. \A i \in 1 .. Len(d) : c[i] = d[i]
  <2>1. PICK x \in Places : x = Back(e) /\ Away(QSize, f, x) <= Away(QSize, f, e)
    BY <1>1, <1>2
  <2>2. \A p \in Places : Away(QSize, f, p) < Away(QSize, f, x) => q[p] = qq[p]
    BY <2>1, <1>5
  <2>3. \A i \in 1 .. Len(TextOf(qq, f, x)) : TextOf(q, f, e)[i] = TextOf(qq, f, x)[i]
    BY ONLY q \in QueueMemory, f \in Places, e \in Places, <2>1, <2>2, <1>3, TextKept
  <2> QED BY <1>0, <2>1, <2>3
<1>9. c[Len(d) + 1] = q[Back(e)]
  <2>1. Away(QSize, f, Back(e)) < Len(c)
    BY <1>1, <1>2, <1>6
  <2> QED BY <2>1, <1>2, <1>6, <1>7
<1>10. Len(c) = Len(d) + 1
  BY <1>1, <1>2, <1>6, <1>7
<1> QED BY <1>6, <1>7, <1>8, <1>9, <1>10

LEMMA ReadText ==
  ASSUME NEW q \in QueueMemory, NEW f \in Places, NEW e \in Places, EndSet(q, f, e) # {},
         NEW n \in Places, q[(f + n) % QSize] = NUL,
         \A m \in 0 .. n - 1 : q[(f + m) % QSize] # NUL,
         NEW g, g = (f + n + 1) % QSize,
         NEW c, c = TextOf(q, f, e), NEW d, d = TextOf(q, g, e)
  PROVE  /\ c \in Text /\ d \in Text /\ n + 1 \in 1 .. Len(c) /\ c[n + 1] = NUL
         /\ \A i \in 1 .. n : c[i] # NUL /\ c[i] = q[(f + (i - 1)) % QSize]
         /\ Len(d) = Len(c) - (n + 1) /\ \A i \in 1 .. Len(d) : d[i] = c[i + (n + 1)]
<1>1. QSize \in Nat \ {0} /\ QSize >= 3 /\ Places = 0 .. QSize - 1
  BY TtyAssumption DEF Places
<1>2. g \in Places /\ (f + n) % QSize \in EndSet(q, f, e)
  BY ReadEnds
<1>3. /\ c \in Text /\ Len(c) = Away(QSize, f, e) /\ Len(c) \in 0 .. QSize - 1
      /\ \A i \in 1 .. Len(c) : c[i] = q[(f + (i - 1)) % QSize]
      /\ \A p \in Places : Away(QSize, f, p) < Len(c) => c[Away(QSize, f, p) + 1] = q[p]
  <2>1. c \in Text /\ Len(c) = Away(QSize, f, e) /\ Len(c) \in 0 .. QSize - 1
    BY ONLY q \in QueueMemory, f \in Places, e \in Places, c = TextOf(q, f, e), TextIs
  <2>2. /\ \A i \in 1 .. Away(QSize, f, e) : c[i] = q[(f + (i - 1)) % QSize]
        /\ \A p \in Places : Away(QSize, f, p) < Away(QSize, f, e) => c[Away(QSize, f, p) + 1] = q[p]
    BY ONLY q \in QueueMemory, f \in Places, e \in Places, c = TextOf(q, f, e), TextAt
  <2> QED BY ONLY <2>1, <2>2
<1>4. /\ d \in Text /\ Len(d) = Away(QSize, g, e) /\ Len(d) \in 0 .. QSize - 1
      /\ \A i \in 1 .. Len(d) : d[i] = q[(g + (i - 1)) % QSize]
  <2>1. PICK x \in Places : x = g
    BY <1>2
  <2>2. d = TextOf(q, x, e)
    BY <2>1
  <2>3. TextOf(q, x, e) \in Text /\ Len(TextOf(q, x, e)) = Away(QSize, x, e) /\ Away(QSize, x, e) \in 0 .. QSize - 1
    BY ONLY q \in QueueMemory, x \in Places, e \in Places, TextIs
  <2>4. \A i \in 1 .. Away(QSize, x, e) : TextOf(q, x, e)[i] = q[(x + (i - 1)) % QSize]
    BY ONLY q \in QueueMemory, x \in Places, e \in Places, TextAt
  <2> QED BY ONLY <2>1, <2>2, <2>3, <2>4
<1>5. n < Len(c)
  <2>1. Away(QSize, f, (f + n) % QSize) = n
    BY PlaceFacts
  <2> QED BY <2>1, <1>2, <1>3 DEF EndSet
<1>6. \A p \in Places :
        Away(QSize, g, p) = IF Away(QSize, f, p) > n THEN Away(QSize, f, p) - n - 1
                            ELSE Away(QSize, f, p) + QSize - n - 1
  <2>1. n \in 0 .. QSize - 2 /\ f \in 0 .. QSize - 1
    BY <1>1, <1>3, <1>5
  <2> QED BY <2>1, <1>1, DistancesNext
<1>7. \A p \in Places : Away(QSize, f, p) \in 0 .. QSize - 1
  BY PlaceFacts
<1>8. n \in Nat /\ n + 1 \in 1 .. Len(c) /\ Len(d) = Len(c) - (n + 1)
  BY <1>1, <1>3, <1>4, <1>5, <1>6
<1>9. c[n + 1] = NUL
  <2>1. (n + 1) - 1 = n
    BY <1>8
  <2>2. c[n + 1] = q[(f + ((n + 1) - 1)) % QSize]
    BY <1>3, <1>8
  <2> QED BY <2>1, <2>2
<1>10. ASSUME NEW i \in 1 .. n PROVE c[i] # NUL /\ c[i] = q[(f + (i - 1)) % QSize]
  <2>1. i \in 1 .. Len(c) /\ i - 1 \in 0 .. n - 1
    BY <1>3, <1>8
  <2> QED BY <2>1, <1>3
<1>11. ASSUME NEW i \in 1 .. Len(d) PROVE d[i] = c[i + (n + 1)]
  <2>1. i \in 1 .. QSize
    BY <1>1, <1>4
  <2>2. PICK p \in Places : p = (g + (i - 1)) % QSize /\ Away(QSize, g, p) = i - 1
    BY <2>1, <1>2, PlaceAt
  <2>3. PICK m \in 0 .. QSize - 1 : m = Away(QSize, f, p)
    BY <1>7
  <2>4. m = i + n /\ m < Len(c)
    <3>1. i - 1 = IF m > n THEN m - n - 1 ELSE m + QSize - n - 1
      BY <2>2, <2>3, <1>6
    <3>2. i \in Int /\ i >= 1 /\ i <= Len(c) - (n + 1) /\ Len(c) \in 0 .. QSize - 1
      BY <1>3, <1>4, <1>8
    <3>3. QSize \in Int /\ n \in Int /\ m \in Int /\ m >= 0
      BY <1>1, <1>8
    <3> QED BY ONLY <3>1, <3>2, <3>3
  <2>5. c[m + 1] = q[p] /\ m + 1 = i + (n + 1)
    <3>1. c[Away(QSize, f, p) + 1] = q[p]
      BY <2>3, <2>4, <1>3
    <3>2. i \in Int /\ n \in Int
      BY <1>4, <1>8
    <3>3. m + 1 = i + (n + 1)
      BY ONLY <2>4, <3>2
    <3> QED BY ONLY <3>1, <3>3, <2>3
  <2> QED BY <2>2, <2>5, <1>4
<1> QED BY <1>3, <1>4, <1>8, <1>9, <1>10, <1>11

-----------------------------------------------------------------------------
(* The terminal of the start is a line discipline. *)

EditNow  == LET content == Content(First) IN EditIn(content)
LinesNow == LET content == Content(First) IN LinesIn(content)
GotNow   == [r \in Readers |-> IF load.uses[r] = First THEN got[r] ELSE <<>>]

Here == <<queue[First], qfront[First], qrear[First]>>

\* What the readers got is kept per reader, and the bounds of a behaviour stay.
GotOK == got = [r \in Readers |-> got[r]]

DisciplineInv == LinesInv /\ ScreenInv /\ GotOK

LEMMA ContentIs ==
  /\ Content(First) = TextOf(queue[First], qfront[First], qrear[First])
  /\ Content(First)' = TextOf(queue[First], qfront[First], qrear[First])'
BY DEF Content, TextOf, FromFront, Away

LEMMA HereKept ==
  ASSUME UNCHANGED Here
  PROVE  UNCHANGED <<EditNow, LinesNow>>
<1>1. UNCHANGED <<queue[First], qfront[First], qrear[First]>>
  BY DEF Here
<1>2. Content(First)' = Content(First)
  BY <1>1, ContentIs
<1> QED BY <1>2 DEF EditNow, LinesNow

LEMMA DisciplineInit == Init => Discipline!Init
<1> SUFFICES ASSUME Init PROVE Discipline!Init
    OBVIOUS
<1>1. queue[First] = [i \in Places |-> NUL] /\ qfront[First] = 0 /\ qrear[First] = 0
  BY TtyAssumption DEF Init
<1>2. 0 \in Places /\ QSize \in Nat
  BY TtyAssumption DEF Places
<1>3. PICK c : c = Content(First)
  OBVIOUS
<1>4. c \in Text /\ Len(c) = 0 /\ c = <<>>
  <2>1. PICK q \in QueueMemory : q = queue[First]
    BY <1>1 DEF QueueMemory, Characters
  <2>2. c = TextOf(q, 0, 0)
    BY <2>1, <1>1, <1>3, ContentIs
  <2>3. Away(QSize, 0, 0) = 0
    BY <1>2, PlaceFacts
  <2>4. c \in Text /\ Len(c) = 0
    BY <2>2, <2>3, <1>2, TextIs
  <2>5. c = <<>>
    BY <2>4, EmptySeq DEF Text
  <2> QED BY <2>4, <2>5
<1>5. Ends(c) = {}
  BY <1>4, TextFacts
<1>6. LinesIn(c) = <<>> /\ EditIn(c) = <<>>
  <2>1. Cardinality(Ends(c)) = 0
    BY <1>5, FS_EmptySet
  <2>2. LinesIn(c) \in Seq(Text) /\ Len(LinesIn(c)) = 0 /\ EditIn(c) = SubSeq(c, EndOf(Ends(c), 0) + 1, Len(c))
    BY ONLY <1>4, <2>1, LineFacts
  <2>3. EndOf(Ends(c), 0) = 0
    BY DEF EndOf
  <2>4. EditIn(c) = SubSeq(c, 1, 0)
    BY <2>2, <2>3, <1>4
  <2>5. EditIn(c) = <<>>
    BY <2>4, SubSeqEmpty
  <2>6. LinesIn(c) = <<>>
    BY <2>2, EmptySeq
  <2> QED BY <2>5, <2>6
<1>7. EditNow = <<>> /\ LinesNow = <<>>
  BY <1>3, <1>6 DEF EditNow, LinesNow
<1>8. GotNow = [r \in Readers |-> <<>>]
  BY DEF GotNow, Init
<1> QED BY <1>7, <1>8 DEF Discipline!Init, EditNow, LinesNow, GotNow

\* What the daemon does to the queue of the first terminal.
LEMMA CookTypes ==
  ASSUME DisciplineInv, tty_cook
  PROVE  Discipline!Next \/ UNCHANGED <<EditNow, LinesNow, GotNow>>
<1>0. UNCHANGED GotNow /\ QSize \in Nat
  BY TtyAssumption DEF tty_cook, inputVars, GotNow
<1>1. /\ queue \in [Terms -> QueueMemory] /\ qfront \in [Terms -> Places] /\ qrear \in [Terms -> Places]
      /\ tty \in Terms /\ First \in Terms /\ qfront' = qfront
  BY TtyAssumption DEF DisciplineInv, LinesInv, LinesType, ScreenInv, ScreenType, tty_cook
<1>2. CASE tty # First
  <2>1. UNCHANGED Here
    BY <1>1, <1>2 DEF tty_cook, Enqueue, EnqueueLine, PopBack, Here
  <2> QED BY <2>1, <1>0, HereKept
<1>3. CASE UNCHANGED <<queue, qrear>>
  <2>1. UNCHANGED Here
    BY <1>1, <1>3 DEF Here
  <2> QED BY <2>1, <1>0, HereKept
<1>4. CASE tty = First
  <2>1. PICK q \in QueueMemory, f \in Places, e \in Places :
          q = queue[First] /\ f = qfront[First] /\ e = qrear[First]
    BY <1>1
  <2>2. q[Back(f)] = NUL
    BY <2>1, <1>1 DEF DisciplineInv, LinesInv, LineOK
  <2>3. PICK c : c = TextOf(q, f, e)
    OBVIOUS
  <2>4. EditNow = EditIn(c) /\ LinesNow = LinesIn(c)
    BY <2>1, <2>3, ContentIs DEF EditNow, LinesNow
  \* The queue afterwards.
  <2>5. ASSUME NEW qq, NEW ee, queue'[First] = qq, qrear'[First] = ee
        PROVE  EditNow' = EditIn(TextOf(qq, f, ee)) /\ LinesNow' = LinesIn(TextOf(qq, f, ee))
    <3>1. Content(First)' = TextOf(qq, f, ee)
      BY <1>1, <2>1, <2>5, ContentIs
    <3> QED BY <3>1 DEF EditNow, LinesNow
  <2>6. CASE ev \in Letters /\ Room(tty, 1) /\ Enqueue(tty, ev)
    <3>1. PICK ch \in Letters : ch = ev /\ ch \in Characters /\ ch # NUL
      BY <2>6, CharAssumption DEF Characters, Chars
    <3>2. (f - e - 1) % QSize >= 1
      BY <2>1, <2>6, <1>4 DEF Room
    <3>3. queue'[First] = WithLetter(q, e, ch) /\ qrear'[First] = Ahead(e)
      BY <1>1, <1>4, <2>1, <2>6, <3>1 DEF Enqueue, WithLetter
    <3>4. PICK d : d = TextOf(WithLetter(q, e, ch), f, Ahead(e))
      OBVIOUS
    <3>5. EditNow' = EditIn(d) /\ LinesNow' = LinesIn(d)
      BY <2>5, <3>3, <3>4
    <3>6. /\ c \in Text /\ d \in Text /\ Len(d) = Len(c) + 1
          /\ \A i \in 1 .. Len(c) : d[i] = c[i]
          /\ d[Len(c) + 1] = ch
      BY <2>2, <2>3, <3>1, <3>2, <3>4, LetterText
    <3>7. LinesIn(d) = LinesIn(c) /\ EditIn(d) = Append(EditIn(c), ch)
      BY <3>1, <3>6, LetterTyped
    <3>8. EditNow' = Append(EditNow, ch) /\ UNCHANGED <<LinesNow, GotNow>>
      BY <1>0, <2>4, <3>5, <3>7
    <3>9. Discipline!Type(ch)
      BY <3>8 DEF Discipline!Type, EditNow, LinesNow, GotNow
    <3> QED BY <3>9 DEF Discipline!Next
  <2>7. CASE ev = NL /\ Room(tty, 2) /\ EnqueueLine(tty)
    <3>2. (f - e - 1) % QSize >= 2
      BY <2>1, <2>7, <1>4 DEF Room
    <3>3. queue'[First] = WithLine(q, e) /\ qrear'[First] = Ahead(Ahead(e))
      BY <1>1, <1>4, <2>1, <2>7 DEF EnqueueLine, WithLine
    <3>4. PICK d : d = TextOf(WithLine(q, e), f, Ahead(Ahead(e)))
      OBVIOUS
    <3>5. EditNow' = EditIn(d) /\ LinesNow' = LinesIn(d)
      BY <2>5, <3>3, <3>4
    <3>6. /\ c \in Text /\ d \in Text /\ Len(d) = Len(c) + 2
          /\ \A i \in 1 .. Len(c) : d[i] = c[i]
          /\ d[Len(c) + 1] = NL /\ d[Len(c) + 2] = NUL
      BY ONLY q \in QueueMemory, f \in Places, e \in Places, q[Back(f)] = NUL,
              c = TextOf(q, f, e), <3>2, <3>4, LineText
    <3>7. LinesIn(d) = Append(LinesIn(c), Append(EditIn(c), NL)) /\ EditIn(d) = <<>>
      BY <3>6, LineTyped
    <3>8. LinesNow' = Append(LinesNow, Append(EditNow, NL)) /\ EditNow' = <<>> /\ UNCHANGED GotNow
      BY <1>0, <2>4, <3>5, <3>7
    <3>9. Discipline!Enter
      BY <3>8 DEF Discipline!Enter, EditNow, LinesNow, GotNow
    <3> QED BY <3>9 DEF Discipline!Next
  <2>8. CASE ev = BS /\ Erasable(tty) /\ PopBack(tty)
    <3>2. q[Back(e)] # NUL /\ q[Back(e)] \in Characters
      BY <2>1, <2>8, <1>4, PlaceFacts DEF Erasable, QueueMemory
    <3>3. queue'[First] = WithoutLast(q, e) /\ qrear'[First] = Back(e)
      BY <1>1, <1>4, <2>1, <2>8 DEF PopBack, WithoutLast
    <3>4. PICK d : d = TextOf(WithoutLast(q, e), f, Back(e))
      OBVIOUS
    <3>5. EditNow' = EditIn(d) /\ LinesNow' = LinesIn(d)
      BY <2>5, <3>3, <3>4
    <3>6. PICK ch \in Characters : ch = q[Back(e)] /\ ch # NUL
      BY <3>2
    <3>7. /\ c \in Text /\ d \in Text /\ Len(c) = Len(d) + 1
          /\ \A i \in 1 .. Len(d) : c[i] = d[i]
          /\ c[Len(d) + 1] = ch
      <4>1. /\ c \in Text /\ d \in Text /\ Len(c) = Len(d) + 1
            /\ \A i \in 1 .. Len(d) : c[i] = d[i]
            /\ c[Len(d) + 1] = q[Back(e)]
        BY ONLY q \in QueueMemory, f \in Places, e \in Places, q[Back(f)] = NUL,
                c = TextOf(q, f, e), <3>2, <3>4, EraseText
      <4> QED BY <4>1, <3>6
    <3>8. LinesIn(c) = LinesIn(d) /\ EditIn(c) = Append(EditIn(d), ch) /\ EditIn(d) \in Text
      <4>1. LinesIn(c) = LinesIn(d) /\ EditIn(c) = Append(EditIn(d), c[Len(d) + 1])
        BY <3>6, <3>7, LetterTyped
      <4>2. PICK n \in Nat : n = Cardinality(Ends(d))
        BY <3>7, TextFacts
      <4>3. EditIn(d) \in Text
        BY ONLY <3>7, <4>2, LineFacts
      <4> QED BY <3>7, <4>1, <4>3
    <3>9. EditIn(c) # <<>> /\ SubSeq(EditIn(c), 1, Len(EditIn(c)) - 1) = EditIn(d)
      BY <3>8, AppendErased
    <3>10. /\ EditNow # <<>> /\ EditNow' = SubSeq(EditNow, 1, Len(EditNow) - 1)
           /\ UNCHANGED <<LinesNow, GotNow>>
      BY <1>0, <2>4, <3>5, <3>8, <3>9
    <3>11. Discipline!Erase
      BY <3>10 DEF Discipline!Erase, EditNow, LinesNow, GotNow
    <3> QED BY <3>11 DEF Discipline!Next
  <2> QED BY <1>3, <2>6, <2>7, <2>8 DEF tty_cook
<1> QED BY <1>2, <1>4

\* What a reader takes from it.
LEMMA ReadTakes ==
  ASSUME DisciplineInv, NEW r \in Readers, NEW count \in Counts, ReadLine(r, count)
  PROVE  Discipline!Next \/ UNCHANGED <<EditNow, LinesNow, GotNow>>
<1>1. PICK t \in Terms : t = load.uses[r]
  BY UsesTerm DEF DisciplineInv
<1>2. /\ queue \in [Terms -> QueueMemory] /\ qfront \in [Terms -> Places] /\ qrear \in [Terms -> Places]
      /\ First \in Terms /\ UNCHANGED <<queue, qrear, load>>
      /\ qfront' = [qfront EXCEPT ![t] = (@ + LineLength(t) + 1) % QSize]
      /\ got' = [got EXCEPT ![r] = [i \in 1 .. Smaller(count, LineLength(t)) |-> FromFront(t, i - 1)]]
      /\ got = [s \in Readers |-> got[s]]
  BY <1>1, TtyAssumption DEF DisciplineInv, GotOK, LinesInv, LinesType, ReadLine, inputVars
<1>3. CASE t # First
  <2>1. UNCHANGED Here
    BY <1>2, <1>3 DEF Here
  <2>2. UNCHANGED GotNow
    BY <1>1, <1>2, <1>3 DEF GotNow
  <2> QED BY <2>1, <2>2, HereKept
<1>4. CASE t = First
  <2>1. PICK q \in QueueMemory, f \in Places, e \in Places :
          q = queue[First] /\ f = qfront[First] /\ e = qrear[First]
    BY <1>2
  <2>2. EndSet(q, f, e) # {}
    <3>1. PICK W : W = Waiting(t)
      OBVIOUS
    <3>2. /\ r \in W /\ IsFiniteSet(W) /\ Cardinality(W) \in Nat /\ cooked[t] \in Nat
          /\ cooked[t] + Cardinality(W) = Cardinality(EndSet(q, f, e))
      BY <1>1, <1>4, <2>1, <3>1, WaitingFinite
         DEF Waiting, DisciplineInv, LinesInv, LinesType, LineOK, EndsOf, ReadLine
    <3>3. Cardinality(W) # 0
      BY <3>2, FS_EmptySet
    <3> QED BY <3>2, <3>3, EndsFinite, FS_EmptySet
  <2>3. PICK n : n = LineLength(t)
    OBVIOUS
  <2>4. /\ n \in Places /\ q[(f + n) % QSize] = NUL
        /\ \A m \in 0 .. n - 1 : q[(f + m) % QSize] # NUL
    BY <1>4, <2>1, <2>2, <2>3, FirstEnd DEF LineLength, FromFront
  <2>5. PICK g : g = (f + n + 1) % QSize
    OBVIOUS
  <2>6. PICK c, d : c = TextOf(q, f, e) /\ d = TextOf(q, g, e)
    OBVIOUS
  <2>7. /\ c \in Text /\ d \in Text /\ n + 1 \in 1 .. Len(c) /\ c[n + 1] = NUL
        /\ \A i \in 1 .. n : c[i] # NUL /\ c[i] = q[(f + (i - 1)) % QSize]
        /\ Len(d) = Len(c) - (n + 1) /\ \A i \in 1 .. Len(d) : d[i] = c[i + (n + 1)]
    BY <2>2, <2>4, <2>5, <2>6, ReadText
  <2>8. /\ EditNow = EditIn(c) /\ LinesNow = LinesIn(c)
        /\ EditNow' = EditIn(d) /\ LinesNow' = LinesIn(d)
    <3>1. queue'[First] = q /\ qrear'[First] = e /\ qfront'[First] = g
      BY <1>2, <1>4, <2>1, <2>3, <2>5
    <3>2. Content(First) = c /\ Content(First)' = d
      BY <2>1, <2>6, <3>1, ContentIs
    <3> QED BY <3>2 DEF EditNow, LinesNow
  <2>9. n \in Nat /\ count \in Nat
    BY <2>4, TtyAssumption DEF Places
  <2>10. /\ LinesIn(c) # <<>> /\ Head(LinesIn(c)) = SubSeq(c, 1, n)
         /\ LinesIn(d) = Tail(LinesIn(c)) /\ EditIn(d) = EditIn(c)
    <3>1. PICK z \in 1 .. Len(c) : z = n + 1
      BY <2>7
    <3>2. \A i \in 1 .. z - 1 : c[i] # NUL
      BY <2>7, <2>9, <3>1
    <3>3. /\ LinesIn(c) # <<>> /\ Head(LinesIn(c)) = SubSeq(c, 1, z - 1)
          /\ LinesIn(d) = Tail(LinesIn(c)) /\ EditIn(d) = EditIn(c)
      BY <2>7, <3>1, <3>2, LineTaken
    <3>4. z - 1 = n
      BY <2>9, <3>1
    <3> QED BY <3>3, <3>4
  \* The line, and as much of it as fits.
  <2>11. PICK line \in Text : line = SubSeq(c, 1, n) /\ Len(line) = n /\ \A i \in 1 .. n : line[i] = c[i]
    <3>1. c \in [1 .. Len(c) -> Characters] /\ Len(c) \in Nat
      BY <2>7, LenProperties DEF Text
    <3>2. \A i \in 1 .. n : c[i] \in Characters
      BY <2>7, <2>9, <3>1
    <3>3. 1 \in Int /\ n \in Int
      BY <2>9
    <3>4. /\ SubSeq(c, 1, n) \in Text /\ Len(SubSeq(c, 1, n)) = (IF 1 <= n THEN n - 1 + 1 ELSE 0)
          /\ \A i \in 1 .. n - 1 + 1 : SubSeq(c, 1, n)[i] = c[1 + i - 1]
      BY ONLY <3>2, <3>3, SubSeqProperties DEF Text
    <3>5. n - 1 + 1 = n /\ (IF 1 <= n THEN n - 1 + 1 ELSE 0) = n /\ \A i \in 1 .. n : 1 + i - 1 = i
      BY <2>9
    <3> QED BY <3>4, <3>5
  <2>12. PICK m \in 0 .. n : m = Smaller(count, n) /\ m = IF count < Len(line) THEN count ELSE Len(line)
    BY <2>9, <2>11 DEF Smaller
  <2>13. [i \in 1 .. m |-> FromFront(t, i - 1)] = SubSeq(line, 1, m)
    <3>1. PICK part : part = [i \in 1 .. m |-> FromFront(t, i - 1)]
      OBVIOUS
    <3>2. \A i \in 1 .. m : part[i] = line[i]
      <4>1. \A i \in 1 .. m : i \in 1 .. n
        BY <2>9
      <4>2. \A i \in 1 .. m : part[i] = q[(f + (i - 1)) % QSize]
        BY <1>4, <2>1, <3>1 DEF FromFront
      <4> QED BY <2>7, <2>11, <4>1, <4>2
    <3>3. \A i \in 1 .. m : line[i] \in Characters
      <4>1. line \in [1 .. n -> Characters]
        BY <2>11, LenProperties DEF Text
      <4> QED BY <2>9, <4>1
    <3>4. /\ SubSeq(line, 1, m) \in Text /\ Len(SubSeq(line, 1, m)) = (IF 1 <= m THEN m - 1 + 1 ELSE 0)
          /\ \A i \in 1 .. m - 1 + 1 : SubSeq(line, 1, m)[i] = line[1 + i - 1]
      <4>1. 1 \in Int /\ m \in Int
        BY <2>9
      <4> QED BY ONLY <3>3, <4>1, SubSeqProperties DEF Text
    <3>5. m \in Nat /\ m - 1 + 1 = m /\ (IF 1 <= m THEN m - 1 + 1 ELSE 0) = m /\ \A i \in 1 .. m : 1 + i - 1 = i
      BY <2>9
    <3>6. part \in Text /\ Len(part) = m
      <4>1. part \in [1 .. m -> Characters]
        BY <3>1, <3>2, <3>3
      <4>2. \A h \in [1 .. m -> Characters] : h \in Seq(Characters) /\ Len(h) = m
        BY <3>5, SeqDef
      <4> QED BY <4>1, <4>2 DEF Text
    <3>7. PICK s \in Text : s = SubSeq(line, 1, m) /\ Len(s) = m /\ \A i \in 1 .. m : s[i] = line[i]
      BY <3>4, <3>5
    <3>8. part = s
      BY <3>2, <3>6, <3>7, SeqEqual DEF Text
    <3> QED BY <3>1, <3>7, <3>8
  <2>14. GotNow' = [GotNow EXCEPT ![r] = SubSeq(line, 1, m)]
    <3>1. got' = [got EXCEPT ![r] = SubSeq(line, 1, m)]
      BY <1>2, <2>3, <2>12, <2>13
    <3>2. \A s \in Readers : got'[s] = IF s = r THEN SubSeq(line, 1, m) ELSE got[s]
      BY <1>2, <3>1
    <3> QED BY <1>1, <1>2, <1>4, <3>2 DEF GotNow
  <2>15. /\ LinesNow # <<>> /\ LinesNow' = Tail(LinesNow) /\ UNCHANGED EditNow
         /\ GotNow' = [GotNow EXCEPT ![r] =
              SubSeq(Head(LinesNow), 1,
                     IF count < Len(Head(LinesNow)) THEN count ELSE Len(Head(LinesNow)))]
    BY <2>8, <2>10, <2>11, <2>12, <2>14
  <2>16. Discipline!Read(r, count)
    BY <2>15 DEF Discipline!Read, EditNow, LinesNow, GotNow
  <2> QED BY <2>16 DEF Discipline!Next
<1> QED BY <1>3, <1>4

LEMMA GotInit == Init => GotOK
BY DEF Init, GotOK

LEMMA GotStep ==
  ASSUME DisciplineInv, [Next]_vars
  PROVE  GotOK'
<1>1. CASE UNCHANGED got
  BY <1>1 DEF DisciplineInv, GotOK
<1>2. ASSUME NEW r \in Readers, NEW count \in Counts, ReadLine(r, count) PROVE GotOK'
  <2>1. got = [s \in Readers |-> got[s]]
    BY DEF DisciplineInv, GotOK
  <2>2. PICK line : got' = [got EXCEPT ![r] = line]
    BY <1>2 DEF ReadLine
  <2> QED BY <2>1, <2>2 DEF GotOK
<1>3. UNCHANGED got \/ \E r \in Readers, count \in Counts : ReadLine(r, count)
  BY DEF Next, vars, ttyVars, queueVars, tty_cook, tty_queue_full, Start, AwaitEvent, PopEvent, SwitchMark,
         SwitchTo, Blink, StartWrite, EndWrite, Draw, Clear, tty_write, WaitLine
<1> QED BY <1>1, <1>2, <1>3

LEMMA DisciplineStep ==
  DisciplineInv /\ [Next]_vars => [Discipline!Next]_<<EditNow, LinesNow, GotNow>>
<1> SUFFICES ASSUME DisciplineInv, [Next]_vars
             PROVE  Discipline!Next \/ UNCHANGED <<EditNow, LinesNow, GotNow>>
    OBVIOUS
<1>1. CASE UNCHANGED <<queue, qfront, qrear, got, load>>
  <2>1. UNCHANGED Here /\ UNCHANGED GotNow
    BY <1>1 DEF Here, GotNow
  <2> QED BY <2>1, HereKept
<1>2. CASE UNCHANGED vars
  BY <1>1, <1>2 DEF vars, ttyVars, queueVars, inputVars
<1>3. CASE InputStep /\ UNCHANGED ttyVars
  BY <1>1, <1>3 DEF InputStep, input_keydown, CheckTime, push_event, PostEvent, Sleep, input_notify,
                    ttyVars, queueVars
<1>4. CASE tty_queue_full \/ Start \/ SwitchMark \/ SwitchTo \/ Blink
  BY <1>1, <1>4 DEF tty_queue_full, Start, SwitchMark, SwitchTo, Blink, inputVars, ttyVars, queueVars
<1>5. CASE AwaitEvent \/ PopEvent
  BY <1>1, <1>5 DEF AwaitEvent, PopEvent, WaitEvent, NoEvent, TakeEvent, inputVars, queueVars
<1>6. ASSUME NEW a \in Actors, StartWrite(a) \/ EndWrite(a) \/ Draw(a) \/ Clear(a)
      PROVE  UNCHANGED <<queue, qfront, qrear, got, load>>
  BY <1>6 DEF StartWrite, EndWrite, Draw, Clear, inputVars, queueVars
<1>7. ASSUME NEW w \in Writers, NEW ch \in load.written, tty_write(w, ch)
      PROVE  UNCHANGED <<queue, qfront, qrear, got, load>>
  BY <1>7 DEF tty_write, queueVars
<1>8. ASSUME NEW r \in Readers, WaitLine(r) PROVE UNCHANGED <<queue, qfront, qrear, got, load>>
  BY <1>8 DEF WaitLine, inputVars
<1> QED BY <1>1, <1>2, <1>3, <1>4, <1>5, <1>6, <1>7, <1>8, CookTypes, ReadTakes DEF Next

\* The circular queue with its end marks is a line discipline, for any sizes and
\* any readers: they get whole lines in the order typed, and backspace never
\* reaches into a complete line, whatever the daemon does in between.
THEOREM LinesInOrder == Spec => ImplementsDiscipline
<1>1. Init => DisciplineInv /\ Discipline!Init
  BY LinesInit, ScreenInit, GotInit, DisciplineInit DEF DisciplineInv
<1>2. DisciplineInv /\ [Next]_vars => DisciplineInv'
  BY LinesStep, ScreenStep, GotStep DEF DisciplineInv
<1> QED BY <1>1, <1>2, DisciplineStep, PTL
        DEF Spec, ImplementsDiscipline, Discipline!Spec, EditNow, LinesNow, GotNow

-----------------------------------------------------------------------------
(* Types.  What is left of TypeOK beyond the types in EventInv, ScreenInv and *)
(* LinesInv, and who makes a lock be taken: only a task inside tty_putc or    *)
(* tty_render, so that a cursor behind the last cell has one in tty_putc.     *)

InputType ==
  /\ events \in [Slots -> Keys \cup {Tick}] /\ kbdirq \in Nat /\ chars \in Nat
  /\ daemon \in {"keys", "push", "post", "sleep"} /\ new \in Keys \cup {Tick}
  /\ panic \in {"no", "input_queue_full", "input_queue_empty", "tty_queue_full"}

TaskType ==
  /\ show \in BOOLEAN /\ lost \subseteq Terms
  /\ out \in [Actors -> Characters] /\ ev \in Keys \cup {Tick}

GotType == got \in [Readers -> Seq(Characters)]

LockTaken == \A t \in Terms : lock[t] = 0 => \E a \in Actors : Held(a) /\ My(a) = t

AllInv == EventInv /\ ScreenInv /\ LinesInv /\ InputType /\ TaskType /\ GotType /\ LockTaken

LEMMA TypesInit == Init => InputType /\ TaskType /\ GotType /\ LockTaken
<1> SUFFICES ASSUME Init PROVE InputType /\ TaskType /\ GotType /\ LockTaken
    OBVIOUS
<1>1. InputType
  BY DEF Init, InputInit, InputType
<1>2. TaskType
  BY DEF Init, TaskType, Characters
<1>3. GotType
  BY DEF Init, GotType
<1>4. LockTaken
  BY DEF Init, LockTaken
<1> QED BY <1>1, <1>2, <1>3, <1>4

LEMMA LoadFacts ==
  ASSUME ScreenInv
  PROVE  /\ load.keys \subseteq Keys /\ load.written \subseteq Characters
         /\ Terms \subseteq Keys
<1>1. load \in [keys : SUBSET Keys, written : SUBSET (Chars \cup {CR}),
                uses : [Writers \cup Readers -> Terms]]
  BY TtyAssumption DEF ScreenInv, ScreenType
<1>2. load.keys \in SUBSET Keys /\ load.written \in SUBSET (Chars \cup {CR})
  BY <1>1
<1> QED BY <1>2, KeyAssumption DEF Characters

LEMMA InputTyped ==
  ASSUME EventInv, ScreenInv, InputType, [Next]_vars
  PROVE  InputType'
<1> USE DEF InputType
<1>0. front \in Slots /\ rear \in Slots /\ load.keys \subseteq Keys
  BY LoadFacts DEF EventInv, RingOK
<1>1. CASE UNCHANGED <<inputVars, panic>>
  BY <1>1 DEF inputVars, ring
<1>2. ASSUME NEW e \in load.keys, input_keydown(e) PROVE InputType'
  BY <1>0, <1>2 DEF input_keydown, ring
<1>3. CASE CheckTime \/ PostEvent \/ Sleep \/ input_notify
  BY <1>3 DEF CheckTime, PostEvent, Sleep, input_notify, ring
<1>4. CASE push_event
  BY <1>0, <1>4 DEF push_event, ring
<1>5. CASE AwaitEvent
  BY <1>5 DEF AwaitEvent, WaitEvent, ring
<1>6. CASE PopEvent
  <2>1. CASE is_empty
    BY <1>6, <2>1 DEF PopEvent, NoEvent, inputVars, ring
  <2>2. CASE ~is_empty
    BY <1>0, <1>6, <2>2 DEF PopEvent, TakeEvent
  <2> QED BY <2>1, <2>2
<1>7. CASE tty_queue_full
  BY <1>7 DEF tty_queue_full, inputVars, ring
<1>8. ASSUME NEW w \in Writers, NEW ch \in load.written, tty_write(w, ch) PROVE InputType'
  BY <1>8 DEF tty_write, ring
<1>9. CASE tty_cook \/ Start \/ SwitchMark \/ SwitchTo \/ Blink
  BY <1>1, <1>9 DEF tty_cook, Start, SwitchMark, SwitchTo, Blink
<1>10. ASSUME NEW a \in Actors, StartWrite(a) \/ EndWrite(a) \/ Draw(a) \/ Clear(a)
       PROVE  InputType'
  BY <1>1, <1>10 DEF StartWrite, EndWrite, Draw, Clear
<1>11. ASSUME NEW r \in Readers, WaitLine(r) \/ \E n \in Counts : ReadLine(r, n) PROVE InputType'
  BY <1>1, <1>11 DEF WaitLine, ReadLine
<1>12. CASE UNCHANGED vars
  BY <1>1, <1>12 DEF vars
<1> QED BY <1>2, <1>3, <1>4, <1>5, <1>6, <1>7, <1>8, <1>9, <1>10, <1>11, <1>12 DEF Next, InputStep

LEMMA TaskTyped ==
  ASSUME EventInv, ScreenInv, InputType, TaskType, [Next]_vars
  PROVE  TaskType'
<1> USE DEF TaskType
<1>0. /\ front \in Slots /\ tty \in Terms /\ load.written \subseteq Characters /\ Terms \subseteq Keys
      /\ T \in Actors /\ Writers \subseteq Actors /\ Chars \subseteq Characters /\ NUL \in Characters
  BY LoadFacts DEF EventInv, RingOK, ScreenInv, ScreenType, Actors, Characters
<1>1. CASE UNCHANGED <<show, lost, out, ev>>
  BY <1>1
<1>2. CASE tty_cook
  <2>1. UNCHANGED out \/ (out' = [out EXCEPT ![T] = ev] /\ ev \in Chars)
    BY <1>2 DEF tty_cook, Chars
  <2>2. UNCHANGED <<show, lost, ev>>
    BY <1>2 DEF tty_cook, screenVars
  <2>3. out' \in [Actors -> Characters]
    BY <1>0, <2>1
  <2> QED BY <2>2, <2>3
<1>3. ASSUME NEW w \in Writers, NEW ch \in load.written, tty_write(w, ch) PROVE TaskType'
  BY <1>0, <1>3 DEF tty_write, screenVars
<1>4. CASE PopEvent
  <2>1. events[front] \in Keys \cup {Tick}
    BY <1>0 DEF InputType
  <2> QED BY <1>4, <2>1 DEF PopEvent, screenVars
<1>5. CASE SwitchMark
  <2>1. ev \in Terms
    BY <1>5 DEF SwitchMark, ScreenInv, DaemonOK
  <2> QED BY <1>5, <2>1 DEF SwitchMark
<1>6. CASE Blink
  BY <1>6 DEF Blink
<1>7. ASSUME NEW a \in Actors, Clear(a) PROVE TaskType'
  BY <1>0, <1>7 DEF Clear
<1>8. ASSUME NEW a \in Actors, Draw(a) PROVE TaskType'
  BY <1>0, <1>8 DEF Draw
<1>9. ASSUME NEW a \in Actors, StartWrite(a) \/ EndWrite(a) PROVE TaskType'
  BY <1>1, <1>9 DEF StartWrite, EndWrite
<1>10. CASE AwaitEvent \/ Start \/ SwitchTo \/ tty_queue_full
  BY <1>1, <1>10 DEF AwaitEvent, Start, SwitchTo, tty_queue_full, ttyVars, screenVars
<1>11. ASSUME NEW r \in Readers, WaitLine(r) \/ \E n \in Counts : ReadLine(r, n) PROVE TaskType'
  BY <1>1, <1>11 DEF WaitLine, ReadLine, screenVars
<1>12. CASE UNCHANGED vars \/ UNCHANGED ttyVars
  BY <1>1, <1>12 DEF vars, ttyVars, screenVars
<1> QED BY <1>2, <1>3, <1>4, <1>5, <1>6, <1>7, <1>8, <1>9, <1>10, <1>11, <1>12 DEF Next

\* What LineLength chooses is there: a reader that was let in finds an end.
LEMMA LengthThere ==
  ASSUME LinesInv, NEW r \in Readers, rd[r] = "line", NEW t \in Terms, t = load.uses[r]
  PROVE  LineLength(t) \in Places
<1>1. PICK q \in QueueMemory, f \in Places, e \in Places :
        q = queue[t] /\ f = qfront[t] /\ e = qrear[t]
  BY DEF LinesInv, LinesType
<1>2. PICK W : W = Waiting(t)
  OBVIOUS
<1>3. /\ r \in W /\ IsFiniteSet(W) /\ Cardinality(W) \in Nat /\ cooked[t] \in Nat
      /\ cooked[t] + Cardinality(W) = Cardinality(EndSet(q, f, e))
  BY <1>1, <1>2, WaitingFinite DEF Waiting, LinesInv, LinesType, LineOK, EndsOf
<1>4. EndSet(q, f, e) # {}
  <2>1. Cardinality(W) # 0
    BY <1>3, FS_EmptySet
  <2> QED BY <1>3, <2>1, EndsFinite, FS_EmptySet
<1> QED BY <1>1, <1>4, FirstEnd DEF LineLength, FromFront

LEMMA GotTyped ==
  ASSUME ScreenInv, LinesInv, GotType, [Next]_vars
  PROVE  GotType'
<1>1. CASE UNCHANGED got
  BY <1>1 DEF GotType
<1>2. ASSUME NEW r \in Readers, NEW count \in Counts, ReadLine(r, count) PROVE GotType'
  <2>1. PICK t \in Terms : t = load.uses[r]
    BY UsesTerm
  <2>2. PICK n \in Places : n = LineLength(t)
    BY <1>2, <2>1, LengthThere DEF ReadLine
  <2>3. PICK k \in Nat : k = Smaller(count, n) /\ k <= n
    BY TtyAssumption DEF Smaller, Places
  <2>4. PICK line : line = [i \in 1 .. k |-> FromFront(t, i - 1)]
    OBVIOUS
  <2>5. ASSUME NEW i \in 1 .. k PROVE FromFront(t, i - 1) \in Characters
    <3>1. i - 1 \in Places
      BY <2>3, <2>5, TtyAssumption DEF Places
    <3>2. qfront[t] \in Places /\ queue[t] \in [Places -> Characters]
      BY DEF LinesInv, LinesType, QueueMemory
    <3>3. (qfront[t] + (i - 1)) % QSize \in Places
      BY <3>1, <3>2, PlaceFacts
    <3> QED BY <3>2, <3>3 DEF FromFront
  <2>6. line \in Seq(Characters)
    BY <2>3, <2>4, <2>5
  <2>7. got' = [got EXCEPT ![r] = line]
    BY <1>2, <2>1, <2>2, <2>3, <2>4 DEF ReadLine
  <2> QED BY <2>6, <2>7 DEF GotType
<1>3. UNCHANGED got \/ \E r \in Readers, count \in Counts : ReadLine(r, count)
  BY DEF Next, vars, ttyVars, queueVars, tty_cook, tty_queue_full, Start, AwaitEvent, PopEvent, SwitchMark,
         SwitchTo, Blink, StartWrite, EndWrite, Draw, Clear, tty_write, WaitLine
<1> QED BY <1>1, <1>2, <1>3

\* A step of one actor, which goes inside as it takes the lock.
LEMMA LockStep ==
  ASSUME ScreenInv, LockTaken, NEW a \in Actors, NEW to, at' = [at EXCEPT ![a] = to],
         \A b \in Actors : b # a => My(b)' = My(b),
         \/ UNCHANGED lock /\ ~Held(a)
         \/ /\ My(a)' = My(a)
            /\ lock' = [lock EXCEPT ![My(a)] = IF to \in {"putc", "clear"} THEN 0 ELSE 1]
  PROVE  LockTaken'
<1> SUFFICES ASSUME NEW t \in Terms, lock'[t] = 0 PROVE \E b \in Actors : Held(b)' /\ My(b)' = t
  BY DEF LockTaken
<1>1. at'[a] = to /\ \A b \in Actors : b # a => at'[b] = at[b]
  BY DEF ScreenInv, ScreenType
<1>2. ASSUME NEW b \in Actors, b # a, Held(b), My(b) = t PROVE Held(b)' /\ My(b)' = t
  BY <1>1, <1>2 DEF Held
<1>3. CASE UNCHANGED lock /\ ~Held(a)
  <2>1. PICK b \in Actors : Held(b) /\ My(b) = t
    BY <1>3 DEF LockTaken
  <2> QED BY <1>2, <1>3, <2>1
<1>4. CASE /\ My(a)' = My(a)
           /\ lock' = [lock EXCEPT ![My(a)] = IF to \in {"putc", "clear"} THEN 0 ELSE 1]
  <2>1. lock \in [Terms -> {0, 1}] /\ My(a) \in Terms
    BY MyTerm DEF ScreenInv, ScreenType
  <2>2. CASE t = My(a)
    <3>1. to \in {"putc", "clear"}
      BY <1>4, <2>1, <2>2
    <3>2. Held(a)'
      BY <1>1, <3>1 DEF Held
    <3> QED BY <1>4, <2>2, <3>2
  <2>3. CASE t # My(a)
    <3>1. lock[t] = 0
      BY <1>4, <2>1, <2>3
    <3>2. PICK b \in Actors : Held(b) /\ My(b) = t
      BY <3>1 DEF LockTaken
    <3> QED BY <1>2, <2>3, <3>2
  <2> QED BY <2>2, <2>3
<1> QED BY <1>3, <1>4

LEMMA LocksTaken ==
  ASSUME ScreenInv, LockTaken, [Next]_vars
  PROVE  LockTaken'
<1>1. CASE UNCHANGED <<load, tty, lock, at>>
  BY <1>1 DEF LockTaken, Held, My
<1>2. T \in Actors /\ Writers \subseteq Actors \ {T}
  BY TtyAssumption DEF Actors
<1>3. CASE tty_cook \/ Start \/ AwaitEvent \/ SwitchTo \/ Blink
  <2>1. UNCHANGED <<load, tty, lock>> /\ ~Held(T)
    BY <1>3 DEF tty_cook, Start, AwaitEvent, WaitEvent, SwitchTo, Blink, screenVars, inputVars, Held
  <2>2. PICK to : at' = [at EXCEPT ![T] = to]
    BY <1>3 DEF tty_cook, Start, AwaitEvent, SwitchTo, Blink, Goto
  <2>3. \A b \in Actors : My(b)' = My(b)
    BY <2>1 DEF My
  <2> QED BY <1>2, <2>1, <2>2, <2>3, LockStep
<1>4. CASE SwitchMark
  <2>1. UNCHANGED <<load, lock>> /\ ~Held(T) /\ at' = [at EXCEPT ![T] = "current"]
    BY <1>4 DEF SwitchMark, inputVars, Held, Goto
  <2>2. \A b \in Actors : b # T => My(b)' = My(b)
    BY <2>1 DEF My
  <2> QED BY <1>2, <2>1, <2>2, LockStep
<1>5. CASE PopEvent
  <2>1. CASE is_empty
    BY <1>1, <1>5, <2>1 DEF PopEvent, NoEvent, inputVars, screenVars
  <2>2. CASE ~is_empty
    <3>1. UNCHANGED <<load, tty, lock>> /\ ~Held(T)
      BY <1>5, <2>2 DEF PopEvent, TakeEvent, screenVars, Held
    <3>2. PICK to : at' = [at EXCEPT ![T] = to]
      BY <1>5, <2>2 DEF PopEvent, Goto
    <3>3. \A b \in Actors : My(b)' = My(b)
      BY <3>1 DEF My
    <3> QED BY <1>2, <3>1, <3>2, <3>3, LockStep
  <2> QED BY <2>1, <2>2
<1>6. ASSUME NEW w \in Writers, NEW ch \in load.written, tty_write(w, ch) PROVE LockTaken'
  <2>1. UNCHANGED <<load, tty, lock>> /\ ~Held(w) /\ at' = [at EXCEPT ![w] = "write"]
    BY <1>6 DEF tty_write, screenVars, Held, Goto
  <2>2. \A b \in Actors : My(b)' = My(b)
    BY <2>1 DEF My
  <2> QED BY <1>2, <2>1, <2>2, LockStep
<1>7. ASSUME NEW a \in Actors, StartWrite(a) \/ EndWrite(a) \/ Draw(a) \/ Clear(a)
      PROVE  LockTaken'
  <2>1. UNCHANGED <<load, tty>>
    BY <1>7 DEF StartWrite, EndWrite, Draw, Clear, inputVars
  <2>2. \A b \in Actors : My(b)' = My(b)
    BY <2>1 DEF My
  <2>3. CASE StartWrite(a) /\ out[a] = NUL
    BY <1>7, <2>2, <2>3, LockStep DEF StartWrite, Goto, Held
  <2>4. CASE StartWrite(a) /\ out[a] # NUL
    BY <1>7, <2>2, <2>4, LockStep DEF StartWrite, Goto
  <2>5. CASE EndWrite(a)
    BY <1>7, <2>2, <2>5, LockStep DEF EndWrite, Goto
  <2>6. CASE Draw(a)
    BY <1>7, <2>2, <2>6, LockStep DEF Draw, Goto
  <2>7. CASE Clear(a)
    <3>1. PICK to \in {"out", "event", "blink"} : at' = [at EXCEPT ![a] = to]
      BY <2>7 DEF Clear, Goto
    <3> QED BY <1>7, <2>2, <2>7, <3>1, LockStep DEF Clear
  <2> QED BY <1>7, <2>3, <2>4, <2>5, <2>6, <2>7
<1>8. ASSUME NEW r \in Readers, WaitLine(r) \/ \E n \in Counts : ReadLine(r, n) PROVE LockTaken'
  BY <1>1, <1>8 DEF WaitLine, ReadLine, inputVars, screenVars
<1>9. CASE UNCHANGED vars \/ tty_queue_full
  BY <1>1, <1>9 DEF vars, tty_queue_full, ttyVars, inputVars, screenVars
<1>10. CASE InputStep /\ UNCHANGED ttyVars
  <2>1. UNCHANGED load
    BY <1>10 DEF InputStep, input_keydown, CheckTime, push_event, PostEvent, Sleep, input_notify
  <2> QED BY <1>1, <1>10, <2>1 DEF ttyVars, screenVars
<1> QED BY <1>3, <1>4, <1>5, <1>6, <1>7, <1>8, <1>9, <1>10 DEF Next

LEMMA InvGivesTypes == AllInv => TypeOK
<1> SUFFICES ASSUME AllInv PROVE TypeOK
    OBVIOUS
<1> USE DEF AllInv
<1>1. ASSUME NEW t \in Terms
      PROVE  cursor[t] \in Cells \/ (cursor[t] = Size /\ \E a \in Actors : at[a] = "putc" /\ My(a) = t)
  <2>1. cursor[t] \in 0 .. Size /\ Size \in Nat
    BY Sizes DEF ScreenInv, ScreenType
  <2>2. CASE cursor[t] = Size
    <3>1. lock[t] = 0
      BY <2>2 DEF ScreenInv, LocksOK
    <3>2. PICK a \in Actors : Held(a) /\ My(a) = t
      BY <3>1 DEF LockTaken
    <3>3. at[a] = "putc"
      BY <2>2, <3>2 DEF ScreenInv, LocksOK, Held
    <3> QED BY <2>2, <3>2, <3>3
  <2>3. CASE cursor[t] # Size
    BY <2>1, <2>3 DEF Cells
  <2> QED BY <2>2, <2>3
<1>2. /\ events \in [Slots -> Keys \cup {Tick}] /\ front \in Slots /\ rear \in Slots
      /\ eventSem \in Nat /\ kbdirq \in Nat /\ chars \in Nat
      /\ daemon \in {"keys", "push", "post", "sleep"} /\ new \in Keys \cup {Tick}
      /\ panic \in {"no", "input_queue_full", "input_queue_empty", "tty_queue_full"}
  BY DEF InputType, EventInv, RingOK
<1>3. /\ queue \in [Terms -> [Places -> Characters]]
      /\ qfront \in [Terms -> Places] /\ qrear \in [Terms -> Places]
      /\ cooked \in [Terms -> Nat] /\ rd \in [Readers -> {"out", "line"}]
      /\ got \in [Readers -> Seq(Characters)]
  BY DEF LinesInv, LinesType, QueueMemory, GotType
<1>4. /\ load \in Loads /\ lock \in [Terms -> {0, 1}]
      /\ cells \in [Terms -> [Cells -> Letters \cup {NUL}]]
      /\ dirty \in [Terms -> [Cells -> BOOLEAN]] /\ screen \in [Cells -> Letters \cup {NUL, Block}]
      /\ tty \in Terms /\ shown \in Terms /\ at \in [Actors -> Positions]
  BY DEF ScreenInv, ScreenType
<1>5. show \in BOOLEAN /\ lost \subseteq Terms /\ out \in [Actors -> Characters] /\ ev \in Keys \cup {Tick}
  BY DEF TaskType
<1> QED BY <1>1, <1>2, <1>3, <1>4, <1>5 DEF TypeOK, Positions

\* For any sizes of the ring, the queue and the screen and any tasks: indexes stay
\* inside their buffers, only characters are queued and written, a task reads a
\* sequence of them, and a cursor is behind the last cell only while some task
\* inside tty_putc has the terminal's lock and is about to scroll.
THEOREM TtyTyped == Spec => []TypeOK
<1>1. Init => AllInv
  BY EventInit, ScreenInit, LinesInit, TypesInit DEF AllInv
<1>2. AllInv /\ [Next]_vars => AllInv'
  BY EventStep, ScreenStep, LinesStep, InputTyped, TaskTyped, GotTyped, LocksTaken DEF AllInv
<1> QED BY <1>1, <1>2, InvGivesTypes, PTL DEF Spec
=============================================================================
