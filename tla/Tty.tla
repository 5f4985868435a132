-------------------------------- MODULE Tty --------------------------------
(***************************************************************************)
(* The terminals (dev_tty.c) over /dev/input: dev_tty_task puts typed      *)
(* characters into the line queue of its terminal and echoes them, readers *)
(* take complete lines, writers put characters on the screen, and a key    *)
(* switches to another terminal, which the frame buffer then shows.        *)
(* tty->lock guards all but the daemon's marks.                            *)
(***************************************************************************)
EXTENDS Input, FiniteSets, Sequences

CONSTANTS Terms, First,    \* the terminals; the one of the start
          Letters, NL, BS, CR, NUL, Block,
          Ctrl,            \* a key with control or alt that switches nothing
          T,               \* dev_tty_task
          Writers, Readers,
          Counts,          \* the sizes of the readers' buffers
          QSize,           \* TTY_COOK_BUF_SZ
          Columns, Lines,  \* tty->columns, tty->lines
          Loads            \* bound: the keys typed, the characters that tasks
                           \* write, and the terminals they use

Chars == Letters \cup {NL, BS}

\* A terminal stands for the key that switches to it, alt-1 or alt-2.
ASSUME KeyAssumption == Keys = Chars \cup Terms \cup {Ctrl} /\ Chars \cap Terms = {}
ASSUME CharAssumption ==
  /\ Letters \cap {NL, BS, CR, NUL} = {}
  /\ NL \notin {BS, CR, NUL} /\ BS \notin {CR, NUL} /\ CR # NUL
ASSUME TtyAssumption ==
  /\ QSize \in Nat /\ QSize >= 3
  /\ Columns \in Nat \ {0} /\ Lines \in Nat /\ Lines >= 2 /\ Counts \subseteq Nat
  /\ T \notin Writers /\ First \in Terms /\ IsFiniteSet(Readers)
  /\ Loads \subseteq [keys : SUBSET Keys, written : SUBSET (Chars \cup {CR}),
                      uses : [Writers \cup Readers -> Terms]]

VARIABLES
  queue, qfront, qrear,   \* the line queues: their memory, fronts and rears
  lock, cooked,           \* the counters of tty->lock and tty->cooked
  cells, cursor, dirty,   \* tty->buf, tty->cursor, tty->dirty
  show,                   \* show_cursor
  tty,                    \* the terminal of the daemon
  shown,                  \* the terminal on display, fb->info->current
  screen,                 \* what the frame buffer shows in each cell
  at,     \* at[a]: where writer (or daemon) a is
  out,    \* out[a]: the character it writes, NUL for none
  ev,     \* the event the daemon handles
  rd,     \* rd[r]: where reader r is
  got,    \* got[r]: what its last read returned
  lost    \* history: terminals whose marks of a switch were cleared, not drawn

queueVars  == <<queue, qfront, qrear, cooked, rd, got>>
screenVars == <<cells, cursor, dirty, show, tty, shown, screen, lost>>
ttyVars    == <<queueVars, screenVars, lock, at, out, ev>>
vars       == <<inputVars, panic, ttyVars>>

Size  == Columns * Lines
Cells == 0 .. Size - 1
Places == 0 .. QSize - 1
Actors == Writers \cup {T}

\* tty_init, before welcome(), which is one more write: memory and screen are
\* blank.
Init ==
  /\ load \in Loads
  /\ InputInit /\ panic = "no"
  /\ queue = [t \in Terms |-> [i \in Places |-> NUL]]
  /\ qfront = [t \in Terms |-> 0] /\ qrear = [t \in Terms |-> 0]
  /\ lock = [t \in Terms |-> 1] /\ cooked = [t \in Terms |-> 0]
  /\ cells = [t \in Terms |-> [x \in Cells |-> NUL]] /\ cursor = [t \in Terms |-> 0]
  /\ dirty = [t \in Terms |-> [x \in Cells |-> FALSE]]
  /\ show = TRUE
  /\ tty = First /\ shown = First
  /\ screen = [x \in Cells |-> NUL]
  /\ at = [a \in Actors |-> IF a = T THEN "start" ELSE "out"]
  /\ out = [a \in Actors |-> NUL]
  /\ ev = Tick
  /\ rd = [r \in Readers |-> "out"]
  /\ got = [r \in Readers |-> <<>>]
  /\ lost = {}

\* The terminal of writer (or daemon) a.
My(a) == IF a = T THEN tty ELSE load.uses[a]
Goto(a, where) == at' = [at EXCEPT ![a] = where]

-----------------------------------------------------------------------------
\* The line queue of terminal t.
Ahead(i) == (i + 1) % QSize
Back(i)  == (i + QSize - 1) % QSize

\* tty_enqueue n times: it panics when the rear reaches the front.
Room(t, n) == (qfront[t] - qrear[t] - 1) % QSize >= n

Enqueue(t, ch) ==
  /\ queue' = [queue EXCEPT ![t][qrear[t]] = ch, ![t][Ahead(qrear[t])] = NUL]
  /\ qrear' = [qrear EXCEPT ![t] = Ahead(@)]

EnqueueLine(t) ==
  /\ queue' = [queue EXCEPT ![t][qrear[t]] = NL, ![t][Ahead(qrear[t])] = NUL,
                            ![t][Ahead(Ahead(qrear[t]))] = NUL]
  /\ qrear' = [qrear EXCEPT ![t] = Ahead(Ahead(@))]

\* tty_pop_back: never past the end of a complete line.
ErasableSlip(t) == qrear[t] # qfront[t]
Erasable(t) == queue[t][Back(qrear[t])] # NUL

PopBack(t) ==
  /\ queue' = [queue EXCEPT ![t][Back(qrear[t])] = NUL]
  /\ qrear' = [qrear EXCEPT ![t] = Back(@)]

\* An erasure that erases nothing is not echoed.
tty_cook ==
  /\ at[T] = "cook" /\ lock[tty] = 1
  /\ \/ /\ ev \in Letters /\ Room(tty, 1) /\ Enqueue(tty, ev)
        /\ UNCHANGED cooked
     \/ /\ ev = NL /\ Room(tty, 2) /\ EnqueueLine(tty)
        /\ cooked' = [cooked EXCEPT ![tty] = @ + 1]
     \/ /\ ev = BS /\ Erasable(tty) /\ PopBack(tty)
        /\ UNCHANGED cooked
     \/ /\ ev = BS /\ ~Erasable(tty)
        /\ UNCHANGED <<queue, qrear, cooked>>
  /\ IF ev = BS /\ ~Erasable(tty)
       THEN Goto(T, "blink") /\ UNCHANGED out
       ELSE Goto(T, "write") /\ out' = [out EXCEPT ![T] = ev]
  /\ UNCHANGED <<inputVars, panic, qfront, rd, got, screenVars, lock, ev>>

tty_queue_full ==
  /\ at[T] = "cook" /\ lock[tty] = 1
  /\ (ev \in Letters /\ ~Room(tty, 1)) \/ (ev = NL /\ ~Room(tty, 2))
  /\ panic' = "tty_queue_full"
  /\ UNCHANGED <<inputVars, ttyVars>>

\* tty_read: a cooked line, then the lock, then all up to the end of the line.
WaitLine(r) ==
  /\ rd[r] = "out" /\ cooked[load.uses[r]] > 0
  /\ cooked' = [cooked EXCEPT ![load.uses[r]] = @ - 1]
  /\ rd' = [rd EXCEPT ![r] = "line"]
  /\ UNCHANGED <<inputVars, panic, queue, qfront, qrear, got, screenVars, lock, at, out, ev>>

\* The n-th place from the front on, and the characters before the first NUL.
FromFront(t, n) == queue[t][(qfront[t] + n) % QSize]
LineLength(t) ==
  CHOOSE n \in Places :
    /\ FromFront(t, n) = NUL
    /\ \A m \in 0 .. n - 1 : FromFront(t, m) # NUL

Smaller(m, n) == IF m < n THEN m ELSE n

ReadLine(r, count) ==
  LET t == load.uses[r] IN
  /\ rd[r] = "line" /\ lock[t] = 1
  /\ got' = [got EXCEPT ![r] =
       [i \in 1 .. Smaller(count, LineLength(t)) |-> FromFront(t, i - 1)]]
  /\ qfront' = [qfront EXCEPT ![t] = (@ + LineLength(t) + 1) % QSize]
  /\ rd' = [rd EXCEPT ![r] = "out"]
  /\ UNCHANGED <<inputVars, panic, queue, qrear, cooked, screenVars, lock, at, out, ev>>

-----------------------------------------------------------------------------
\* The screen.  The first half of tty_putc writes the cell and moves the cursor,
\* which may pass the last cell until the second half scrolls.
Column(p) == p % Columns

StartWrite(a) ==
  LET t == My(a)
      p == cursor[t] IN
  /\ at[a] = "write" /\ lock[t] = 1
  /\ \/ /\ out[a] = NUL
        /\ Goto(a, "render")
        /\ UNCHANGED <<cells, cursor, lock>>
     \/ /\ out[a] # NUL
        /\ \/ /\ out[a] \in Letters
              /\ cells' = [cells EXCEPT ![t][p] = out[a]]
              /\ cursor' = [cursor EXCEPT ![t] = p + 1]
           \/ /\ out[a] = BS
              /\ cursor' = [cursor EXCEPT ![t] = IF p > 0 THEN p - 1 ELSE 0]
              /\ cells' = IF p > 0 THEN [cells EXCEPT ![t][p - 1] = NUL] ELSE cells
           \/ /\ out[a] \in {CR, NL}
              /\ cursor' = [cursor EXCEPT ![t] =
                              p - Column(p) + (IF out[a] = NL THEN Columns ELSE 0)]
              /\ UNCHANGED cells
        /\ lock' = [lock EXCEPT ![t] = 0]
        /\ Goto(a, "putc")
  /\ UNCHANGED <<inputVars, panic, queueVars, dirty, show, tty, shown, screen, lost, out, ev>>

Line(p) == {p - Column(p) + i : i \in 0 .. Columns - 1}

\* The cells tty_putc marks when it does not scroll, with the cursor at p.
MarkedSlip(p, ch) == {p}
Marked(p, ch) ==
  CASE ch = CR -> Line(p)
    [] ch = NL -> Line(p - Columns) \cup Line(p)
    [] ch = BS -> {p, p + 1}
    [] OTHER   -> {p - 1, p}

EndWrite(a) ==
  LET t == My(a)
      p == cursor[t] IN
  /\ at[a] = "putc"
  /\ IF p = Size
       THEN /\ cells' = [cells EXCEPT ![t] =
                 [x \in Cells |-> IF x < Size - Columns THEN @[x + Columns] ELSE NUL]]
            /\ cursor' = [cursor EXCEPT ![t] = p - Columns]
            /\ dirty' = [dirty EXCEPT ![t] = [x \in Cells |-> TRUE]]
       ELSE /\ dirty' = [dirty EXCEPT ![t] =
                 [x \in Cells |-> @[x] \/ x \in Marked(p, out[a])]]
            /\ UNCHANGED <<cells, cursor>>
  /\ lock' = [lock EXCEPT ![t] = 1]
  /\ Goto(a, "render")
  /\ UNCHANGED <<inputVars, panic, queueVars, show, tty, shown, screen, lost, out, ev>>

\* Sprites, a texture per cell: those of a terminal that is not on display are dropped.
fb_write(t, sprites) ==
  screen' = [x \in Cells |-> IF t = shown /\ x \in DOMAIN sprites THEN sprites[x] ELSE screen[x]]

\* tty_render: the dirty cells are drawn ...
Draw(a) ==
  LET t == My(a)
      drawn(x) == IF x = cursor[t] /\ show THEN Block ELSE cells[t][x] IN
  /\ at[a] = "render" /\ lock[t] = 1
  /\ fb_write(t, [x \in {y \in Cells : dirty[t][y]} |-> drawn(x)])
  /\ lost' = IF t = tty /\ t # shown THEN lost \cup {t} ELSE lost
  /\ lock' = [lock EXCEPT ![t] = 0]
  /\ Goto(a, "clear")
  /\ UNCHANGED <<inputVars, panic, queueVars, cells, cursor, dirty, show, tty, shown, out, ev>>

\* ... and their marks cleared.  The daemon goes on after what it wrote.
Clear(a) ==
  /\ at[a] = "clear"
  /\ dirty' = [dirty EXCEPT ![My(a)] = [x \in Cells |-> FALSE]]
  /\ lock' = [lock EXCEPT ![My(a)] = 1]
  /\ Goto(a, IF a # T THEN "out" ELSE IF ev = Tick THEN "event" ELSE "blink")
  /\ out' = [out EXCEPT ![a] = NUL]
  /\ UNCHANGED <<inputVars, panic, queueVars, cells, cursor, show, tty, shown, screen, lost, ev>>

tty_write(w, ch) ==
  /\ at[w] = "out" /\ chars < MaxChars
  /\ chars' = chars + 1
  /\ out' = [out EXCEPT ![w] = ch]
  /\ Goto(w, "write")
  /\ UNCHANGED <<ring, eventSem, kbdirq, daemon, new, load, panic, queueVars, screenVars, lock, ev>>

-----------------------------------------------------------------------------
\* dev_tty_task marks everything, without the lock, and renders ...
MarkAll(t) == dirty' = [dirty EXCEPT ![t] = [x \in Cells |-> TRUE]]

Start ==
  /\ at[T] = "start"
  /\ MarkAll(tty)
  /\ Goto(T, "render")
  /\ UNCHANGED <<inputVars, panic, queueVars, cells, cursor, show, tty, shown, screen, lost,
                 lock, out, ev>>

AwaitEvent ==
  /\ at[T] = "event"
  /\ WaitEvent
  /\ Goto(T, "pop")
  /\ UNCHANGED <<queueVars, screenVars, lock, out, ev>>

\* A Tick is forgotten unless 500 ms have passed since the last change.
PopEvent ==
  /\ at[T] = "pop"
  /\ IF is_empty
       THEN NoEvent /\ UNCHANGED <<at, ev>>
       ELSE /\ TakeEvent
            /\ ev' = events[front]
            /\ \/ Goto(T, IF events[front] \in Chars THEN "cook"
                          ELSE IF events[front] \in Terms \ {tty} THEN "switch" ELSE "blink")
               \/ events[front] = Tick /\ Goto(T, "event")
  /\ UNCHANGED <<queueVars, screenVars, lock, out>>

\* ... and so it does for the terminal it switches to, before that is on display.
\* A task that is in between Draw and Clear there will clear the marks.
SwitchMark ==
  /\ at[T] = "switch"
  /\ tty' = ev
  /\ MarkAll(ev)
  /\ lost' = IF \E w \in Writers : at[w] = "clear" /\ load.uses[w] = ev
               THEN lost \cup {ev} ELSE lost \ {ev}
  /\ Goto(T, "current")
  /\ UNCHANGED <<inputVars, panic, queueVars, cells, cursor, show, shown, screen, lock, out, ev>>

SwitchTo ==
  /\ at[T] = "current"
  /\ shown' = tty
  /\ Goto(T, "write")
  /\ UNCHANGED <<inputVars, panic, queueVars, cells, cursor, dirty, show, tty, screen, lost,
                 lock, out, ev>>

\* The mark, set without the lock, hits no cell while a writer's cursor is past
\* the last one.
Blink ==
  /\ at[T] = "blink"
  /\ show' = (~show \/ ev # Tick)
  /\ dirty' = [dirty EXCEPT ![tty] = [x \in Cells |-> @[x] \/ x = cursor[tty]]]
  /\ ev' = Tick
  /\ Goto(T, "write")
  /\ UNCHANGED <<inputVars, panic, queueVars, cells, cursor, tty, shown, screen, lost, lock, out>>

Next ==
  /\ panic = "no"
  /\ \/ InputStep /\ UNCHANGED ttyVars
     \/ tty_cook \/ tty_queue_full
     \/ Start \/ AwaitEvent \/ PopEvent \/ SwitchMark \/ SwitchTo \/ Blink
     \/ \E a \in Actors : StartWrite(a) \/ EndWrite(a) \/ Draw(a) \/ Clear(a)
     \/ \E w \in Writers, ch \in load.written : tty_write(w, ch)
     \/ \E r \in Readers : WaitLine(r) \/ \E n \in Counts : ReadLine(r, n)

Spec == Init /\ [][Next]_vars

-----------------------------------------------------------------------------
Characters == Chars \cup {CR, NUL}

\* Every variable has its type: indexes stay inside their buffers, and the cursor
\* leaves the screen only while a tty_putc is on its way.
TypeOK ==
  /\ events \in [Slots -> Keys \cup {Tick}] /\ front \in Slots /\ rear \in Slots
  /\ eventSem \in Nat /\ kbdirq \in Nat /\ chars \in Nat /\ load \in Loads
  /\ daemon \in {"keys", "push", "post", "sleep"} /\ new \in Keys \cup {Tick}
  /\ panic \in {"no", "input_queue_full", "input_queue_empty", "tty_queue_full"}
  /\ queue \in [Terms -> [Places -> Characters]]
  /\ qfront \in [Terms -> Places] /\ qrear \in [Terms -> Places]
  /\ lock \in [Terms -> {0, 1}] /\ cooked \in [Terms -> Nat]
  /\ cells \in [Terms -> [Cells -> Letters \cup {NUL}]]
  /\ dirty \in [Terms -> [Cells -> BOOLEAN]]
  /\ \A t \in Terms :
       cursor[t] \in Cells \/ (cursor[t] = Size /\ \E a \in Actors : at[a] = "putc" /\ My(a) = t)
  /\ show \in BOOLEAN /\ screen \in [Cells -> Letters \cup {NUL, Block}]
  /\ tty \in Terms /\ shown \in Terms /\ lost \subseteq Terms
  /\ at \in [Actors -> {"start", "event", "pop", "cook", "switch", "current", "blink",
                          "out", "write", "putc", "render", "clear"}]
  /\ out \in [Actors -> Characters] /\ ev \in Keys \cup {Tick}
  /\ rd \in [Readers -> {"out", "line"}] /\ got \in [Readers -> Seq(Characters)]

\* The counter of event_sem is the number of events in the ring, but for one
\* whose signal or whose removal is on its way: input_read never panics on an
\* empty queue, however push_event and pop_event interleave.
EventsCounted ==
  /\ panic # "input_queue_empty"
  /\ eventSem + (IF daemon = "post" THEN 1 ELSE 0) + (IF at[T] = "pop" THEN 1 ELSE 0)
       = (rear - front) % NEvents

\* The characters in the line queue, from the front on, and the ends of lines.
Content(t) == [i \in 1 .. (qrear[t] - qfront[t]) % QSize |-> FromFront(t, i - 1)]
Ends(content) == {i \in DOMAIN content : content[i] = NUL}

\* There are as many complete lines in a queue as permits of cooked, in the
\* semaphore or in the hands of readers: a reader that was let in finds the end
\* of a line, and does not run past the rear.
LinesCounted ==
  \A t \in Terms :
    cooked[t] + Cardinality({r \in Readers : rd[r] = "line" /\ load.uses[r] = t})
      = Cardinality(Ends(Content(t)))

\* Whenever nobody is at work on the terminal on display, each cell of the screen
\* shows its character, or the cursor if it is there, or is marked to be drawn.
\* So scrolling, erasing, the daemon's marks without the lock and the switch
\* leave neither stale characters nor a second cursor behind; but for a switch
\* to a terminal some task is rendering, which may lose its marks.
ScreenTrue ==
  lock[shown] = 1 /\ shown \notin lost => \A x \in Cells :
    \/ dirty[shown][x]
    \/ screen[x] = cells[shown][x]
    \/ x = cursor[shown] /\ screen[x] = Block

\* The complete lines, without their end marks, and what follows the last one.
EndOf(ends, k) ==
  IF k = 0 THEN 0 ELSE CHOOSE i \in ends : Cardinality({j \in ends : j <= i}) = k
LinesIn(content) ==
  LET ends == Ends(content)
  IN [k \in 1 .. Cardinality(ends) |->
        SubSeq(content, EndOf(ends, k - 1) + 1, EndOf(ends, k) - 1)]
EditIn(content) ==
  LET ends == Ends(content)
  IN SubSeq(content, EndOf(ends, Cardinality(ends)) + 1, Len(content))

Discipline == INSTANCE LineDiscipline WITH
  Newline <- NL,
  edit    <- LET content == Content(First) IN EditIn(content),
  lines   <- LET content == Content(First) IN LinesIn(content),
  got     <- [r \in Readers |-> IF load.uses[r] = First THEN got[r] ELSE <<>>]

\* The circular queue with its end marks is a line discipline: readers get whole
\* lines in the order typed, and backspace never reaches into a complete line,
\* whatever the daemon does with other terminals in between.
ImplementsDiscipline == Discipline!Spec
=============================================================================
