------------------------------- MODULE MCTty -------------------------------
EXTENDS Tty
CONSTANTS letter, tty1, tty2, w, r

MCKeys == {letter, NL, BS, Ctrl, tty1, tty2}

\* Lines are typed, read and written on one terminal; they go to a terminal
\* another task writes to; the terminals are switched while a task writes.
MCLoads ==
  { [keys |-> {letter, NL, BS}, written |-> {letter},
     uses |-> [a \in {w, r} |-> tty1]],
    [keys |-> {NL, tty2}, written |-> {letter},
     uses |-> [a \in {w, r} |-> IF a = w THEN tty2 ELSE tty1]],
    [keys |-> {Ctrl, tty1, tty2}, written |-> {letter, CR},
     uses |-> [a \in {w, r} |-> tty1]] }
=============================================================================
