------------------------------- MODULE Input -------------------------------
(***************************************************************************)
(* /dev/input (dev_input.c): the daemon that turns keys into events, the   *)
(* ring of events and the semaphore that counts them.  Semaphores are used *)
(* by their promise (module Semaphore); a section under in->lock is one    *)
(* step.  Which event a key gives, by the modifier keys that are down, is  *)
(* a choice; keys that give no event are left out.                         *)
(***************************************************************************)
EXTENDS Integers

CONSTANTS Keys,        \* the events of keys
          Tick,        \* event(0, 0, 0), pushed when nothing is typed
          NEvents,     \* NEVENTS
          MaxChars,    \* bound: characters typed, and written by tasks
          MaxPermits   \* bound: signals of the handlers not yet taken

ASSUME RingAssumption == NEvents \in Nat /\ NEvents >= 2
ASSUME EventAssumption == Tick \notin Keys

VARIABLES
  events, front, rear,   \* in->events, in->front, in->rear
  eventSem, kbdirq,      \* the counters of in->event_sem and sem_kbdirq
  daemon,    \* where dev_input_task is
  new,       \* the event it pushes (Tick when out of use)
  load,      \* bound: load.keys are the keys typed; it never changes
  chars,     \* the characters typed or written so far
  panic      \* which panic stopped the kernel, or "no"

ring      == <<events, front, rear>>
inputVars == <<ring, eventSem, kbdirq, daemon, new, load, chars>>

Slots == 0 .. NEvents - 1
is_empty == rear = front

\* input_init.
InputInit ==
  /\ events = [i \in Slots |-> Tick] /\ front = 0 /\ rear = 0
  /\ eventSem = 0 /\ kbdirq = 0
  /\ daemon = "keys" /\ new = Tick /\ chars = 0

input_keydown(e) ==
  /\ daemon = "keys" /\ chars < MaxChars
  /\ chars' = chars + 1
  /\ new' = e
  /\ daemon' = "push"
  /\ UNCHANGED <<ring, eventSem, kbdirq, load, panic>>

\* No key is left.  100 ms have passed and, by a test without the lock, the ring
\* is empty: a Tick is pushed.  Or not.
CheckTime ==
  /\ daemon = "keys"
  /\ \/ daemon' = "sleep"
     \/ is_empty /\ daemon' = "push"
  /\ UNCHANGED <<ring, eventSem, kbdirq, new, load, chars, panic>>

Full == (rear + 1) % NEvents = front

push_event ==
  /\ daemon = "push"
  /\ IF Full
       THEN panic' = "input_queue_full" /\ UNCHANGED <<ring, daemon>>
       ELSE /\ events' = [events EXCEPT ![rear] = new]
            /\ rear' = (rear + 1) % NEvents
            /\ daemon' = "post"
            /\ UNCHANGED <<front, panic>>
  /\ UNCHANGED <<eventSem, kbdirq, new, load, chars>>

PostedSlip(n) == IF (rear - front) % NEvents > 1 THEN n ELSE n + 1
Posted(n)     == n + 1

PostEvent ==
  /\ daemon = "post"
  /\ eventSem' = Posted(eventSem)
  /\ daemon' = IF new = Tick THEN "sleep" ELSE "keys"
  /\ new' = Tick
  /\ UNCHANGED <<ring, kbdirq, load, chars, panic>>

Sleep ==
  /\ daemon = "sleep" /\ kbdirq > 0
  /\ kbdirq' = kbdirq - 1
  /\ daemon' = "keys"
  /\ UNCHANGED <<ring, eventSem, new, load, chars, panic>>

\* The handler of timer and device interrupts.
input_notify ==
  /\ kbdirq < MaxPermits
  /\ kbdirq' = kbdirq + 1
  /\ UNCHANGED <<ring, eventSem, daemon, new, load, chars, panic>>

InputStep ==
  \/ \E e \in load.keys : input_keydown(e)
  \/ CheckTime \/ push_event \/ PostEvent \/ Sleep \/ input_notify

-----------------------------------------------------------------------------
\* pop_event, called by input_read: the wait for an event ...
WaitEvent ==
  /\ eventSem > 0
  /\ eventSem' = eventSem - 1
  /\ UNCHANGED <<ring, kbdirq, daemon, new, load, chars, panic>>

\* ... and its removal, here when there is one.  Nobody reads the slot again
\* before it is written: what it holds is forgotten.
TakeEvent ==
  /\ front' = (front + 1) % NEvents
  /\ events' = [events EXCEPT ![front] = Tick]
  /\ UNCHANGED <<rear, eventSem, kbdirq, daemon, new, load, chars, panic>>

NoEvent ==
  /\ panic' = "input_queue_empty"
  /\ UNCHANGED inputVars
=============================================================================
