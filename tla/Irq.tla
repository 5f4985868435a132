--------------------------------- MODULE Irq ---------------------------------
(***************************************************************************)
(* The ordered list of interrupt handlers of os.c: os_on_irq, which links  *)
(* a handler into it, and the walk of os_trap over it.                     *)
(***************************************************************************)
EXTENDS Integers, Sequences, SequencesExt

Events == {"timer", "iodev", "pagefault", "yield", "error", "syscall"}

(* A node of the list; event "null" is EVENT_NULL, every event. *)
IRQ(seq, event, handler) == [seq |-> seq, event |-> event, handler |-> handler]

(* os_on_irq: in front of the first node whose seq is not smaller. *)
InsertPlaceSlip(irqs, seq) ==
  LET later == {i \in DOMAIN irqs : irqs[i].seq > seq}
  IN IF later = {} THEN Len(irqs) + 1 ELSE Min(later)
InsertPlace(irqs, seq) ==
  LET later == {i \in DOMAIN irqs : irqs[i].seq >= seq}
  IN IF later = {} THEN Len(irqs) + 1 ELSE Min(later)
OnIrq(irqs, new) == InsertAt(irqs, InsertPlace(irqs, new.seq), new)

(* The handlers os_trap calls for an event, on its walk from the head of   *)
(* the list: called[i] are those up to node i.  A system call returns to   *)
(* its caller after the first of them.                                     *)
Calls(irqs, event) ==
  LET called[i \in 0..Len(irqs)] ==
        IF i = 0 THEN << >>
        ELSE IF \/ irqs[i].event \notin {"null", event}
                \/ event = "syscall" /\ called[i - 1] # << >>
             THEN called[i - 1]
             ELSE Append(called[i - 1], irqs[i].handler)
  IN called[Len(irqs)]

(* The registrations of kmt_init, uproc_init and input_init, in boot order. *)
Registrations ==
  << IRQ(0, "null", "kmt_context_save"), IRQ(10000, "null", "kmt_schedule"),
     IRQ(0, "syscall", "syscall"), IRQ(0, "pagefault", "page_fault"),
     IRQ(0, "iodev", "input_notify"), IRQ(0, "timer", "input_notify") >>
=============================================================================
