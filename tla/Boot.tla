-------------------------------- MODULE Boot ---------------------------------
(***************************************************************************)
(* From power on to os_run, and halt: the start of the processors one      *)
(* after the other through the boot record (boot/, trm.c and mpe.c of the  *)
(* abstraction layer), main with cte_init and os_init, which registers the *)
(* interrupt handlers, and the stop of all processors when one halts.      *)
(*                                                                         *)
(* INIT and startup interrupts take their time: what has been sent is in   *)
(* ipi until the processor receives it, drops whatever it was doing and    *)
(* begins at the boot record.                                              *)
(***************************************************************************)
EXTENDS Irq, FiniteSets

CONSTANT NCpu   \* __am_ncpu

ASSUME BootAssumption == NCpu \in Nat \ {0}

Processors == 0..(NCpu - 1)

VARIABLES
  boot_pc,       \* where a CPU is
  ipi,           \* CPUs an INIT is on the way to
  jmp_code, is_ap,   \* the boot record
  ap_ready,
  user_handler,  \* cte_init has filled the idt and set the handler
  build,         \* the registrations of this build, in boot order
  irqs,          \* the list of handlers
  cpu,           \* the loop variable of mpe_init and of halt
  idtr, enabled, \* a CPU's idt is loaded; its interrupts are enabled
  power

boot == <<jmp_code, is_ap>>
handlers == <<user_handler, build, irqs>>
flags == <<idtr, enabled>>
bootVars == <<boot_pc, ipi, boot, ap_ready, handlers, cpu, flags, power>>

(* On the stack that boot/start.S gives to every CPU. *)
BootPc == {"load", "start_c", "bootcpu_init", "othercpu_entry"}
(* Kernel code, where a panic calls halt. *)
KernelPc == {"main", "os_init", "mpe_init", "bootap", "wait", "run"}
HaltPc == {"stop", "outw"}
(* jmp . and hlt with interrupts disabled. *)
DeadPc == {"spin", "hlt"}

(* The registrations of uproc, and those of dev where it is part of the    *)
(* build.                                                                  *)
Builds == {SubSeq(Registrations, 1, 4), Registrations}

BootInit ==
  /\ boot_pc = [c \in Processors |-> IF c = 0 THEN "load" ELSE "off"]
  /\ ipi = {}
  /\ jmp_code = "mbr" /\ is_ap = FALSE
  /\ ap_ready = 0
  /\ user_handler = FALSE
  /\ build \in Builds
  /\ irqs = << >>
  /\ cpu = [c \in Processors |-> 0]
  /\ idtr = [c \in Processors |-> FALSE]
  /\ enabled = [c \in Processors |-> FALSE]
  /\ power = TRUE

At(c, where) == power /\ boot_pc[c] = where
BootGoto(c, where) == boot_pc' = [boot_pc EXCEPT ![c] = where]

(* __am_lapic_bootap: INIT and startup at the boot record, to one CPU. *)
bootap(c) == ipi' = ipi \cup {c}

-----------------------------------------------------------------------------
(* Every CPU *)

(* The boot record at 0x7000 is left through its jmp, to 0x7c00 and there  *)
(* to load_kernel, or nowhere.                                             *)
Fetch(jmp) == IF jmp = "spin" THEN "spin" ELSE "load"
Receive(c) ==
  /\ power /\ c \in ipi
  /\ ipi' = ipi \ {c}
  /\ BootGoto(c, Fetch(jmp_code))
  /\ idtr' = [idtr EXCEPT ![c] = FALSE]
  /\ enabled' = [enabled EXCEPT ![c] = FALSE]
  /\ UNCHANGED <<boot, ap_ready, handlers, cpu, power>>

(* Unless is_ap is set the image is loaded, which resets its variables. *)
load_kernel(c) ==
  /\ At(c, "load")
  /\ BootGoto(c, "start_c")
  /\ IF is_ap
     THEN UNCHANGED <<ap_ready, user_handler, irqs>>
     ELSE ap_ready' = 0 /\ user_handler' = FALSE /\ irqs' = << >>
  /\ UNCHANGED <<ipi, boot, build, cpu, flags, power>>

start_c(c) ==
  /\ At(c, "start_c")
  /\ BootGoto(c, IF is_ap THEN "othercpu_entry" ELSE "bootcpu_init")
  /\ UNCHANGED <<ipi, boot, ap_ready, handlers, cpu, flags, power>>

(* iset(true), and then traps for ever. *)
os_run(c) ==
  /\ At(c, "run") /\ ~enabled[c]
  /\ enabled' = [enabled EXCEPT ![c] = TRUE]
  /\ UNCHANGED <<boot_pc, ipi, boot, ap_ready, handlers, cpu, idtr, power>>

-----------------------------------------------------------------------------
(* The other CPUs *)

(* __am_othercpu_entry: onto the CPU's own stack. *)
SwitchStack(c) ==
  /\ At(c, "othercpu_entry")
  /\ BootGoto(c, "percpu_init")
  /\ UNCHANGED <<ipi, boot, ap_ready, handlers, cpu, flags, power>>

PerCpuInit(c) ==
  /\ At(c, "percpu_init")
  /\ idtr' = [idtr EXCEPT ![c] = TRUE]
  /\ BootGoto(c, "ready")
  /\ UNCHANGED <<ipi, boot, ap_ready, handlers, cpu, enabled, power>>

Ready(c) ==
  /\ At(c, "ready")
  /\ ap_ready' = 1
  /\ BootGoto(c, "run")
  /\ UNCHANGED <<ipi, boot, handlers, cpu, flags, power>>

-----------------------------------------------------------------------------
(* The boot CPU *)

bootcpu_init(c) ==
  /\ At(c, "bootcpu_init")
  /\ idtr' = [idtr EXCEPT ![c] = TRUE]
  /\ BootGoto(c, "main")
  /\ UNCHANGED <<ipi, boot, ap_ready, handlers, cpu, enabled, power>>

cte_init(c) ==
  /\ At(c, "main")
  /\ user_handler' = TRUE
  /\ BootGoto(c, "os_init")
  /\ UNCHANGED <<ipi, boot, ap_ready, build, irqs, cpu, flags, power>>

(* The registrations of kmt_init, uproc_init and input_init. *)
os_init(c) ==
  /\ At(c, "os_init")
  /\ IF Len(irqs) < Len(build)
     THEN irqs' = OnIrq(irqs, build[Len(irqs) + 1]) /\ boot_pc' = boot_pc
     ELSE BootGoto(c, "mpe_init") /\ irqs' = irqs
  /\ UNCHANGED <<ipi, boot, ap_ready, user_handler, build, cpu, flags, power>>

mpe_init(c) ==
  /\ At(c, "mpe_init")
  /\ jmp_code' = "0x7c00"
  /\ cpu' = [cpu EXCEPT ![c] = 1]
  /\ BootGoto(c, "bootap")
  /\ UNCHANGED <<ipi, is_ap, ap_ready, handlers, flags, power>>

BootAp(c) ==
  /\ At(c, "bootap")
  /\ IF cpu[c] < NCpu
     THEN is_ap' = TRUE /\ bootap(cpu[c]) /\ BootGoto(c, "wait")
     ELSE UNCHANGED <<is_ap, ipi>> /\ BootGoto(c, "run")
  /\ UNCHANGED <<jmp_code, ap_ready, handlers, cpu, flags, power>>

(* xchg(&ap_ready, 0) until it returns 1. *)
AfterReadySlip == ap_ready
AfterReady == 0
WaitAp(c) ==
  /\ At(c, "wait") /\ ap_ready = 1
  /\ ap_ready' = AfterReady
  /\ cpu' = [cpu EXCEPT ![c] = @ + 1]
  /\ BootGoto(c, "bootap")
  /\ UNCHANGED <<ipi, boot, handlers, flags, power>>

-----------------------------------------------------------------------------
(* halt, which a panic calls *)

StopCode == "spin"
(* The boot CPU is stopped too, unlike in the loop of mpe_init.            *)
FirstToStopSlip == 1
FirstToStop == 0
halt(c) ==
  /\ power /\ boot_pc[c] \in KernelPc
  /\ enabled' = [enabled EXCEPT ![c] = FALSE]
  /\ jmp_code' = StopCode
  /\ cpu' = [cpu EXCEPT ![c] = FirstToStop]
  /\ BootGoto(c, "stop")
  /\ UNCHANGED <<ipi, is_ap, ap_ready, handlers, idtr, power>>

stop_the_world(c) ==
  /\ At(c, "stop")
  /\ IF cpu[c] < NCpu
     THEN /\ IF cpu[c] # c THEN bootap(cpu[c]) ELSE UNCHANGED ipi
          /\ cpu' = [cpu EXCEPT ![c] = @ + 1]
          /\ boot_pc' = boot_pc
     ELSE BootGoto(c, "outw") /\ UNCHANGED <<ipi, cpu>>
  /\ UNCHANGED <<boot, ap_ready, handlers, flags, power>>

(* The emulator is asked to end, which it may do or not. *)
Outw(c) ==
  /\ At(c, "outw")
  /\ power' \in BOOLEAN
  /\ BootGoto(c, "hlt")
  /\ UNCHANGED <<ipi, boot, ap_ready, handlers, cpu, flags>>

-----------------------------------------------------------------------------
Step(c) ==
  \/ load_kernel(c) \/ start_c(c) \/ os_run(c)
  \/ SwitchStack(c) \/ PerCpuInit(c) \/ Ready(c)
  \/ bootcpu_init(c) \/ cte_init(c) \/ os_init(c)
  \/ mpe_init(c) \/ BootAp(c) \/ WaitAp(c)
  \/ stop_the_world(c) \/ Outw(c)

BootNext == \E c \in Processors : Receive(c) \/ Step(c) \/ halt(c)

BootSpec == BootInit /\ [][BootNext]_bootVars

(* A CPU executes, and an interrupt that was sent arrives.  Nobody has to  *)
(* panic.                                                                  *)
BootFairSpec ==
  BootSpec /\ \A c \in Processors : WF_bootVars(Step(c)) /\ WF_bootVars(Receive(c))

-----------------------------------------------------------------------------
BootTypeOK ==
  /\ boot_pc \in [Processors -> BootPc \cup KernelPc \cup HaltPc \cup DeadPc
                          \cup {"off", "percpu_init", "ready"}]
  /\ ipi \subseteq Processors
  /\ cpu \in [Processors -> 0..NCpu]
  /\ ap_ready \in {0, 1}

(* No two CPUs are on the one boot stack at 0xa000: mpe_init boots the     *)
(* next CPU only when the last one has reported from its own stack.        *)
OnBootStack(c) == boot_pc[c] \in BootPc
BootStackExclusive ==
  \A c, d \in Processors : OnBootStack(c) /\ OnBootStack(d) => c = d

(* A CPU that can be interrupted has its idt, and the list of handlers is  *)
(* complete and in order: every event but a system call ends with the save *)
(* of the context and then the schedule, after the handler of the event    *)
(* itself; a system call reaches its handler and nothing else, and so      *)
(* returns to its caller.                                                  *)
Own(event) == {i \in DOMAIN build : build[i].event = event}
Complete(event) ==
  LET own  == {<<build[i].handler>> : i \in Own(event)}
      last == IF event = "syscall" THEN << >> ELSE <<"kmt_context_save", "kmt_schedule">>
  IN Calls(irqs, event) \in {h \o last : h \in IF own = {} THEN {<< >>} ELSE own}
TrapOrder ==
  \A c \in Processors : power /\ enabled[c] =>
    /\ idtr[c] /\ user_handler
    /\ \A event \in Events : Complete(event)

(* In the end all CPUs execute the system, or, after a halt, the power is  *)
(* off or nobody executes: none stays behind in its boot, and none goes on *)
(* after a halt.  The exception are two CPUs in stop_the_world at once,    *)
(* which may stop each other before they get to the others.                *)
OneStops ==
  \A c, d \in Processors : boot_pc[c] = "stop" /\ boot_pc[d] = "stop" => c = d
AllOrNone ==
  []OneStops => <>[](\/ \A c \in Processors : boot_pc[c] = "run" /\ enabled[c]
                    \/ \A c \in Processors : boot_pc[c] \in DeadPc \cup {"off"}
                    \/ ~power)
=============================================================================
