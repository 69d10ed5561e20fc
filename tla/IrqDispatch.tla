----------------------------- MODULE IrqDispatch -----------------------------
(***************************************************************************)
(* From a device's request to its handler and back: the gates of idt.c,    *)
(* the two 8259s as pic.c programs and ends them, the entry stubs of       *)
(* interrupt-entry.S, irq_handler() and isr_handler() of interrupt.c, the  *)
(* tables of interrupt/manager.c, and the order in which kernel_main()     *)
(* sets all of it up.                                                      *)
(*                                                                         *)
(* A handler is a frame on the kernel's stack.  im_irq_register() opens a  *)
(* gate as a trap gate, so a frame can be interrupted between any two of   *)
(* its steps, also between the end of interrupt and the return.            *)
(*                                                                         *)
(* The tree holds no driver: what kernel_main() would do between mm_init() *)
(* and its return (register handlers, sti) is the module's client.         *)
(***************************************************************************)
EXTENDS Integers, Sequences, FiniteSets

CONSTANTS Lines,          \* the lines of the 8259s that have a device
          Exceptions,     \* exceptions code may raise besides its own int3
          MaxRequests,    \* bound: requests the devices make in all
          MaxExceptions   \* bound: exceptions raised in all

ASSUME IrqDispatchAssumption ==
  /\ Lines \subseteq (0..15) \ {2}
  /\ Exceptions \subseteq 0..31
  /\ MaxRequests \in Nat /\ MaxExceptions \in Nat

Cascade    == 2                 \* the master's line the slave is wired to
Breakpoint == 3
Vectors    == 0..47
None       == -1
Steps      == {"entry", "call", "body", "eoi_slave", "eoi_master", "ret"}
Frames     == [vec : Vectors, step : Steps, ints : BOOLEAN,
               real : BOOLEAN, called : BOOLEAN]

VARIABLES boot,        \* where kernel_main() is
          ints,        \* IF while kernel_main() itself runs
          gate,        \* idt[]: "none", "intr" or "trap"
          callbacks,   \* vectors whose isr_handlers / irq_handlers entry is set
          opened,      \* the line im_irq_register() is at work on, or None
          stack,       \* the handlers' frames, the running one last
          inService,   \* the in-service bits of both 8259s
          pending,     \* lines whose device asks
          mode,        \* "ok", "hung" (hlt with IF = 0) or "reset"
          fooled,      \* a spurious request was taken for a real one
          requests, exceptions    \* how many the bounds still allow

tables == <<gate, callbacks, opened>>
base   == <<boot, ints>>
world  == <<pending, requests, exceptions>>
vars   == <<boot, ints, gate, callbacks, opened, stack, inService, pending,
            mode, fooled, requests, exceptions>>

Init == /\ boot = "idt_initialize" /\ ints = FALSE
        /\ gate = [v \in Vectors |-> "none"] /\ callbacks = {} /\ opened = None
        /\ stack = <<>> /\ inService = {} /\ pending = {}
        /\ mode = "ok" /\ fooled = FALSE
        /\ requests = MaxRequests /\ exceptions = MaxExceptions

-----------------------------------------------------------------------------
Running       == mode = "ok"
Top           == stack[Len(stack)]
Idle          == stack = <<>>
Interruptible == Running /\ IF Idle THEN ints ELSE Top.ints

\* Mutant: the vectors of the 8259s are left where the BIOS put them.
BiosVector(irq) == IF irq < 8 THEN 8 + irq ELSE 16 + irq

\* The vector of a line, as pic_initialize() programs it.
Vector(irq) == 32 + irq
Irq(f)      == f.vec - 32

\* The cpu pushes the return frame and clears IF unless the gate is a trap
\* gate; without a gate, and none for that fault either, it resets.
Enter(vec, real) ==
  IF gate[vec] = "none"
  THEN mode' = "reset" /\ UNCHANGED stack
  ELSE /\ stack' = Append(stack, [vec |-> vec, step |-> "entry",
                                  ints |-> Interruptible /\ gate[vec] = "trap",
                                  real |-> real, called |-> FALSE])
       /\ UNCHANGED mode

-----------------------------------------------------------------------------
(* The 8259s (fully nested mode, edge triggered, non-specific EOI).        *)

MasterLine(irq) == IF irq < 8 THEN irq ELSE Cascade
Before(i, j)    == \/ MasterLine(i) < MasterLine(j)
                   \/ MasterLine(i) = MasterLine(j) /\ i < j
OnMaster == {i \in inService : i < 8}
OnSlave  == inService \ OnMaster
First(S) == {i \in S : \A j \in S : i <= j}     \* of highest priority, if any

\* The line asks, and nothing of its priority or a higher one is in service.
Asks(i) == /\ i \in pending
           /\ \A m \in OnMaster : MasterLine(i) < m
           /\ i >= 8 => \A s \in OnSlave : i < s

Request(i) == /\ Running /\ requests > 0 /\ i \notin pending
              /\ pending' = pending \cup {i}
              /\ requests' = requests - 1
              /\ UNCHANGED <<base, tables, stack, inService, mode, fooled, exceptions>>

Accept(i) == /\ Interruptible /\ Asks(i)
             /\ \A j \in pending : Asks(j) => ~Before(j, i)
             /\ pending' = pending \ {i}
             /\ inService' = inService \cup {i, MasterLine(i)}
             /\ Enter(Vector(i), TRUE)
             /\ UNCHANGED <<base, tables, fooled, requests, exceptions>>

\* The only line that asks is withdrawn before the acknowledge: the master
\* answers with its line 7, or, when it had already chosen the cascade, the
\* slave with its own, 15.  Neither sets the bit of the line it answers with.
Spurious(i) == /\ Interruptible /\ Asks(i)
               /\ \A j \in pending : Asks(j) => j = i
               /\ pending' = pending \ {i}
               /\ \/ Enter(Vector(7), FALSE) /\ UNCHANGED inService
                  \/ /\ i >= 8
                     /\ Enter(Vector(15), FALSE)
                     /\ inService' = inService \cup {Cascade}
               /\ UNCHANGED <<base, tables, fooled, requests, exceptions>>

-----------------------------------------------------------------------------
(* interrupt_handler() and what it calls, for the running frame.           *)

At(step)   == Running /\ ~Idle /\ Top.step = step
Goto(step) == stack' = [stack EXCEPT ![Len(stack)].step = step]
IsIrq      == Top.vec >= 32
End        == IF Irq(Top) >= 8 THEN "eoi_slave" ELSE "eoi_master"

\* Mutant: a spurious request of the slave returns like one of the master.
ReturnSpurious == IF Irq(Top) \in {7, 15} /\ Irq(Top) \notin inService
                  THEN "ret" ELSE "call"
\* Mutant: the slave's in-service bit is not looked at.
MasterOnly == IF Irq(Top) = 7 /\ 7 \notin inService THEN "ret" ELSE "call"

\* The step after the look at pic_read_isr(), for lines 7 and 15.
Checked == IF Irq(Top) = 7 /\ 7 \notin inService THEN "ret"
           ELSE IF Irq(Top) = 15 /\ 15 \notin inService THEN "eoi_master"
           ELSE "call"

Check == /\ At("entry")
         /\ Goto(IF IsIrq THEN Checked ELSE "call")
         /\ fooled' = (fooled \/ (IsIrq /\ ~Top.real /\ Checked = "call"))
         /\ UNCHANGED <<base, tables, world, inService, mode>>

\* Mutant: the interrupt is ended before the handler runs.
EarlyEnd == /\ At("call") /\ IsIrq
            /\ inService' = inService \ (First(OnMaster) \cup
                               (IF Irq(Top) >= 8 THEN First(OnSlave) ELSE {}))
            /\ stack' = [stack EXCEPT
                 ![Len(stack)] = [@ EXCEPT !.step = "body", !.called = TRUE]]
            /\ UNCHANGED <<base, tables, world, mode, fooled>>

\* im_on_irq(): a line without a callback is ended all the same.
OnIrq == /\ At("call") /\ IsIrq
         /\ IF Top.vec \in callbacks
            THEN stack' = [stack EXCEPT
                   ![Len(stack)] = [@ EXCEPT !.step = "body", !.called = TRUE]]
            ELSE Goto(End)
         /\ UNCHANGED <<base, tables, world, inService, mode, fooled>>

\* im_on_isr(): an exception without a callback borrows the breakpoint's, and
\* halts, with IF = 0 because its gate was never opened, with or without it.
OnIsr == /\ At("call") /\ ~IsIrq
         /\ IF {Top.vec, Breakpoint} \cap callbacks # {}
            THEN stack' = [stack EXCEPT
                   ![Len(stack)] = [@ EXCEPT !.step = "body", !.called = TRUE]]
                 /\ UNCHANGED mode
            ELSE mode' = "hung" /\ UNCHANGED stack
         /\ UNCHANGED <<base, tables, world, inService, fooled>>

\* The callback returns (that of the breakpoint when the host says so).
BodyReturns == /\ At("body")
               /\ IF ~IsIrq /\ Top.vec \notin callbacks
                  THEN mode' = "hung" /\ UNCHANGED stack
                  ELSE Goto(IF IsIrq THEN End ELSE "ret") /\ UNCHANGED mode
               /\ UNCHANGED <<base, tables, world, inService, fooled>>

\* Mutant: an interrupt of the slave is not ended at the master.
SlaveOnly == /\ At("eoi_slave")
             /\ inService' = inService \ First(OnSlave)
             /\ Goto("ret")
             /\ UNCHANGED <<base, tables, world, mode, fooled>>

pic_eoi_slave == /\ At("eoi_slave")
                 /\ inService' = inService \ First(OnSlave)
                 /\ Goto("eoi_master")
                 /\ UNCHANGED <<base, tables, world, mode, fooled>>

pic_eoi_master == /\ At("eoi_master")
                  /\ inService' = inService \ First(OnMaster)
                  /\ Goto("ret")
                  /\ UNCHANGED <<base, tables, world, mode, fooled>>

Iret == /\ At("ret")
        /\ stack' = SubSeq(stack, 1, Len(stack) - 1)
        /\ UNCHANGED <<base, tables, world, inService, mode, fooled>>

Handle == Check \/ OnIrq \/ OnIsr \/ BodyReturns \/ pic_eoi_slave
          \/ pic_eoi_master \/ Iret

\* Code that runs with the processor to itself: kernel_main() or a callback.
Exception(e) == /\ Running /\ exceptions > 0
                /\ ~Idle => Top.step = "body"
                /\ Enter(e, FALSE)
                /\ exceptions' = exceptions - 1
                /\ UNCHANGED <<base, tables, inService, fooled, pending, requests>>

-----------------------------------------------------------------------------
(* kernel_main(), one call after the other.                                *)

Calls(step, next) == /\ Running /\ Idle /\ boot = step
                     /\ boot' = next
                     /\ UNCHANGED <<ints, inService, world, fooled>>

\* Every vector but the cascade's gets an interrupt gate.
idt_initialize == /\ Calls("idt_initialize", "pic_initialize")
                  /\ gate' = [v \in Vectors |->
                                IF v = 32 + Cascade THEN "none" ELSE "intr"]
                  /\ UNCHANGED <<callbacks, opened, stack, mode>>

\* Nothing is masked; nothing was in service with IF = 0.
pic_initialize == Calls("pic_initialize", "im_init") /\ UNCHANGED <<tables, stack, mode>>

im_init == /\ Calls("im_init", "gdb_init")
           /\ callbacks' = {}
           /\ UNCHANGED <<gate, opened, stack, mode>>

\* gdb_init(): gdb_set_trap(), then its int3.
gdb_set_trap == /\ Calls("gdb_init", "gdb_int3")
                /\ gate' = [gate EXCEPT ![1] = "trap", ![Breakpoint] = "trap"]
                /\ callbacks' = callbacks \cup {1, Breakpoint}
                /\ UNCHANGED <<opened, stack, mode>>

gdb_int3  == /\ Calls("gdb_int3", "mm_init")
             /\ Enter(Breakpoint, FALSE)
             /\ UNCHANGED tables

\* Mutant: the tables are cleared after gdb_init() has filled them in.
LateClear == /\ Calls("mm_init", "client")
             /\ callbacks' = {}
             /\ UNCHANGED <<gate, opened, stack, mode>>

\* mm_init() touches none of the variables.
mm_init == Calls("mm_init", "client") /\ UNCHANGED <<tables, stack, mode>>

last_int3 == /\ Calls("client", "halt")
             /\ Enter(Breakpoint, FALSE)
             /\ UNCHANGED tables

\* boot.S: kernel_main() returned; cli, then hlt for good.
Halt == /\ Running /\ Idle /\ boot = "halt"
        /\ boot' = "halted" /\ ints' = FALSE
        /\ UNCHANGED <<tables, stack, inService, world, mode, fooled>>

Client == Running /\ Idle /\ boot = "client"

Sti == /\ Client /\ ~ints
       /\ ints' = TRUE
       /\ UNCHANGED <<boot, tables, stack, inService, world, mode, fooled>>

\* im_irq_register(): the gate first, the callback second.
OpenGate(i) == /\ Client /\ opened = None
               /\ opened' = i
               /\ gate' = [gate EXCEPT ![Vector(i)] = "trap"]
               /\ UNCHANGED <<base, callbacks, stack, inService, world, mode, fooled>>

StoreCallback == /\ Client /\ opened # None
                 /\ opened' = None
                 /\ callbacks' = callbacks \cup {Vector(opened)}
                 /\ UNCHANGED <<base, gate, stack, inService, world, mode, fooled>>

KernelMain == idt_initialize \/ pic_initialize \/ im_init \/ gdb_set_trap \/ gdb_int3 \/ mm_init
              \/ last_int3 \/ Halt

Next == \/ Handle \/ KernelMain \/ Sti \/ StoreCallback
        \/ \E i \in Lines : Request(i) \/ Accept(i) \/ Spurious(i) \/ OpenGate(i)
        \/ \E e \in Exceptions : Exception(e)

\* A processor that can take its next step takes it, callbacks return, and a
\* request that stays deliverable is taken.
Fairness == WF_vars(Handle) /\ WF_vars(\E i \in Lines : Accept(i))

Spec == Init /\ [][Next]_vars /\ Fairness

-----------------------------------------------------------------------------
TypeOK ==
  /\ boot \in {"idt_initialize", "pic_initialize", "im_init", "gdb_init",
               "gdb_int3", "mm_init", "client", "halt", "halted"}
  /\ ints \in BOOLEAN
  /\ gate \in [Vectors -> {"none", "intr", "trap"}]
  /\ callbacks \subseteq Vectors /\ opened \in Lines \cup {None}
  /\ stack \in Seq(Frames)
  /\ inService \subseteq 0..15 /\ pending \subseteq Lines
  /\ mode \in {"ok", "hung", "reset"} /\ fooled \in BOOLEAN
  /\ requests \in 0..MaxRequests /\ exceptions \in 0..MaxExceptions

\* When the last handler has returned, whatever came nested in it and spurious
\* requests included, no in-service bit is left that would block its line (or,
\* left at the cascade, all lines of the slave) for ever.
EndsWhatItBegan == Idle => inService = {}

\* The in-service bits a frame still has to end.
OwesMaster(f) == /\ f.vec >= 32 /\ f.step # "ret"
                 /\ f.real \/ Irq(f) = 15
OwesSlave(f)  == f.vec >= 40 /\ f.real /\ f.step \notin {"eoi_master", "ret"}
Owes(f) == {MasterLine(i) : i \in {j \in {Irq(f)} : OwesMaster(f)}} \cup
           {i \in {Irq(f)} : OwesSlave(f)}

\* A non-specific EOI ends the handler's own request and no other: the bits in
\* service are those the frames on the stack still owe.
InServiceIsOwed ==
  ~fooled => inService = UNION {Owes(stack[k]) : k \in DOMAIN stack}

\* A spurious request runs no driver's handler (interrupt.c:22), but for a
\* request on line 7 that comes spuriously while a real one is in service.
SpuriousIgnored ==
  \A k \in DOMAIN stack :
     stack[k].vec >= 32 /\ stack[k].called /\ ~stack[k].real =>
       \E j \in 1..(k-1) : /\ stack[j].vec = stack[k].vec
                           /\ stack[j].real /\ stack[j].step # "ret"

\* A driver's handler is not entered again before it returns, although its gate
\* leaves interrupts on: the 8259 holds the line back until the EOI after it.
HandlersNotReentered ==
  ~fooled => \A j, k \in DOMAIN stack :
     /\ stack[j].vec >= 32 /\ stack[j].vec = stack[k].vec
     /\ stack[j].step = "body" /\ stack[k].step = "body"
     => j = k

\* From idt_initialize() on no vector meets an empty gate, and from gdb_init() on
\* an int3 finds gdb's handler: the order of the calls in kernel_main() is safe.
TablesReadyInTime ==
  /\ mode = "reset" => boot = "idt_initialize"
  /\ mode = "hung" /\ Top.vec \in {1, Breakpoint} =>
       boot \in {"pic_initialize", "im_init", "gdb_init"}

\* While kernel_main() keeps interrupts on every request is taken in the end.
RequestsTaken ==
  \A i \in Lines :
     (ints /\ i \in pending) ~> (i \notin pending \/ mode # "ok" \/ ~ints)
=============================================================================
