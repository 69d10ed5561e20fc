-------------------------- MODULE IrqDispatchProofs --------------------------
(***************************************************************************)
(* Proofs about IrqDispatch for all lines, exceptions and numbers of       *)
(* requests.  What carries them is that the in-service bits are nested     *)
(* like the frames: the frame that has to end a bit of higher priority     *)
(* lies above every frame that has to end one of lower priority, also when *)
(* a spurious request was taken for a real one and ended another's bit.    *)
(***************************************************************************)
EXTENDS IrqDispatch, TLAPS

\* Where kernel_main() is tells what the tables hold.
Late == {"gdb_int3", "mm_init", "client", "halt", "halted"}
BootInv ==
  /\ boot = "idt_initialize" =>
       stack = <<>> /\ ~ints /\ \A v \in Vectors : gate[v] = "none"
  /\ boot # "idt_initialize" => \A v \in Vectors \ {34} : gate[v] # "none"
  /\ boot \in Late => {1, Breakpoint} \subseteq callbacks

\* The bits each frame owes.
Owed == [k \in 1..Len(stack) |-> Owes(stack[k])]

\* Every bit of B is owed by a frame, and a bit of higher priority by a frame
\* above.
Nested(B, O) ==
  /\ \A b \in B : \E k \in DOMAIN O : b \in O[k]
  /\ \A b, c \in B : b < c =>
       \A k \in DOMAIN O : c \in O[k] => \E j \in DOMAIN O : k < j /\ b \in O[j]

BitsNested == Nested(OnMaster, Owed) /\ Nested(OnSlave, Owed)

\* A spurious request that got past the look at the 8259 lies above the real
\* one it was taken for.
Taken(k) == /\ stack[k].vec >= 32 /\ ~stack[k].real
            /\ stack[k].called \/ stack[k].step = "call"
SpuriousAt(k) ==
  /\ stack[k].vec >= 32 /\ ~stack[k].real => stack[k].vec \in {39, 47}
  /\ Taken(k) => \E j \in 1..(k-1) : /\ stack[j].vec = stack[k].vec
                                     /\ stack[j].real /\ stack[j].step # "ret"
SpuriousInv == \A k \in 1..Len(stack) : SpuriousAt(k)

\* While none was taken for a real one, spurious requests go no further than
\* the look, what is owed is in service, and no bit is owed twice.
Passed(f) == f.step \in {"entry", "ret"} \/ (f.step = "eoi_master" /\ f.vec = 47)
PassedInv == \A k \in 1..Len(stack) :
               stack[k].vec >= 32 /\ ~stack[k].real => Passed(stack[k])
OwedInService == \A k \in 1..Len(stack) : Owed[k] \subseteq inService
OwedOnce      == \A j, k \in 1..Len(stack) : j # k => Owed[j] \cap Owed[k] = {}
ExactInv      == ~fooled => PassedInv /\ OwedInService /\ OwedOnce

\* Only interrupts get to the ends of interrupt, only those of the slave to its.
EndsInv == \A k \in 1..Len(stack) :
             /\ stack[k].step = "eoi_slave" => stack[k].vec >= 40
             /\ stack[k].step = "eoi_master" => stack[k].vec >= 32

-----------------------------------------------------------------------------
(* What the steps do to the stack.                                         *)

\* A frame is put on the stack.
Pushes(vec, real) ==
  /\ stack' \in Seq(Frames) /\ Len(stack') = Len(stack) + 1
  /\ \A k \in 1..Len(stack) : stack'[k] = stack[k]
  /\ stack'[Len(stack) + 1].vec = vec
  /\ stack'[Len(stack) + 1].step = "entry"
  /\ stack'[Len(stack) + 1].real = real
  /\ stack'[Len(stack) + 1].called = FALSE

\* The running frame goes to step s.
TopGoes(s) ==
  /\ stack # <<>> /\ stack' \in Seq(Frames) /\ Len(stack') = Len(stack)
  /\ \A k \in 1..Len(stack) : k # Len(stack) => stack'[k] = stack[k]
  /\ stack'[Len(stack)].vec = Top.vec
  /\ stack'[Len(stack)].real = Top.real
  /\ stack'[Len(stack)].step = s
  /\ stack'[Len(stack)].called => Top.called \/ Top.step = "call"

\* The running frame is gone.
Pops == /\ stack # <<>> /\ stack' \in Seq(Frames) /\ Len(stack') = Len(stack) - 1
        /\ \A k \in 1..(Len(stack) - 1) : stack'[k] = stack[k]

\* Through a gate that is there a frame is put on the stack.
LEMMA EnterPushes ==
  ASSUME stack \in Seq(Frames), gate \in [Vectors -> {"none", "intr", "trap"}],
         NEW vec \in Vectors, NEW real \in BOOLEAN, Enter(vec, real), gate[vec] # "none"
  PROVE  mode' = mode /\ Pushes(vec, real)
<1> DEFINE trap == Interruptible /\ gate[vec] = "trap"
           new  == [vec |-> vec, step |-> "entry", ints |-> trap,
                    real |-> real, called |-> FALSE]
<1>1. stack' = Append(stack, new) /\ mode' = mode
  BY DEF Enter
<1>2. trap \in BOOLEAN
  BY Zenon
<1> HIDE DEF trap
<1>3. new \in Frames
  BY <1>2 DEF Frames, Steps
<1>4. /\ new.vec = vec /\ new.step = "entry" /\ new.real = real /\ new.called = FALSE
  OBVIOUS
<1> HIDE DEF new
<1> QED
  BY <1>1, <1>3, <1>4 DEF Pushes

\* The last frame is replaced.
LEMMA LastReplaced ==
  ASSUME stack \in Seq(Frames), stack # <<>>, NEW f \in Frames,
         stack' = [stack EXCEPT ![Len(stack)] = f]
  PROVE  /\ stack' \in Seq(Frames) /\ Len(stack') = Len(stack)
         /\ \A k \in 1..Len(stack) : k # Len(stack) => stack'[k] = stack[k]
         /\ stack'[Len(stack)] = f
  OBVIOUS

\* A step within the running frame.
LEMMA GotoGoes ==
  ASSUME stack \in Seq(Frames), stack # <<>>, NEW s \in Steps, Goto(s)
  PROVE  TopGoes(s)
<1>1. Len(stack) \in 1..Len(stack) /\ Top \in Frames
  BY DEF Top
<1> DEFINE f == [Top EXCEPT !.step = s]
<1>2. f \in Frames
  BY <1>1 DEF Frames
<1>3. f.vec = Top.vec /\ f.real = Top.real /\ f.step = s /\ f.called = Top.called
  BY <1>1 DEF Frames
<1>4. stack' = [stack EXCEPT ![Len(stack)] = f]
  BY <1>1 DEF Top, Goto
<1> HIDE DEF f
<1> QED
  BY <1>2, <1>3, <1>4, LastReplaced DEF TopGoes

\* The callback is called.
LEMMA CallGoes ==
  ASSUME stack \in Seq(Frames), stack # <<>>, Top.step = "call",
         stack' = [stack EXCEPT ![Len(stack)] = [@ EXCEPT !.step = "body", !.called = TRUE]]
  PROVE  TopGoes("body")
<1>1. Len(stack) \in 1..Len(stack) /\ Top \in Frames
  BY DEF Top
<1> DEFINE f == [Top EXCEPT !.step = "body", !.called = TRUE]
<1>2. f \in Frames
  BY <1>1 DEF Frames, Steps
<1>3. f.vec = Top.vec /\ f.real = Top.real /\ f.step = "body"
  BY <1>1 DEF Frames
<1>4. stack' = [stack EXCEPT ![Len(stack)] = f]
  BY <1>1 DEF Top
<1> HIDE DEF f
<1>5. /\ stack' \in Seq(Frames) /\ Len(stack') = Len(stack)
      /\ \A k \in 1..Len(stack) : k # Len(stack) => stack'[k] = stack[k]
      /\ stack'[Len(stack)] = f
  BY ONLY stack \in Seq(Frames), stack # <<>>, <1>2, <1>4, LastReplaced
<1> QED
  BY <1>3, <1>5 DEF TopGoes

\* The handler returns.
LEMMA IretPops ==
  ASSUME stack \in Seq(Frames), Iret
  PROVE  Pops
<1>1. stack # <<>> /\ stack' = SubSeq(stack, 1, Len(stack) - 1)
  BY DEF Iret, At, Idle
<1>2. Len(stack) \in Nat \ {0} /\ Len(stack) - 1 \in Nat
  BY <1>1
<1>3. \A k \in 1..(Len(stack) - 1) : stack[k] \in Frames
  BY <1>2
<1>4. stack' = [k \in 1..(Len(stack) - 1) |-> stack[k]]
  BY <1>1, <1>2
<1>5. stack' \in Seq(Frames) /\ Len(stack') = Len(stack) - 1
  BY <1>2, <1>3, <1>4
<1> QED
  BY <1>1, <1>4, <1>5 DEF Pops

-----------------------------------------------------------------------------
(* Types, and where kernel_main() is.                                      *)

Typed == TypeOK /\ BootInv

\* Once idt_initialize() has run a line's gate is there.
LEMMA GateThere ==
  ASSUME Typed, boot # "idt_initialize", NEW v \in Vectors, v # 34
  PROVE  gate[v] # "none"
  BY DEF Typed, BootInv

\* Where interrupts are on idt_initialize() has run.
LEMMA InterruptibleLate ==
  ASSUME Typed, Interruptible
  PROVE  boot # "idt_initialize" /\ Running
  BY DEF Typed, BootInv, Interruptible, Idle

\* The running frame is one of the frames.
LEMMA TopIs ==
  ASSUME Typed, stack # <<>>
  PROVE  Len(stack) \in 1..Len(stack) /\ Top = stack[Len(stack)] /\ Top \in Frames
  BY DEF Typed, TypeOK, Top

\* What an accepted request does to the stack.
LEMMA AcceptPushes ==
  ASSUME Typed, NEW i \in Lines, Accept(i)
  PROVE  mode' = mode /\ Pushes(32 + i, TRUE)
<1>1. boot # "idt_initialize" /\ Enter(32 + i, TRUE)
  BY InterruptibleLate DEF Accept, Vector
<1>2. 32 + i \in Vectors /\ 32 + i # 34
  BY IrqDispatchAssumption DEF Vectors
<1>3. gate[32 + i] # "none"
  BY <1>1, <1>2, GateThere
<1> QED
  BY <1>1, <1>2, <1>3, EnterPushes DEF Typed, TypeOK

\* What a spurious one does.
LEMMA SpuriousPushes ==
  ASSUME Typed, NEW i \in Lines, Spurious(i)
  PROVE  /\ mode' = mode
         /\ \/ Pushes(39, FALSE) /\ inService' = inService
            \/ Pushes(47, FALSE) /\ i >= 8 /\ inService' = inService \cup {2}
<1>1. boot # "idt_initialize"
  BY InterruptibleLate DEF Spurious
<1>2. gate[39] # "none" /\ gate[47] # "none" /\ {39, 47} \subseteq Vectors
  BY <1>1, GateThere DEF Vectors
<1>3. /\ stack \in Seq(Frames) /\ gate \in [Vectors -> {"none", "intr", "trap"}]
      /\ FALSE \in BOOLEAN
  BY DEF Typed, TypeOK
<1>4. Vector(7) = 39 /\ Vector(15) = 47
  BY DEF Vector
<1>5. \/ Enter(39, FALSE) /\ inService' = inService
      \/ i >= 8 /\ Enter(47, FALSE) /\ inService' = inService \cup {2}
  BY <1>4 DEF Spurious, Cascade
<1>6. CASE Enter(39, FALSE) /\ inService' = inService
  BY <1>2, <1>3, <1>6, EnterPushes
<1>7. CASE i >= 8 /\ Enter(47, FALSE) /\ inService' = inService \cup {2}
  BY <1>2, <1>3, <1>7, EnterPushes
<1> QED
  BY <1>5, <1>6, <1>7

\* What an exception does: before idt_initialize() the machine resets.
LEMMA ExceptionPushes ==
  ASSUME Typed, NEW e \in 0..31, Enter(e, FALSE)
  PROVE  \/ mode' = mode /\ Pushes(e, FALSE)
         \/ stack' = stack /\ mode' = "reset" /\ boot = "idt_initialize"
<1>1. e \in Vectors /\ e # 34 /\ FALSE \in BOOLEAN
  BY DEF Vectors
<1>2. CASE gate[e] = "none"
  BY <1>1, <1>2, GateThere DEF Enter
<1>3. CASE gate[e] # "none"
  BY <1>1, <1>3, EnterPushes DEF Typed, TypeOK
<1> QED
  BY <1>2, <1>3

\* The steps of a handler, but for its return.
LEMMA HandlerGoes ==
  ASSUME Typed
  PROVE  /\ Check => TopGoes(IF IsIrq THEN Checked ELSE "call")
         /\ OnIrq => TopGoes("body") \/ TopGoes(End)
         /\ OnIsr => TopGoes("body") \/ stack' = stack
         /\ BodyReturns => TopGoes(IF IsIrq THEN End ELSE "ret") \/ stack' = stack
         /\ pic_eoi_slave => TopGoes("eoi_master")
         /\ pic_eoi_master => TopGoes("ret")
<1>0. stack \in Seq(Frames)
  BY DEF Typed, TypeOK
<1>1. ASSUME NEW s \in Steps, Goto(s), ~Idle PROVE TopGoes(s)
  BY <1>0, <1>1, GotoGoes DEF Idle
<1>2. ASSUME At("call"),
             stack' = [stack EXCEPT ![Len(stack)] = [@ EXCEPT !.step = "body", !.called = TRUE]]
      PROVE  TopGoes("body")
  <2>1. stack # <<>> /\ Top.step = "call"
    BY <1>2 DEF At, Idle
  <2> QED
    BY ONLY <1>0, <1>2, <2>1, CallGoes
<1>3. /\ Checked \in Steps /\ End \in Steps
      /\ {"entry", "call", "body", "eoi_slave", "eoi_master", "ret"} \subseteq Steps
  BY DEF Steps, Checked, End
<1>4. ASSUME Check PROVE TopGoes(IF IsIrq THEN Checked ELSE "call")
  BY <1>1, <1>3, <1>4 DEF Check, At
<1>5. ASSUME OnIrq PROVE TopGoes("body") \/ TopGoes(End)
  <2>1. At("call") /\ ~Idle
    BY <1>5 DEF OnIrq, At
  <2>2. CASE Top.vec \in callbacks
    BY ONLY <1>5, <2>1, <2>2, <1>2 DEF OnIrq
  <2>3. CASE Top.vec \notin callbacks
    BY <1>5, <2>1, <2>3, <1>1, <1>3 DEF OnIrq
  <2> QED
    BY <2>2, <2>3
<1>6. ASSUME OnIsr PROVE TopGoes("body") \/ stack' = stack
  <2>1. At("call")
    BY <1>6 DEF OnIsr
  <2> QED
    BY ONLY <1>6, <2>1, <1>2 DEF OnIsr
<1>7. ASSUME BodyReturns PROVE TopGoes(IF IsIrq THEN End ELSE "ret") \/ stack' = stack
  BY <1>1, <1>3, <1>7 DEF BodyReturns, At
<1>8. ASSUME pic_eoi_slave PROVE TopGoes("eoi_master")
  BY <1>1, <1>3, <1>8 DEF pic_eoi_slave, At
<1>9. ASSUME pic_eoi_master PROVE TopGoes("ret")
  BY <1>1, <1>3, <1>9 DEF pic_eoi_master, At
<1> QED
  BY <1>4, <1>5, <1>6, <1>7, <1>8, <1>9

\* TypeOK in two parts, as no prover takes it whole.
DataOK ==
  /\ boot \in {"idt_initialize", "pic_initialize", "im_init", "gdb_init",
               "gdb_int3", "mm_init", "client", "halt", "halted"}
  /\ gate \in [Vectors -> {"none", "intr", "trap"}]
  /\ callbacks \subseteq Vectors /\ opened \in Lines \cup {None}
  /\ stack \in Seq(Frames)
  /\ inService \subseteq 0..15 /\ pending \subseteq Lines
  /\ mode \in {"ok", "hung", "reset"}
  /\ requests \in 0..MaxRequests /\ exceptions \in 0..MaxExceptions
BoolsOK == ints \in BOOLEAN /\ fooled \in BOOLEAN

\* The two parts are the whole.
LEMMA TypeParts == TypeOK <=> DataOK /\ BoolsOK
  BY Zenon DEF TypeOK, DataOK, BoolsOK

\* Typed holds from the start,
LEMMA InitTyped == Init => Typed
<1> SUFFICES ASSUME Init PROVE Typed
  OBVIOUS
<1>1. DataOK
  <2>1. <<>> \in Seq(Frames)
    OBVIOUS
  <2> QED
    BY <2>1, IrqDispatchAssumption DEF Init, DataOK, Vectors, None
<1>2. BoolsOK
  BY Zenon DEF Init, BoolsOK
<1>3. BootInv
  BY DEF Init, BootInv, Late
<1> QED
  BY <1>1, <1>2, <1>3, TypeParts DEF Typed

\* and every step keeps it.
LEMMA HandleTyped ==
  ASSUME Typed, Handle
  PROVE  Typed'
<1>1. UNCHANGED <<base, tables, world>>
  BY DEF Handle, Check, OnIrq, OnIsr, BodyReturns, pic_eoi_slave, pic_eoi_master, Iret
<1>2. stack' \in Seq(Frames) /\ stack # <<>>
  BY HandlerGoes, IretPops DEF Handle, TopGoes, Pops, Typed, TypeOK, Check, OnIrq, OnIsr,
     BodyReturns, pic_eoi_slave, pic_eoi_master, Iret, At, Idle
<1>3. inService' \subseteq 0..15
  BY DEF Handle, Typed, TypeOK, Check, OnIrq, OnIsr, BodyReturns, pic_eoi_slave,
     pic_eoi_master, Iret
<1>4. mode' \in {"ok", "hung", "reset"}
  BY DEF Handle, Typed, TypeOK, Check, OnIrq, OnIsr, BodyReturns, pic_eoi_slave,
     pic_eoi_master, Iret
<1>5. fooled' \in BOOLEAN
  <2>1. CASE Check
    BY Zenon, <2>1 DEF Check
  <2> QED
    BY <2>1 DEF Handle, Typed, TypeOK, OnIrq, OnIsr, BodyReturns, pic_eoi_slave,
       pic_eoi_master, Iret
<1>6. TypeOK'
  BY <1>1, <1>2, <1>3, <1>4, <1>5 DEF Typed, TypeOK, base, tables, world
<1>7. BootInv'
  BY <1>1, <1>2 DEF Typed, BootInv, base, tables
<1> QED
  BY <1>6, <1>7 DEF Typed

\* A step that leaves kernel_main() and the tables where they are, once the
\* tables are filled in.
LEMMA OutsideTyped ==
  ASSUME Typed, UNCHANGED <<base, tables>>, fooled' = fooled,
         boot # "idt_initialize" \/ stack' = stack,
         stack' \in Seq(Frames), inService' \subseteq 0..15, pending' \subseteq Lines,
         mode' \in {"ok", "hung", "reset"},
         requests' \in 0..MaxRequests, exceptions' \in 0..MaxExceptions
  PROVE  Typed'
<1>1. DataOK /\ BoolsOK
  BY TypeParts DEF Typed
<1>2. DataOK'
  BY <1>1 DEF DataOK, base, tables
<1>3. BoolsOK'
  BY Zenon, <1>1 DEF BoolsOK, base
<1>4. BootInv'
  BY DEF Typed, BootInv, base, tables
<1> QED
  BY Zenon, <1>2, <1>3, <1>4 DEF Typed, TypeOK, DataOK, BoolsOK

\* The devices and the 8259s.
LEMMA DeviceTyped ==
  ASSUME Typed, NEW i \in Lines, Request(i) \/ Accept(i) \/ Spurious(i)
  PROVE  Typed'
<1>1. DataOK /\ MaxRequests \in Nat
  BY TypeParts, IrqDispatchAssumption DEF Typed
<1>2. CASE Request(i)
  BY <1>1, <1>2, OutsideTyped DEF Request, DataOK
<1>3. CASE Accept(i)
  <2>1. mode' = mode /\ stack' \in Seq(Frames) /\ boot # "idt_initialize"
    BY <1>3, AcceptPushes, InterruptibleLate DEF Pushes, Accept
  <2>2. inService' \subseteq 0..15
    BY <1>1, <1>3, IrqDispatchAssumption DEF Accept, DataOK, MasterLine, Cascade
  <2> QED
    BY <1>1, <1>3, <2>1, <2>2, OutsideTyped DEF Accept, DataOK
<1>4. CASE Spurious(i)
  <2>1. /\ mode' = mode /\ stack' \in Seq(Frames) /\ boot # "idt_initialize"
        /\ inService' = inService \/ inService' = inService \cup {2}
    BY <1>4, SpuriousPushes, InterruptibleLate DEF Pushes, Spurious
  <2>2. inService' \subseteq 0..15
    <3>1. inService \subseteq 0..15 /\ 2 \in 0..15
      BY <1>1 DEF DataOK
    <3>2. inService' = inService \/ inService' = inService \cup {2}
      BY <2>1
    <3> QED
      BY ONLY <3>1, <3>2
  <2> QED
    BY <1>1, <1>4, <2>1, <2>2, OutsideTyped DEF Spurious, DataOK
<1> QED
  BY <1>2, <1>3, <1>4

\* Exceptions.
LEMMA ExceptionTyped ==
  ASSUME Typed, NEW e \in Exceptions, Exception(e)
  PROVE  Typed'
<1>1. DataOK /\ MaxExceptions \in Nat /\ e \in 0..31
  BY TypeParts, IrqDispatchAssumption DEF Typed
<1>2. /\ stack' \in Seq(Frames) /\ mode' \in {"ok", "hung", "reset"}
      /\ boot # "idt_initialize" \/ stack' = stack
  <2>1. Enter(e, FALSE)
    BY DEF Exception
  <2>2. CASE boot = "idt_initialize"
    <3>1. e \in Vectors
      BY <1>1 DEF Vectors
    <3>2. gate[e] = "none"
      BY Zenon, <2>2, <3>1 DEF Typed, BootInv
    <3> QED
      BY <1>1, <2>1, <3>2 DEF Enter, DataOK
  <2>3. CASE boot # "idt_initialize"
    BY <1>1, <2>1, <2>3, ExceptionPushes DEF Pushes, DataOK
  <2> QED
    BY <2>2, <2>3
<1>3. exceptions' \in 0..MaxExceptions
  BY <1>1 DEF Exception, DataOK
<1> QED
  BY <1>1, <1>2, <1>3, OutsideTyped DEF Exception, DataOK

\* kernel_main() and its client.
LEMMA MainTyped ==
  ASSUME Typed, KernelMain \/ Sti \/ StoreCallback \/ \E i \in Lines : OpenGate(i)
  PROVE  Typed'
<1>1. DataOK /\ BoolsOK
  BY TypeParts DEF Typed
<1>2. Breakpoint \in Vectors /\ Breakpoint \in 0..31 /\ {1, 3} \subseteq Vectors /\ Breakpoint = 3
  BY DEF Breakpoint, Vectors
<1>3. BoolsOK'
  BY Zenon, <1>1 DEF BoolsOK, KernelMain, Calls, idt_initialize, pic_initialize, im_init, gdb_set_trap,
     gdb_int3, mm_init, last_int3, Halt, Sti, StoreCallback, OpenGate, base
<1>4. ASSUME NEW step, NEW next, Calls(step, next), Enter(Breakpoint, FALSE),
             boot # "idt_initialize"
      PROVE  mode' = mode /\ stack' \in Seq(Frames)
  BY <1>2, <1>4, ExceptionPushes DEF Pushes
<1>5. DataOK'
  <2>1. CASE idt_initialize
    BY <1>1, <2>1 DEF idt_initialize, Calls, DataOK, world
  <2>2. CASE pic_initialize
    BY <1>1, <2>2 DEF pic_initialize, Calls, DataOK, world, tables
  <2>3. CASE im_init
    BY <1>1, <2>3 DEF im_init, Calls, DataOK, world
  <2>4. CASE gdb_set_trap
    BY <1>1, <1>2, <2>4 DEF gdb_set_trap, Calls, DataOK, world
  <2>5. CASE gdb_int3
    BY <1>1, <1>4, <2>5 DEF gdb_int3, Calls, DataOK, world, tables
  <2>6. CASE mm_init
    BY <1>1, <2>6 DEF mm_init, Calls, DataOK, world, tables
  <2>7. CASE last_int3
    BY <1>1, <1>4, <2>7 DEF last_int3, Calls, DataOK, world, tables
  <2>8. CASE Halt
    BY <1>1, <2>8 DEF Halt, DataOK, world, tables
  <2>9. CASE Sti
    BY <1>1, <2>9 DEF Sti, DataOK, world, tables
  <2>10. CASE StoreCallback
    <3>1. Vector(opened) \in Vectors
      BY <1>1, <2>10, IrqDispatchAssumption DEF StoreCallback, DataOK, Vector, Vectors, None
    <3> QED
      BY <1>1, <2>10, <3>1 DEF StoreCallback, DataOK, world, base
  <2>11. ASSUME NEW i \in Lines, OpenGate(i) PROVE DataOK'
    BY <1>1, <2>11 DEF OpenGate, DataOK, world, base
  <2> QED
    BY <2>1, <2>2, <2>3, <2>4, <2>5, <2>6, <2>7, <2>8, <2>9, <2>10, <2>11 DEF KernelMain
<1>6. BootInv'
  <2> USE DEF Typed, BootInv, Late
  <2>1. CASE idt_initialize
    BY <2>1, <1>2 DEF idt_initialize, Calls, Cascade
  <2>2. CASE pic_initialize
    BY <2>2 DEF pic_initialize, Calls, tables
  <2>3. CASE im_init
    BY <2>3 DEF im_init, Calls
  <2>4. CASE gdb_set_trap
    BY <1>1, <2>4, <1>2 DEF gdb_set_trap, Calls, DataOK
  <2>5. CASE gdb_int3
    BY <2>5 DEF gdb_int3, Calls, tables
  <2>6. CASE mm_init
    BY <2>6 DEF mm_init, Calls, tables
  <2>7. CASE last_int3
    BY <2>7 DEF last_int3, Calls, tables
  <2>8. CASE Halt
    BY <2>8 DEF Halt, tables
  <2>9. CASE Sti
    BY <2>9 DEF Sti, Client, tables
  <2>10. CASE StoreCallback
    BY <2>10 DEF StoreCallback, Client, base
  <2>11. ASSUME NEW i \in Lines, OpenGate(i) PROVE BootInv'
    BY <1>1, <2>11 DEF OpenGate, Client, base, DataOK
  <2> QED
    BY <2>1, <2>2, <2>3, <2>4, <2>5, <2>6, <2>7, <2>8, <2>9, <2>10, <2>11 DEF KernelMain
<1> QED
  BY Zenon, <1>3, <1>5, <1>6 DEF Typed, TypeOK, DataOK, BoolsOK

\* All steps.
LEMMA StepTyped == Typed /\ [Next]_vars => Typed'
<1> SUFFICES ASSUME Typed, [Next]_vars PROVE Typed'
  OBVIOUS
<1>1. CASE UNCHANGED vars
  BY Zenon, <1>1 DEF vars, Typed, TypeOK, BootInv, Late
<1>2. CASE Next
  BY <1>2, HandleTyped, DeviceTyped, ExceptionTyped, MainTyped DEF Next
<1> QED
  BY <1>1, <1>2

\* Processor, controllers and handler tables stay well formed.
THEOREM TypeCorrect == Spec => []TypeOK
<1>1. Init => Typed
  BY InitTyped
<1>2. Typed /\ [Next]_vars => Typed'
  BY StepTyped
<1>3. Typed => TypeOK
  BY DEF Typed
<1> QED
  BY <1>1, <1>2, <1>3, PTL DEF Spec

-----------------------------------------------------------------------------
(* The shapes a step can have for the stack and the in-service bits.       *)

Quiet    == UNCHANGED <<stack, inService, fooled>>
Traps(e) == Pushes(e, FALSE) /\ UNCHANGED <<inService, fooled>>
Moves    == Check \/ OnIrq \/ OnIsr \/ BodyReturns \/ pic_eoi_slave \/ pic_eoi_master

\* Every step has one of them.
LEMMA Shapes ==
  ASSUME Typed, [Next]_vars
  PROVE  \/ Quiet \/ Moves \/ Iret
         \/ \E e \in 0..31 : Traps(e)
         \/ \E i \in Lines : Accept(i) \/ Spurious(i)
<1>1. ASSUME NEW e \in 0..31, Enter(e, FALSE), UNCHANGED <<inService, fooled>>
      PROVE  Quiet \/ Traps(e)
  BY <1>1, ExceptionPushes DEF Quiet, Traps
<1>2. CASE UNCHANGED vars
  BY <1>2 DEF vars, Quiet
<1>3. CASE Handle
  BY <1>3 DEF Handle, Moves
<1>4. CASE KernelMain
  <2>1. CASE gdb_int3 \/ last_int3
    <3>1. Enter(3, FALSE) /\ UNCHANGED <<inService, fooled>>
      BY <2>1 DEF gdb_int3, last_int3, Calls, Breakpoint
    <3> QED
      BY <1>1, <3>1
  <2>2. CASE ~(gdb_int3 \/ last_int3)
    BY <1>4, <2>2 DEF KernelMain, idt_initialize, pic_initialize, im_init, gdb_set_trap,
       mm_init, Halt, Calls, Quiet
  <2> QED
    BY <2>1, <2>2
<1>5. CASE Sti \/ StoreCallback
  BY <1>5 DEF Sti, StoreCallback, Quiet
<1>6. ASSUME NEW i \in Lines, Request(i) \/ Accept(i) \/ Spurious(i) \/ OpenGate(i)
      PROVE  Quiet \/ Accept(i) \/ Spurious(i)
  BY <1>6 DEF Request, OpenGate, Quiet
<1>7. ASSUME NEW e \in Exceptions, Exception(e)
      PROVE  e \in 0..31 /\ (Quiet \/ Traps(e))
  BY <1>1, <1>7, IrqDispatchAssumption DEF Exception
<1> QED
  BY <1>2, <1>3, <1>4, <1>5, <1>6, <1>7 DEF Next

-----------------------------------------------------------------------------
(* The in-service bits are nested like the frames.                         *)

\* Bits may go, and who owes those that stay is the same.
LEMMA NestedKept ==
  ASSUME NEW B, NEW O, NEW B2, NEW O2, Nested(B, O), B2 \subseteq B,
         \A b \in B2 : \A k : (k \in DOMAIN O /\ b \in O[k]) <=> (k \in DOMAIN O2 /\ b \in O2[k])
  PROVE  Nested(B2, O2)
<1>1. \A b \in B2 : \E k \in DOMAIN O2 : b \in O2[k]
  BY DEF Nested
<1>2. ASSUME NEW b \in B2, NEW c \in B2, b < c, NEW k \in DOMAIN O2, c \in O2[k]
      PROVE  \E j \in DOMAIN O2 : k < j /\ b \in O2[j]
  <2>1. k \in DOMAIN O /\ c \in O[k]
    BY <1>2
  <2>2. PICK j \in DOMAIN O : k < j /\ b \in O[j]
    BY <1>2, <2>1 DEF Nested
  <2> QED
    BY <2>2
<1> QED
  BY <1>1, <1>2 DEF Nested

\* A bit of higher priority than all others comes with a frame that owes it.
LEMMA NestedPushed ==
  ASSUME NEW L \in Nat, NEW n \in Int, NEW B \in SUBSET Int, NEW O, NEW B2, NEW O2,
         Nested(B, O), B2 \subseteq B \cup {n}, \A m \in B : n < m,
         DOMAIN O = 1..L, DOMAIN O2 = 1..(L + 1), \A k \in 1..L : O2[k] = O[k],
         n \in O2[L + 1], O2[L + 1] \cap B = {}
  PROVE  Nested(B2, O2)
<1>1. \A b \in B2 : \E k \in DOMAIN O2 : b \in O2[k]
  <2> TAKE b \in B2
  <2>1. CASE b = n
    BY <2>1
  <2>2. CASE b # n
    <3>1. PICK k \in 1..L : b \in O[k]
      BY <2>2 DEF Nested
    <3> QED
      BY <3>1
  <2> QED
    BY <2>1, <2>2
<1>2. ASSUME NEW b \in B2, NEW c \in B2, b < c, NEW k \in DOMAIN O2, c \in O2[k]
      PROVE  \E j \in DOMAIN O2 : k < j /\ b \in O2[j]
  <2>1. c \in B
    <3>1. CASE c = n
      BY <1>2, <3>1
    <3>2. CASE c # n
      BY <3>2
    <3> QED
      BY <3>1, <3>2
  <2>2. k \in 1..L
    BY <1>2, <2>1
  <2>3. CASE b = n
    BY <2>2, <2>3
  <2>4. CASE b # n
    <3>1. PICK j \in 1..L : k < j /\ b \in O[j]
      BY <1>2, <2>1, <2>2, <2>4 DEF Nested
    <3> QED
      BY <3>1
  <2> QED
    BY <2>3, <2>4
<1> QED
  BY <1>1, <1>2 DEF Nested

\* What a frame owes, bit by bit.
LEMMA OwesIs ==
  ASSUME NEW f, NEW b
  PROVE  b \in Owes(f) <=> \/ OwesMaster(f) /\ b = MasterLine(Irq(f))
                           \/ OwesSlave(f) /\ b = Irq(f)
  BY DEF Owes

\* A bit that the running frame owes is the first of its 8259.
LEMMA TopOwesFirst ==
  ASSUME Typed, stack # <<>>, NEW B \in SUBSET Int, Nested(B, Owed),
         NEW b \in B, b \in Owes(Top)
  PROVE  b \in First(B)
<1>1. Len(stack) \in 1..Len(stack) /\ Len(stack) \in Nat /\ Owed[Len(stack)] = Owes(Top)
  BY TopIs DEF Owed, Typed, TypeOK
<1>2. DOMAIN Owed = 1..Len(stack)
  BY DEF Owed
<1>3. ASSUME NEW c \in B, ~(b <= c) PROVE FALSE
  <2>1. c < b
    BY <1>3
  <2>2. PICK j \in 1..Len(stack) : Len(stack) < j
    BY <1>1, <1>2, <2>1 DEF Nested
  <2> QED
    BY <1>1, <2>2
<1> QED
  BY <1>3 DEF First

\* What frames owe after the three ways in which the stack changes.
LEMMA OwedAfter ==
  ASSUME Typed
  PROVE  /\ DOMAIN Owed = 1..Len(stack) /\ \A k \in 1..Len(stack) : Owed[k] = Owes(stack[k])
         /\ \A vec, real : Pushes(vec, real) =>
                   /\ DOMAIN Owed' = 1..(Len(stack) + 1)
                   /\ \A k \in 1..Len(stack) : Owed'[k] = Owed[k]
                   /\ Owed'[Len(stack) + 1] = Owes(stack'[Len(stack) + 1])
         /\ \A s : TopGoes(s) =>
                   /\ DOMAIN Owed' = 1..Len(stack)
                   /\ \A k \in 1..Len(stack) : k # Len(stack) => Owed'[k] = Owed[k]
                   /\ Owed'[Len(stack)] = Owes(stack'[Len(stack)])
         /\ Pops =>
                   /\ DOMAIN Owed' = 1..(Len(stack) - 1)
                   /\ \A k \in 1..(Len(stack) - 1) : Owed'[k] = Owed[k]
<1>0. Len(stack) \in Nat
  BY DEF Typed, TypeOK
<1>1. DOMAIN Owed = 1..Len(stack) /\ \A k \in 1..Len(stack) : Owed[k] = Owes(stack[k])
  BY DEF Owed
<1>2. DOMAIN Owed' = 1..Len(stack') /\ \A k \in 1..Len(stack') : Owed'[k] = Owes(stack'[k])
  BY DEF Owed
<1>3. ASSUME NEW vec, NEW real, Pushes(vec, real)
      PROVE  /\ DOMAIN Owed' = 1..(Len(stack) + 1)
             /\ \A k \in 1..Len(stack) : Owed'[k] = Owed[k]
             /\ Owed'[Len(stack) + 1] = Owes(stack'[Len(stack) + 1])
  BY <1>0, <1>1, <1>2, <1>3 DEF Pushes
<1>4. ASSUME NEW s, TopGoes(s)
      PROVE  /\ DOMAIN Owed' = 1..Len(stack)
             /\ \A k \in 1..Len(stack) : k # Len(stack) => Owed'[k] = Owed[k]
             /\ Owed'[Len(stack)] = Owes(stack'[Len(stack)])
  BY <1>0, <1>1, <1>2, <1>4 DEF TopGoes
<1>5. ASSUME Pops
      PROVE  /\ DOMAIN Owed' = 1..(Len(stack) - 1)
             /\ \A k \in 1..(Len(stack) - 1) : Owed'[k] = Owed[k]
  BY <1>0, <1>1, <1>2, <1>5 DEF Pops
<1> QED
  BY <1>1, <1>3, <1>4, <1>5

\* The two 8259s' lines are numbers of their own.
LEMMA BitsAre ==
  ASSUME Typed
  PROVE  /\ OnMaster \in SUBSET Int /\ OnSlave \in SUBSET Int
         /\ \A b \in OnMaster : b < 8 /\ b \in inService
         /\ \A b \in OnSlave : b >= 8 /\ b \in inService
         /\ \A b \in inService : b \in OnMaster \/ b \in OnSlave
         /\ \A f \in Frames : Irq(f) \in -32..15 /\ MasterLine(Irq(f)) \in Int /\ MasterLine(Irq(f)) < 8
<1>1. inService \subseteq 0..15
  BY DEF Typed, TypeOK
<1>2. \A f \in Frames : Irq(f) \in -32..15 /\ MasterLine(Irq(f)) \in Int /\ MasterLine(Irq(f)) < 8
  BY DEF Frames, Vectors, Irq, MasterLine, Cascade
<1>3. OnMaster \in SUBSET Int /\ OnSlave \in SUBSET Int
  <2>1. OnMaster \subseteq inService /\ OnSlave \subseteq inService
    BY DEF OnMaster, OnSlave
  <2>2. inService \subseteq Int
    BY <1>1
  <2> QED
    BY ONLY <2>1, <2>2
<1>4. /\ \A b \in OnMaster : b < 8 /\ b \in inService
      /\ \A b \in OnSlave : b >= 8 /\ b \in inService
      /\ \A b \in inService : b \in OnMaster \/ b \in OnSlave
  BY <1>1 DEF OnMaster, OnSlave
<1> QED
  BY Zenon, <1>2, <1>3, <1>4

\* A step within the running frame that leaves what it owes of the bits B2.
LEMMA GoesNested ==
  ASSUME Typed, NEW s, TopGoes(s), NEW B, NEW B2, Nested(B, Owed), B2 \subseteq B,
         \A b \in B2 : b \in Owes(Top) <=> b \in Owes(stack'[Len(stack)])
  PROVE  Nested(B2, Owed')
<1>1. stack # <<>> /\ Len(stack) \in 1..Len(stack) /\ Owed[Len(stack)] = Owes(Top)
  BY TopIs, OwedAfter DEF TopGoes
<1>2. /\ DOMAIN Owed = 1..Len(stack) /\ DOMAIN Owed' = 1..Len(stack)
      /\ \A k \in 1..Len(stack) : k # Len(stack) => Owed'[k] = Owed[k]
      /\ Owed'[Len(stack)] = Owes(stack'[Len(stack)])
  BY OwedAfter
<1>3. \A b \in B2 : \A k : (k \in DOMAIN Owed /\ b \in Owed[k])
                             <=> (k \in DOMAIN Owed' /\ b \in Owed'[k])
  BY <1>1, <1>2
<1> QED
  BY <1>3, NestedKept

\* The return of a frame that owes nothing.
LEMMA PopsNested ==
  ASSUME Typed, Iret, NEW B, Nested(B, Owed)
  PROVE  Nested(B, Owed')
<1>1. Pops /\ stack # <<>> /\ Top.step = "ret"
  BY IretPops DEF Iret, At, Idle, Typed, TypeOK
<1>2. Owes(Top) = {}
  <2>1. ASSUME NEW b \in Owes(Top) PROVE FALSE
    BY <1>1, <2>1, OwesIs DEF OwesMaster, OwesSlave
  <2> QED
    BY <2>1
<1>3. /\ Len(stack) \in 1..Len(stack) /\ Len(stack) \in Nat /\ Owed[Len(stack)] = {}
      /\ DOMAIN Owed = 1..Len(stack)
  BY <1>1, <1>2, TopIs, OwedAfter DEF Typed, TypeOK
<1>4. /\ DOMAIN Owed' = 1..(Len(stack) - 1)
      /\ \A k \in 1..(Len(stack) - 1) : Owed'[k] = Owed[k]
  BY <1>1, OwedAfter
<1>5. \A b \in B : \A k : (k \in DOMAIN Owed /\ b \in Owed[k])
                            <=> (k \in DOMAIN Owed' /\ b \in Owed'[k])
  BY <1>3, <1>4
<1> QED
  BY <1>5, NestedKept

\* A frame is put on the stack that owes none of the bits.
LEMMA TrapNested ==
  ASSUME Typed, NEW vec, NEW real, Pushes(vec, real), NEW B, Nested(B, Owed),
         Owes(stack'[Len(stack) + 1]) \cap B = {}
  PROVE  Nested(B, Owed')
<1>1. /\ DOMAIN Owed = 1..Len(stack) /\ DOMAIN Owed' = 1..(Len(stack) + 1)
      /\ \A k \in 1..Len(stack) : Owed'[k] = Owed[k]
      /\ Owed'[Len(stack) + 1] = Owes(stack'[Len(stack) + 1])
      /\ Len(stack) \in Nat
  BY OwedAfter DEF Typed, TypeOK
<1>2. \A b \in B : \A k : (k \in DOMAIN Owed /\ b \in Owed[k])
                            <=> (k \in DOMAIN Owed' /\ b \in Owed'[k])
  BY <1>1
<1> QED
  BY <1>2, NestedKept

\* A frame is put on the stack that owes a bit of higher priority than all.
LEMMA PushNested ==
  ASSUME Typed, NEW vec, NEW real, Pushes(vec, real),
         NEW n \in Int, NEW B \in SUBSET Int, NEW B2, Nested(B, Owed),
         B2 \subseteq B \cup {n}, \A m \in B : n < m,
         n \in Owes(stack'[Len(stack) + 1]), Owes(stack'[Len(stack) + 1]) \cap B = {}
  PROVE  Nested(B2, Owed')
<1>1. /\ DOMAIN Owed = 1..Len(stack) /\ DOMAIN Owed' = 1..(Len(stack) + 1)
      /\ \A k \in 1..Len(stack) : Owed'[k] = Owed[k]
      /\ Owed'[Len(stack) + 1] = Owes(stack'[Len(stack) + 1])
      /\ Len(stack) \in Nat
  BY OwedAfter DEF Typed, TypeOK
<1>2. n \in Owed'[Len(stack) + 1] /\ Owed'[Len(stack) + 1] \cap B = {}
  BY <1>1
<1> QED
  BY Zenon, <1>1, <1>2, NestedPushed

\* A step of the running handler that sends no EOI.
LEMMA QuietlyNested ==
  ASSUME Typed, BitsNested, Check \/ OnIrq \/ OnIsr \/ BodyReturns, stack' # stack
  PROVE  BitsNested'
<1>1. inService' = inService /\ ~Idle /\ stack # <<>>
  BY DEF Check, OnIrq, OnIsr, BodyReturns, At, Idle
<1>2. Top \in Frames
  BY <1>1, TopIs
<1>3. PICK s : /\ TopGoes(s)
               /\ \/ Top.step = "entry" /\ s = IF IsIrq THEN Checked ELSE "call"
                  \/ Top.step \in {"call", "body"} /\ IsIrq /\ s \in {"body", End}
                  \/ ~IsIrq
  BY HandlerGoes DEF Check, OnIrq, OnIsr, BodyReturns, At
<1>4. \A b \in inService : b \in Owes(Top) <=> b \in Owes(stack'[Len(stack)])
  <2> DEFINE f == stack'[Len(stack)]
  <2>1. f.vec = Top.vec /\ f.real = Top.real /\ f.step = s
    BY <1>3 DEF TopGoes
  <2>2. Irq(f) = Irq(Top) /\ Irq(Top) = Top.vec - 32 /\ Top.vec \in Int
    <3>1. Top.vec \in Int
      BY <1>2 DEF Frames, Vectors
    <3> QED
      BY <2>1, <3>1 DEF Irq
  <2> HIDE DEF f
  <2> SUFFICES ASSUME NEW b \in inService PROVE b \in Owes(Top) <=> b \in Owes(f)
    BY DEF f
  <2>3. CASE ~IsIrq
    BY <2>1, <2>2, <2>3, OwesIs DEF IsIrq, OwesMaster, OwesSlave
  <2>4. CASE IsIrq /\ Top.step = "entry"
    <3>1. s = Checked
      BY <1>3, <2>4
    <3>2. CASE Irq(Top) = 7 /\ 7 \notin inService
      BY <2>1, <2>2, <2>4, <3>1, <3>2, OwesIs DEF OwesMaster, OwesSlave, Checked, MasterLine
    <3>3. CASE Irq(Top) = 15 /\ 15 \notin inService
      BY <2>1, <2>2, <2>4, <3>1, <3>3, OwesIs DEF OwesMaster, OwesSlave, Checked, MasterLine
    <3>4. CASE Checked = "call"
      BY <2>1, <2>2, <2>4, <3>1, <3>4, OwesIs DEF OwesMaster, OwesSlave
    <3> QED
      BY <3>2, <3>3, <3>4 DEF Checked
  <2>5. CASE IsIrq /\ Top.step \in {"call", "body"} /\ s \in {"body", End}
    BY <2>1, <2>2, <2>5, OwesIs DEF OwesMaster, OwesSlave, End
  <2> QED
    BY <1>3, <2>3, <2>4, <2>5
<1>5. OnMaster' = OnMaster /\ OnSlave' = OnSlave
  BY <1>1 DEF OnMaster, OnSlave
<1>6. Nested(OnMaster, Owed') /\ Nested(OnSlave, Owed')
  BY <1>3, <1>4, BitsAre, GoesNested DEF BitsNested
<1> QED
  BY <1>5, <1>6 DEF BitsNested

\* The end of interrupt at the slave ends what the running handler owes there.
LEMMA SlaveEndNested ==
  ASSUME Typed, BitsNested, EndsInv, pic_eoi_slave
  PROVE  BitsNested'
<1>1. /\ TopGoes("eoi_master") /\ stack # <<>> /\ Top.step = "eoi_slave"
      /\ inService' = inService \ First(OnSlave)
  BY HandlerGoes DEF pic_eoi_slave, At, Idle
<1>2. Top \in Frames /\ Top.vec >= 40
  BY <1>1, TopIs DEF EndsInv
<1> DEFINE f == stack'[Len(stack)]
<1>3. f.vec = Top.vec /\ f.real = Top.real /\ f.step = "eoi_master" /\ Irq(f) = Irq(Top)
      /\ Irq(Top) = Top.vec - 32 /\ Top.vec \in Int
  <2>1. f.vec = Top.vec /\ f.real = Top.real /\ f.step = "eoi_master"
    BY <1>1 DEF TopGoes
  <2>2. Top.vec \in Int
    BY <1>2 DEF Frames, Vectors
  <2> QED
    BY <2>1, <2>2 DEF Irq
<1> HIDE DEF f
<1>4. OnMaster' = OnMaster /\ OnSlave' = OnSlave \ First(OnSlave)
  BY <1>1 DEF OnMaster, OnSlave, First
<1>5. ASSUME NEW b \in OnMaster PROVE b \in Owes(Top) <=> b \in Owes(f)
  <2>1. b < 8 /\ b \in Int
    BY BitsAre
  <2> QED
    BY <1>1, <1>2, <1>3, <2>1, OwesIs DEF OwesMaster, OwesSlave
<1>6. ASSUME NEW b \in OnSlave' PROVE b \in Owes(Top) <=> b \in Owes(f)
  <2>1. b >= 8 /\ b \in OnSlave /\ b \in Int
    BY <1>4, BitsAre
  <2>2. b \notin Owes(Top)
    BY <1>1, <1>4, <2>1, TopOwesFirst, BitsAre DEF BitsNested
  <2>3. b \notin Owes(f)
    <3>1. ~OwesSlave(f) /\ MasterLine(Irq(f)) < 8 /\ MasterLine(Irq(f)) \in Int
      BY <1>2, <1>3, BitsAre DEF OwesSlave
    <3> QED
      BY <2>1, <3>1, OwesIs
  <2> QED
    BY <2>2, <2>3
<1>7. Nested(OnMaster, Owed')
  BY <1>1, <1>5, GoesNested DEF BitsNested, f
<1>8. Nested(OnSlave', Owed')
  BY <1>1, <1>4, <1>6, GoesNested DEF BitsNested, f
<1> QED
  BY <1>4, <1>7, <1>8 DEF BitsNested

\* So does the one at the master.
LEMMA MasterEndNested ==
  ASSUME Typed, BitsNested, EndsInv, pic_eoi_master
  PROVE  BitsNested'
<1>1. /\ TopGoes("ret") /\ stack # <<>> /\ Top.step = "eoi_master"
      /\ inService' = inService \ First(OnMaster)
  BY HandlerGoes DEF pic_eoi_master, At, Idle
<1> DEFINE f == stack'[Len(stack)]
<1>2. f.step = "ret"
  BY <1>1 DEF TopGoes
<1>3. \A b : b \notin Owes(f)
  BY <1>2, OwesIs DEF OwesMaster, OwesSlave
<1> HIDE DEF f
<1>4. OnSlave' = OnSlave /\ OnMaster' = OnMaster \ First(OnMaster)
  BY <1>1 DEF OnMaster, OnSlave, First
<1>5. ASSUME NEW b \in OnMaster' PROVE b \notin Owes(Top)
  BY <1>1, <1>4, TopOwesFirst, BitsAre DEF BitsNested
<1>6. ASSUME NEW b \in OnSlave PROVE b \notin Owes(Top)
  <2>1. b >= 8 /\ b \in Int
    BY BitsAre
  <2>2. ~OwesSlave(Top)
    BY <1>1 DEF OwesSlave
  <2>3. MasterLine(Irq(Top)) < 8 /\ MasterLine(Irq(Top)) \in Int
    BY <1>1, TopIs, BitsAre
  <2> QED
    BY <2>1, <2>2, <2>3, OwesIs
<1>7. Nested(OnMaster', Owed')
  BY <1>1, <1>3, <1>4, <1>5, GoesNested DEF BitsNested, f
<1>8. Nested(OnSlave, Owed')
  BY <1>1, <1>3, <1>6, GoesNested DEF BitsNested, f
<1> QED
  BY <1>4, <1>7, <1>8 DEF BitsNested

\* A frame's vector is a number.
LEMMA FrameVec == \A f \in Frames : f.vec \in Int
  BY DEF Frames, Vectors

\* What the frame of a request just taken owes.
LEMMA OwedAtEntry ==
  ASSUME NEW i \in 0..15, NEW f, NEW real, f.vec = 32 + i, f.real = real, f.step = "entry",
         real = TRUE \/ (real = FALSE /\ i \in {7, 15})
  PROVE  /\ Irq(f) = i
         /\ real = TRUE => \A b : b \in Owes(f) <=> b = MasterLine(i) \/ (i >= 8 /\ b = i)
         /\ real = FALSE => \A b : b \in Owes(f) <=> i = 15 /\ b = 2
<1>1. /\ Irq(f) = i /\ f.vec >= 32 /\ (f.vec >= 40 <=> i >= 8)
      /\ f.step # "ret" /\ f.step \notin {"eoi_master", "ret"} /\ MasterLine(15) = 2
  BY DEF Irq, MasterLine, Cascade
<1>2. ASSUME real = TRUE, NEW b
      PROVE  b \in Owes(f) <=> b = MasterLine(i) \/ (i >= 8 /\ b = i)
  <2>1. OwesMaster(f) /\ (OwesSlave(f) <=> i >= 8)
    BY Zenon, <1>1, <1>2 DEF OwesMaster, OwesSlave
  <2> QED
    BY Zenon, <1>1, <2>1, OwesIs
<1>3. ASSUME real = FALSE, NEW b
      PROVE  b \in Owes(f) <=> i = 15 /\ b = 2
  <2>1. (OwesMaster(f) <=> i = 15) /\ ~OwesSlave(f)
    BY Zenon, <1>1, <1>3 DEF OwesMaster, OwesSlave
  <2> QED
    BY Zenon, <1>1, <2>1, OwesIs
<1> QED
  BY Zenon, <1>1, <1>2, <1>3

\* A request is taken only when its bits are of higher priority than all others.
LEMMA AcceptNested ==
  ASSUME Typed, BitsNested, NEW i \in Lines, Accept(i)
  PROVE  BitsNested'
<1>1. /\ Pushes(32 + i, TRUE) /\ Asks(i) /\ inService' = inService \cup {i, MasterLine(i)}
      /\ i \in 0..15
  BY AcceptPushes, IrqDispatchAssumption DEF Accept
<1> DEFINE f == stack'[Len(stack) + 1]
<1>2. \A b : b \in Owes(f) <=> b = MasterLine(i) \/ (i >= 8 /\ b = i)
  BY <1>1, OwedAtEntry DEF Pushes
<1> HIDE DEF f
<1>3. MasterLine(i) \in Int /\ MasterLine(i) < 8 /\ (i < 8 => MasterLine(i) = i)
  BY <1>1 DEF MasterLine, Cascade
<1>4. Nested(OnMaster', Owed')
  <2>1. OnMaster' \subseteq OnMaster \cup {MasterLine(i)}
    BY <1>1, <1>3 DEF OnMaster
  <2>2. \A m \in OnMaster : MasterLine(i) < m /\ m < 8 /\ m \in Int
    BY <1>1, BitsAre DEF Asks
  <2>3. MasterLine(i) \in Owes(f) /\ Owes(f) \cap OnMaster = {}
    BY <1>1, <1>2, <1>3, <2>2
  <2> QED
    BY <1>1, <1>3, <2>1, <2>2, <2>3, BitsAre, PushNested DEF BitsNested, f
<1>5. Nested(OnSlave', Owed')
  <2>1. \A m \in OnSlave : (i >= 8 => i < m) /\ m >= 8 /\ m \in Int
    BY <1>1, BitsAre DEF Asks
  <2>2. CASE i < 8
    <3>1. OnSlave' = OnSlave
      BY <1>1, <1>3, <2>2 DEF OnSlave, OnMaster
    <3>2. Owes(f) \cap OnSlave = {}
      BY <1>1, <1>2, <1>3, <2>1, <2>2
    <3> QED
      BY <1>1, <3>1, <3>2, TrapNested DEF BitsNested, f
  <2>3. CASE i >= 8
    <3>1. OnSlave' \subseteq OnSlave \cup {i}
      BY <1>1, <1>3, <2>3 DEF OnSlave, OnMaster
    <3>2. i \in Owes(f) /\ Owes(f) \cap OnSlave = {} /\ i \in Int
      BY <1>1, <1>2, <1>3, <2>1, <2>3
    <3> QED
      BY <1>1, <2>1, <2>3, <3>1, <3>2, BitsAre, PushNested DEF BitsNested, f
  <2> QED
    BY <1>1, <2>2, <2>3
<1> QED
  BY <1>4, <1>5 DEF BitsNested

\* A spurious request that the slave answers sets the cascade's bit.
LEMMA SpuriousNested ==
  ASSUME Typed, BitsNested, NEW i \in Lines, Spurious(i)
  PROVE  BitsNested'
<1> DEFINE f == stack'[Len(stack) + 1]
<1>1. CASE Pushes(39, FALSE) /\ inService' = inService
  <2>1. \A b : b \notin Owes(f)
    <3>1. f.vec = 32 + 7 /\ f.step = "entry" /\ 7 \in 0..15 /\ 7 # 15
      BY <1>1 DEF Pushes
    <3>2. f.real = FALSE
      BY Zenon, <1>1 DEF Pushes
    <3> HIDE DEF f
    <3> QED
      BY Zenon, <3>1, <3>2, OwedAtEntry
  <2>2. OnMaster' = OnMaster /\ OnSlave' = OnSlave
    BY <1>1 DEF OnMaster, OnSlave
  <2>3. Owes(f) \cap OnMaster = {} /\ Owes(f) \cap OnSlave = {}
    BY <2>1
  <2> QED
    BY <1>1, <2>2, <2>3, TrapNested DEF BitsNested
<1>2. CASE Pushes(47, FALSE) /\ i >= 8 /\ inService' = inService \cup {2}
  <2>1. \A b : b \in Owes(f) <=> b = 2
    <3>1. f.vec = 32 + 15 /\ f.step = "entry" /\ 15 \in 0..15
      BY <1>2 DEF Pushes
    <3>2. f.real = FALSE
      BY Zenon, <1>2 DEF Pushes
    <3> HIDE DEF f
    <3>3. 15 \in {7, 15} /\ FALSE = FALSE
      OBVIOUS
    <3>4. \A b : b \in Owes(f) <=> 15 = 15 /\ b = 2
      BY Zenon, <3>1, <3>2, <3>3, OwedAtEntry
    <3> QED
      BY <3>4
  <2>2. \A m \in OnMaster : 2 < m /\ m \in Int
    BY <1>2, BitsAre, IrqDispatchAssumption DEF Spurious, Asks, MasterLine, Cascade
  <2>3. OnMaster' \subseteq OnMaster \cup {2} /\ OnSlave' = OnSlave
    BY <1>2 DEF OnMaster, OnSlave
  <2>4. 2 \in Owes(f) /\ Owes(f) \cap OnMaster = {} /\ Owes(f) \cap OnSlave = {}
    BY <2>1, <2>2, BitsAre
  <2> HIDE DEF f
  <2>5. Nested(OnMaster', Owed')
    <3>1. OnMaster \in SUBSET Int /\ 2 \in Int /\ \A m \in OnMaster : 2 < m
      BY <2>2, BitsAre
    <3> QED
      BY <1>2, <2>3, <2>4, <3>1, PushNested DEF BitsNested, f
  <2>6. Nested(OnSlave, Owed')
    BY <1>2, <2>4, TrapNested DEF BitsNested, f
  <2> QED
    BY <2>3, <2>5, <2>6 DEF BitsNested
<1> QED
  BY <1>1, <1>2, SpuriousPushes

\* An exception owes nothing.
LEMMA TrapsNested ==
  ASSUME Typed, BitsNested, NEW e \in 0..31, Traps(e)
  PROVE  BitsNested'
<1>1. Pushes(e, FALSE) /\ inService' = inService
  BY DEF Traps
<1> DEFINE f == stack'[Len(stack) + 1]
<1>2. \A b : b \notin Owes(f)
  <2>1. f.vec = e
    BY <1>1 DEF Pushes
  <2>2. ~(f.vec >= 32) /\ ~(f.vec >= 40)
    BY <2>1
  <2> QED
    BY Zenon, <2>2, OwesIs DEF OwesMaster, OwesSlave
<1>3. OnMaster' = OnMaster /\ OnSlave' = OnSlave
  BY <1>1 DEF OnMaster, OnSlave
<1>4. Owes(f) \cap OnMaster = {} /\ Owes(f) \cap OnSlave = {}
  BY <1>2
<1> QED
  BY <1>1, <1>3, <1>4, TrapNested DEF BitsNested

\* What the handler's steps do to the ends of interrupt.
LEMMA EndsKept ==
  ASSUME Typed, EndsInv, [Next]_vars
  PROVE  EndsInv'
<1>0. Len(stack) \in Nat /\ Typed
  BY DEF Typed, TypeOK
<1>1. CASE Quiet
  BY <1>1 DEF Quiet, EndsInv
<1>2. ASSUME NEW vec, NEW real, Pushes(vec, real) PROVE EndsInv'
  <2>1. \A k \in 1..Len(stack') : k \in 1..Len(stack) \/ k = Len(stack) + 1
    BY <1>0, <1>2 DEF Pushes
  <2> QED
    BY <2>1, <1>2 DEF Pushes, EndsInv
<1>3. ASSUME NEW s, TopGoes(s), s = "eoi_slave" => Top.vec >= 40,
             s = "eoi_master" => Top.vec >= 32
      PROVE  EndsInv'
  BY <1>3 DEF TopGoes, EndsInv
<1>4. CASE Iret
  <2>1. Pops
    BY <1>4, IretPops DEF Typed, TypeOK
  <2>2. \A k \in 1..Len(stack') : k \in 1..(Len(stack) - 1) /\ k \in 1..Len(stack)
    BY <1>0, <2>1 DEF Pops
  <2> QED
    BY <2>1, <2>2 DEF Pops, EndsInv
<1>5. CASE Moves
  <2>1. stack # <<>>
    BY <1>5 DEF Moves, Check, OnIrq, OnIsr, BodyReturns, pic_eoi_slave, pic_eoi_master, At, Idle
  <2>2. Top.vec \in Int
    <3>1. Top \in Frames
      BY <2>1, TopIs
    <3> QED
      BY <3>1 DEF Frames, Vectors
  <2>3. Top.step = "eoi_slave" => Top.vec >= 40
    BY <2>1, TopIs DEF EndsInv
  <2>4. CASE stack' = stack
    BY <2>4 DEF EndsInv
  <2>5. CASE pic_eoi_slave
    BY <1>3, <2>2, <2>3, <2>5, HandlerGoes DEF pic_eoi_slave, At
  <2>6. CASE pic_eoi_master
    BY <1>3, <2>6, HandlerGoes DEF pic_eoi_master
  <2>7. CASE Check
    BY <1>3, <2>2, <2>7, HandlerGoes DEF IsIrq, Checked
  <2>8. CASE OnIrq
    BY <1>3, <2>2, <2>8, HandlerGoes DEF OnIrq, IsIrq, End, Irq
  <2>9. CASE OnIsr
    BY <1>3, <2>4, <2>9, HandlerGoes
  <2>10. CASE BodyReturns
    BY <1>3, <2>2, <2>4, <2>10, HandlerGoes DEF IsIrq, End, Irq
  <2> QED
    BY <1>5, <2>5, <2>6, <2>7, <2>8, <2>9, <2>10 DEF Moves
<1> QED
  BY <1>0, <1>1, <1>2, <1>4, <1>5, Shapes, AcceptPushes, SpuriousPushes DEF Traps

-----------------------------------------------------------------------------
(* The bits stay nested in every step.                                     *)

BitsInv == Typed /\ EndsInv /\ BitsNested

\* Nothing is in service at first.
LEMMA InitBits == Init => BitsInv
<1> SUFFICES ASSUME Init PROVE BitsInv
  OBVIOUS
<1>1. stack = <<>> /\ OnMaster = {} /\ OnSlave = {}
  BY DEF Init, OnMaster, OnSlave
<1>2. EndsInv /\ BitsNested
  BY <1>1 DEF EndsInv, BitsNested, Nested
<1> QED
  BY <1>2, InitTyped DEF BitsInv

\* One step.
LEMMA StepBits == BitsInv /\ [Next]_vars => BitsInv'
<1> SUFFICES ASSUME BitsInv, [Next]_vars PROVE BitsInv'
  OBVIOUS
<1>1. Typed /\ EndsInv /\ BitsNested
  BY DEF BitsInv
<1>2. BitsNested'
  <2>1. CASE stack' = stack /\ inService' = inService
    BY <1>1, <2>1 DEF BitsNested, Owed, OnMaster, OnSlave
  <2>2. CASE Quiet
    BY <2>1, <2>2 DEF Quiet
  <2>3. CASE Moves
    <3>1. CASE pic_eoi_slave \/ pic_eoi_master
      BY <1>1, <3>1, SlaveEndNested, MasterEndNested
    <3>2. CASE Check \/ OnIrq \/ OnIsr \/ BodyReturns
      <4>1. inService' = inService
        BY <3>2 DEF Check, OnIrq, OnIsr, BodyReturns
      <4> QED
        BY <1>1, <2>1, <3>2, <4>1, QuietlyNested
    <3> QED
      BY <2>3, <3>1, <3>2 DEF Moves
  <2>4. CASE Iret
    <3>1. OnMaster' = OnMaster /\ OnSlave' = OnSlave
      BY <2>4 DEF Iret, OnMaster, OnSlave
    <3> QED
      BY <1>1, <2>4, <3>1, PopsNested DEF BitsNested
  <2>5. ASSUME NEW e \in 0..31, Traps(e) PROVE BitsNested'
    BY <1>1, <2>5, TrapsNested
  <2>6. ASSUME NEW i \in Lines, Accept(i) \/ Spurious(i) PROVE BitsNested'
    BY <1>1, <2>6, AcceptNested, SpuriousNested
  <2> QED
    BY <1>1, <2>2, <2>3, <2>4, <2>5, <2>6, Shapes
<1> QED
  BY <1>1, <1>2, StepTyped, EndsKept DEF BitsInv

\* When the last handler has returned no bit is left in service.
THEOREM EndsCorrect == Spec => []EndsWhatItBegan
<1>1. BitsInv => EndsWhatItBegan
  <2> SUFFICES ASSUME BitsInv, Idle PROVE inService = {}
    BY DEF EndsWhatItBegan
  <2>1. DOMAIN Owed = {}
    BY DEF Idle, Owed
  <2>2. OnMaster = {} /\ OnSlave = {}
    BY <2>1 DEF BitsInv, BitsNested, Nested
  <2> QED
    BY <2>2 DEF OnSlave
<1> QED
  BY <1>1, InitBits, StepBits, PTL DEF Spec

-----------------------------------------------------------------------------
(* Spurious requests.                                                      *)

\* A spurious request gets past the look at the 8259 only above a real one.
LEMMA TakenAboveReal ==
  ASSUME BitsInv, stack # <<>>, Top.vec \in {39, 47}, Checked = "call", ~Top.real
  PROVE  \E j \in 1..(Len(stack) - 1) : /\ stack[j].vec = Top.vec
                                        /\ stack[j].real /\ stack[j].step # "ret"
<1>1. Typed /\ BitsNested /\ Irq(Top) \in {7, 15} /\ Irq(Top) = Top.vec - 32
  BY DEF BitsInv, Irq
<1>2. Irq(Top) \in inService
  BY <1>1 DEF Checked
<1>3. PICK k \in 1..Len(stack) : Irq(Top) \in Owes(stack[k])
  BY <1>1, <1>2, BitsAre, OwedAfter DEF BitsNested, Nested
<1>4. stack[k] \in Frames /\ Len(stack) \in Nat /\ stack[Len(stack)] = Top
  BY <1>1 DEF Typed, TypeOK, Top
<1>5. stack[k].vec \in Int /\ Irq(stack[k]) = stack[k].vec - 32
  BY <1>4, FrameVec DEF Irq
<1>6. Irq(stack[k]) = Irq(Top) /\ stack[k].step # "ret" /\ (stack[k].real \/ Irq(Top) = 15)
  BY <1>1, <1>3, <1>5, OwesIs DEF OwesMaster, OwesSlave, MasterLine, Cascade
<1>7. stack[k].real
  <2>1. CASE Irq(Top) = 15
    <3>1. MasterLine(Irq(stack[k])) # Irq(Top)
      BY <1>6, <2>1 DEF MasterLine, Cascade
    <3> QED
      BY Zenon, <1>3, <3>1, OwesIs DEF OwesSlave
  <2> QED
    BY Zenon, <1>6, <2>1
<1>8. k # Len(stack)
  BY Zenon, <1>4, <1>7
<1>9. k \in 1..(Len(stack) - 1) /\ stack[k].vec = Top.vec
  BY <1>1, <1>4, <1>5, <1>6, <1>8
<1> QED
  BY Zenon, <1>6, <1>7, <1>9

\* Only the look at the 8259 leads to the call.
LEMMA ToCall ==
  ASSUME Typed, Moves, stack' # stack
  PROVE  \E s : /\ TopGoes(s)
                /\ s = "call" => Check /\ (IsIrq => Checked = "call")
<1>1. CASE Check
  <2>1. TopGoes(IF IsIrq THEN Checked ELSE "call")
    BY <1>1, HandlerGoes
  <2> QED
    BY <1>1, <2>1
<1>2. CASE ~Check
  BY <1>2, HandlerGoes DEF Moves, End
<1> QED
  BY <1>1, <1>2

\* A frame that stays, with all below it.
LEMMA FrameKept ==
  ASSUME SpuriousInv, NEW k \in 1..Len(stack), stack'[k] = stack[k],
         \A j \in 1..(k-1) : stack'[j] = stack[j]
  PROVE  SpuriousAt(k)'
<1>1. SpuriousAt(k)
  BY DEF SpuriousInv
<1>2. Taken(k)' => Taken(k)
  BY Zenon DEF Taken
<1>3. ASSUME Taken(k)'
      PROVE  \E j \in 1..(k-1) : /\ stack'[j].vec = stack'[k].vec
                                 /\ stack'[j].real /\ stack'[j].step # "ret"
  <2>1. PICK j \in 1..(k-1) : /\ stack[j].vec = stack[k].vec
                              /\ stack[j].real /\ stack[j].step # "ret"
    BY Zenon, <1>1, <1>2, <1>3 DEF SpuriousAt
  <2>2. stack'[j] = stack[j]
    BY <2>1
  <2> QED
    BY Zenon, <2>1, <2>2
<1> QED
  BY Zenon, <1>1, <1>3 DEF SpuriousAt

\* One step.
LEMMA StepSpurious == BitsInv /\ SpuriousInv /\ [Next]_vars => SpuriousInv'
<1> SUFFICES ASSUME BitsInv, SpuriousInv, [Next]_vars PROVE SpuriousInv'
  OBVIOUS
<1>0. Typed /\ Len(stack) \in Nat
  BY DEF BitsInv, Typed, TypeOK
<1>1. CASE stack' = stack
  BY <1>1 DEF SpuriousInv, SpuriousAt, Taken
<1>2. ASSUME NEW vec, NEW real, Pushes(vec, real), vec \in 0..31 \cup {39, 47} \/ real
      PROVE  SpuriousInv'
  <2> SUFFICES ASSUME NEW k \in 1..Len(stack')
               PROVE  SpuriousAt(k)'
    BY DEF SpuriousInv
  <2>1. CASE k \in 1..Len(stack)
    <3>1. stack'[k] = stack[k] /\ \A j \in 1..(k-1) : stack'[j] = stack[j]
      BY <1>0, <1>2, <2>1 DEF Pushes
    <3> QED
      BY <2>1, <3>1, FrameKept
  <2>2. CASE k = Len(stack) + 1
    <3>1. stack'[k].vec = vec /\ stack'[k].step = "entry" /\ stack'[k].step # "call"
      BY <1>2, <2>2 DEF Pushes
    <3>2. stack'[k].real = real /\ ~stack'[k].called
      BY Zenon, <1>2, <2>2 DEF Pushes
    <3>3. ~Taken(k)'
      BY Zenon, <3>1, <3>2 DEF Taken
    <3>4. vec \in 0..31 \cup {39, 47} /\ vec >= 32 => vec \in {39, 47}
      OBVIOUS
    <3>5. stack'[k].vec >= 32 /\ ~stack'[k].real => stack'[k].vec \in {39, 47}
      BY Zenon, <1>2, <3>1, <3>2, <3>4
    <3> QED
      BY Zenon, <3>3, <3>5 DEF SpuriousAt
  <2> QED
    BY <1>0, <1>2, <2>1, <2>2 DEF Pushes
<1>3. CASE Iret
  <2>1. Pops
    BY <1>0, <1>3, IretPops DEF Typed, TypeOK
  <2> SUFFICES ASSUME NEW k \in 1..Len(stack')
               PROVE  SpuriousAt(k)'
    BY DEF SpuriousInv
  <2>2. k \in 1..Len(stack) /\ stack'[k] = stack[k] /\ \A j \in 1..(k-1) : stack'[j] = stack[j]
    BY <1>0, <2>1 DEF Pops
  <2> QED
    BY <2>2, FrameKept
<1>4. CASE Moves /\ stack' # stack
  <2>1. PICK s : /\ TopGoes(s)
                 /\ s = "call" => Check /\ (IsIrq => Checked = "call")
    BY <1>0, <1>4, ToCall
  <2> SUFFICES ASSUME NEW k \in 1..Len(stack')
               PROVE  SpuriousAt(k)'
    BY DEF SpuriousInv
  <2>2. k \in 1..Len(stack) /\ \A j \in 1..(k-1) : stack'[j] = stack[j]
    BY <1>0, <2>1 DEF TopGoes
  <2>3. CASE k # Len(stack)
    <3>1. stack'[k] = stack[k]
      BY <2>1, <2>2, <2>3 DEF TopGoes
    <3> QED
      BY <2>2, <3>1, FrameKept
  <2>4. CASE k = Len(stack)
    <3>1. Top = stack[k] /\ stack # <<>>
      BY <2>1, <2>4 DEF Top, TopGoes
    <3>2. stack'[k].vec = Top.vec /\ stack'[k].real = Top.real /\ stack'[k].step = s
          /\ (stack'[k].called => Top.called \/ Top.step = "call")
      BY Zenon, <2>1, <2>4 DEF TopGoes
    <3>3. Top.vec >= 32 /\ ~Top.real => Top.vec \in {39, 47}
      BY Zenon, <2>2, <3>1 DEF SpuriousInv, SpuriousAt
    <3>4. CASE Taken(k)
      BY Zenon, <2>2, <3>1, <3>2, <3>3, <3>4 DEF SpuriousInv, SpuriousAt
    <3>5. CASE Taken(k)' /\ ~Taken(k)
      <4>1. s = "call" /\ Top.vec >= 32 /\ ~Top.real
        BY Zenon, <3>1, <3>2, <3>5 DEF Taken
      <4>2. Checked = "call" /\ Top.vec \in {39, 47}
        BY Zenon, <2>1, <3>3, <4>1 DEF IsIrq
      <4>3. \E j \in 1..(k - 1) : /\ stack[j].vec = Top.vec
                                  /\ stack[j].real /\ stack[j].step # "ret"
        BY <2>4, <3>1, <4>1, <4>2, TakenAboveReal
      <4> QED
        BY Zenon, <2>2, <3>2, <3>3, <4>3 DEF SpuriousAt
    <3>6. CASE ~Taken(k)'
      BY Zenon, <3>2, <3>3, <3>6 DEF SpuriousAt
    <3> QED
      BY Zenon, <3>4, <3>5, <3>6
  <2> QED
    BY <2>3, <2>4
<1>5. ASSUME NEW i \in Lines, Accept(i) \/ Spurious(i) PROVE SpuriousInv'
  BY <1>0, <1>2, <1>5, AcceptPushes, SpuriousPushes
<1>6. ASSUME NEW e \in 0..31, Traps(e) PROVE SpuriousInv'
  BY <1>2, <1>6 DEF Traps
<1> QED
  BY <1>0, <1>1, <1>3, <1>4, <1>5, <1>6, Shapes DEF Quiet

\* No spurious request runs a driver's handler, but above a real one.
THEOREM SpuriousCorrect == Spec => []SpuriousIgnored
<1>1. Init => SpuriousInv
  BY DEF Init, SpuriousInv
<1>2. BitsInv /\ SpuriousInv => SpuriousIgnored
  <2> SUFFICES ASSUME BitsInv, SpuriousInv, NEW k \in DOMAIN stack,
                      stack[k].vec >= 32, stack[k].called, ~stack[k].real
               PROVE  \E j \in 1..(k-1) : /\ stack[j].vec = stack[k].vec
                                          /\ stack[j].real /\ stack[j].step # "ret"
    BY Zenon DEF SpuriousIgnored
  <2>1. k \in 1..Len(stack)
    BY DEF BitsInv, Typed, TypeOK
  <2>2. Taken(k)
    BY Zenon DEF Taken
  <2> QED
    BY Zenon, <2>1, <2>2 DEF SpuriousInv, SpuriousAt
<1> QED
  BY <1>1, <1>2, InitBits, StepBits, StepSpurious, PTL DEF Spec

-----------------------------------------------------------------------------
(* What is in service is what is owed.                                     *)

\* While the running handler owes a bit that is in service, the first bit of
\* that 8259 is the one, and no other frame owes it.
LEMMA FirstIsOwed ==
  ASSUME BitsInv, OwedOnce, stack # <<>>, NEW B \in SUBSET Int, Nested(B, Owed),
         NEW b \in B, b \in Owes(Top)
  PROVE  /\ First(B) = {b}
         /\ \A k \in 1..Len(stack) : k # Len(stack) => b \notin Owed[k]
<1>1. Typed /\ b \in First(B)
  BY TopOwesFirst DEF BitsInv
<1>2. First(B) = {b}
  <2>1. ASSUME NEW c \in First(B) PROVE c = b
    BY <1>1, <2>1 DEF First
  <2> QED
    BY <1>1, <2>1
<1>3. Len(stack) \in 1..Len(stack) /\ b \in Owed[Len(stack)]
  BY <1>1, TopIs, OwedAfter
<1> QED
  BY <1>2, <1>3 DEF OwedOnce

\* The steps of a handler only take from what its frame owes.
LEMMA GoesExact ==
  ASSUME Typed, OwedOnce, NEW s, TopGoes(s),
         Owes(stack'[Len(stack)]) \subseteq Owes(Top) \cap inService',
         \A k \in 1..Len(stack) : k # Len(stack) => Owed[k] \subseteq inService'
  PROVE  OwedInService' /\ OwedOnce'
<1>1. stack # <<>> /\ Len(stack) \in 1..Len(stack) /\ Owed[Len(stack)] = Owes(Top)
      /\ Len(stack') = Len(stack)
  BY TopIs, OwedAfter DEF TopGoes
<1>2. /\ \A k \in 1..Len(stack) : k # Len(stack) => Owed'[k] = Owed[k]
      /\ Owed'[Len(stack)] = Owes(stack'[Len(stack)])
  BY OwedAfter
<1>3. OwedInService'
  BY <1>1, <1>2 DEF OwedInService
<1>4. ASSUME NEW j \in 1..Len(stack), NEW k \in 1..Len(stack), j # k
      PROVE  Owed'[j] \cap Owed'[k] = {}
  <2>1. Owed'[j] \subseteq Owed[j] /\ Owed'[k] \subseteq Owed[k]
    BY <1>1, <1>2
  <2> QED
    BY <1>4, <2>1 DEF OwedOnce
<1> QED
  BY <1>1, <1>3, <1>4 DEF OwedOnce

\* A new frame owes bits that were not in service.
LEMMA PushExact ==
  ASSUME Typed, OwedOnce, OwedInService, NEW vec, NEW real, Pushes(vec, real),
         inService \subseteq inService',
         Owes(stack'[Len(stack) + 1]) \subseteq inService' \ inService
  PROVE  OwedInService' /\ OwedOnce'
<1>1. Len(stack) \in Nat /\ Len(stack') = Len(stack) + 1
  BY DEF Typed, TypeOK, Pushes
<1>2. /\ \A k \in 1..Len(stack) : Owed'[k] = Owed[k] /\ Owed[k] \subseteq inService
      /\ Owed'[Len(stack) + 1] \subseteq inService' \ inService
  BY OwedAfter DEF OwedInService
<1>3. OwedInService'
  BY <1>1, <1>2 DEF OwedInService
<1>4. ASSUME NEW j \in 1..(Len(stack) + 1), NEW k \in 1..(Len(stack) + 1), j # k
      PROVE  Owed'[j] \cap Owed'[k] = {}
  <2>1. CASE j \in 1..Len(stack) /\ k \in 1..Len(stack)
    BY <1>2, <1>4, <2>1 DEF OwedOnce
  <2>2. CASE j = Len(stack) + 1 \/ k = Len(stack) + 1
    BY <1>1, <1>2, <1>4, <2>2
  <2> QED
    BY <1>1, <2>1, <2>2
<1> QED
  BY <1>1, <1>3, <1>4 DEF OwedOnce

\* Whoever got past the look at the 8259 passed it rightly.
LEMMA GoesPassed ==
  ASSUME Typed, PassedInv, Moves, stack' # stack, ~fooled, ~fooled'
  PROVE  PassedInv'
<1>1. stack # <<>> /\ Len(stack) \in 1..Len(stack) /\ Top = stack[Len(stack)] /\ Top.vec \in Int
  BY TopIs, FrameVec DEF Moves, Check, OnIrq, OnIsr, BodyReturns, pic_eoi_slave, pic_eoi_master,
     At, Idle
<1>2. Top.vec >= 32 /\ ~Top.real => Passed(Top)
  BY Zenon, <1>1 DEF PassedInv
<1>3. PICK s : /\ TopGoes(s)
               /\ Top.vec >= 32 /\ ~Top.real => s = "ret" \/ (s = "eoi_master" /\ Top.vec = 47)
  <2>1. CASE Top.vec >= 32 /\ ~Top.real
    <3>1. Passed(Top)
      BY <1>2, <2>1
    <3>2. CASE Check
      <4>1. TopGoes(Checked)
        BY <2>1, <3>2, HandlerGoes DEF IsIrq
      <4>2. Checked # "call"
        BY Zenon, <2>1, <3>2 DEF Check, IsIrq
      <4>3. Checked = "ret" \/ (Checked = "eoi_master" /\ Top.vec = 47)
        BY <1>1, <4>2 DEF Checked, Irq
      <4> QED
        BY <4>1, <4>3
    <3>3. CASE pic_eoi_master
      BY <3>3, HandlerGoes
    <3>4. Top.step \in {"entry", "ret", "eoi_master"}
      BY <3>1 DEF Passed
    <3>5. CASE OnIrq \/ OnIsr \/ BodyReturns \/ pic_eoi_slave
      BY <3>4, <3>5 DEF OnIrq, OnIsr, BodyReturns, pic_eoi_slave, At
    <3> QED
      BY <3>2, <3>3, <3>5 DEF Moves
  <2>2. CASE ~(Top.vec >= 32 /\ ~Top.real)
    <3>1. \E s : TopGoes(s)
      BY ToCall
    <3> QED
      BY Zenon, <2>2, <3>1
  <2> QED
    BY <2>1, <2>2
<1> SUFFICES ASSUME NEW k \in 1..Len(stack'), stack'[k].vec >= 32, ~stack'[k].real
             PROVE  Passed(stack'[k])
  BY DEF PassedInv
<1>4. k \in 1..Len(stack)
  BY <1>3 DEF TopGoes
<1>5. CASE k # Len(stack)
  <2>1. stack'[k] = stack[k]
    BY <1>3, <1>4, <1>5 DEF TopGoes
  <2> QED
    BY Zenon, <1>4, <2>1 DEF PassedInv
<1>6. CASE k = Len(stack)
  <2>1. stack'[k].vec = Top.vec /\ stack'[k].real = Top.real /\ stack'[k].step = s
    BY Zenon, <1>3, <1>6 DEF TopGoes
  <2>2. s = "ret" \/ (s = "eoi_master" /\ Top.vec = 47)
    BY Zenon, <1>3, <2>1
  <2> QED
    BY Zenon, <2>1, <2>2 DEF Passed
<1> QED
  BY <1>5, <1>6

\* Before the EOI at the master a step of a handler adds nothing to what its
\* frame owes.
LEMMA GoesOwes ==
  ASSUME Typed, NEW s, TopGoes(s), Top.step \notin {"eoi_master", "ret"}
  PROVE  Owes(stack'[Len(stack)]) \subseteq Owes(Top)
<1> DEFINE f == stack'[Len(stack)]
<1>1. f.vec = Top.vec /\ f.real = Top.real /\ Irq(f) = Irq(Top)
  BY Zenon DEF TopGoes, Irq
<1>2. Top.step # "ret"
  OBVIOUS
<1> HIDE DEF f
<1> SUFFICES ASSUME NEW b \in Owes(f) PROVE b \in Owes(Top)
  BY DEF f
<1>3. CASE OwesMaster(f) /\ b = MasterLine(Irq(f))
  <2>1. OwesMaster(Top)
    BY Zenon, <1>1, <1>2, <1>3 DEF OwesMaster
  <2> QED
    BY Zenon, <1>1, <1>3, <2>1, OwesIs
<1>4. CASE OwesSlave(f) /\ b = Irq(f)
  <2>1. OwesSlave(Top)
    BY Zenon, <1>1, <1>4 DEF OwesSlave
  <2> QED
    BY Zenon, <1>1, <1>4, <2>1, OwesIs
<1> QED
  BY Zenon, <1>3, <1>4, OwesIs

\* An EOI takes the bit its frame owes, which no other frame owes.
LEMMA MovesExact ==
  ASSUME BitsInv, PassedInv, OwedInService, OwedOnce, Moves, stack' # stack
  PROVE  OwedInService' /\ OwedOnce'
<1>1. /\ Typed /\ EndsInv /\ BitsNested /\ stack # <<>> /\ Len(stack) \in 1..Len(stack)
      /\ Top = stack[Len(stack)] /\ Owed[Len(stack)] = Owes(Top)
  BY TopIs, OwedAfter DEF BitsInv, Moves, Check, OnIrq, OnIsr, BodyReturns, pic_eoi_slave,
     pic_eoi_master, At, Idle
<1>2. Top \in Frames /\ Top.vec \in Int /\ Owes(Top) \subseteq inService
  BY <1>1, TopIs, FrameVec DEF OwedInService
<1>3. Top.vec >= 32 /\ ~Top.real => Passed(Top)
  BY Zenon, <1>1 DEF PassedInv
<1>4. CASE Check \/ OnIrq \/ OnIsr \/ BodyReturns
  <2>1. inService' = inService /\ Top.step \notin {"eoi_master", "ret"}
    BY <1>4 DEF Check, OnIrq, OnIsr, BodyReturns, At
  <2>2. PICK s : TopGoes(s)
    BY <1>1, ToCall
  <2>3. Owes(stack'[Len(stack)]) \subseteq Owes(Top)
    BY <1>1, <2>1, <2>2, GoesOwes
  <2> QED
    BY <1>1, <1>2, <2>1, <2>2, <2>3, GoesExact DEF OwedInService
<1>5. CASE pic_eoi_slave
  <2>1. /\ TopGoes("eoi_master") /\ Top.step = "eoi_slave" /\ Top.vec >= 40
        /\ inService' = inService \ First(OnSlave)
    BY <1>1, <1>5, HandlerGoes DEF pic_eoi_slave, At, EndsInv
  <2>2. Top.real
    <3>1. ~Passed(Top) /\ Top.vec >= 32
      BY <1>2, <2>1 DEF Passed
    <3> QED
      BY Zenon, <1>3, <3>1
  <2>3. Irq(Top) \in Owes(Top) /\ Irq(Top) \in Int /\ Irq(Top) >= 8
    <3>1. OwesSlave(Top)
      <4>1. Top.step \notin {"eoi_master", "ret"}
        BY <2>1
      <4> QED
        BY Zenon, <2>1, <2>2, <4>1 DEF OwesSlave
    <3> QED
      BY <1>2, <2>1, <3>1, OwesIs DEF Irq
  <2>4. Irq(Top) \in OnSlave /\ OnSlave \in SUBSET Int /\ Nested(OnSlave, Owed)
    BY <1>1, <1>2, <2>3, BitsAre DEF BitsNested
  <2>5. /\ First(OnSlave) = {Irq(Top)}
        /\ \A k \in 1..Len(stack) : k # Len(stack) => Irq(Top) \notin Owed[k]
    BY <1>1, <2>3, <2>4, FirstIsOwed
  <2>6. \A k \in 1..Len(stack) : k # Len(stack) => Owed[k] \subseteq inService'
    BY <2>1, <2>5 DEF OwedInService
  <2>7. Owes(stack'[Len(stack)]) \subseteq Owes(Top)
    BY <1>1, <2>1, GoesOwes
  <2>8. Irq(Top) \notin Owes(stack'[Len(stack)])
    <3> DEFINE f == stack'[Len(stack)]
    <3>1. f.step = "eoi_master" /\ f.vec = Top.vec
      BY <2>1 DEF TopGoes
    <3>2. ~OwesSlave(f)
      BY <3>1 DEF OwesSlave
    <3>3. MasterLine(Irq(f)) # Irq(Top)
      BY <1>2, <2>3, <3>1 DEF MasterLine, Irq, Cascade
    <3> HIDE DEF f
    <3>4. Irq(Top) \notin Owes(f)
      BY Zenon, <3>2, <3>3, OwesIs
    <3> QED
      BY <3>4 DEF f
  <2> QED
    BY <1>1, <1>2, <2>1, <2>5, <2>6, <2>7, <2>8, GoesExact
<1>6. CASE pic_eoi_master
  <2>1. /\ TopGoes("ret") /\ Top.step = "eoi_master" /\ Top.vec >= 32
        /\ inService' = inService \ First(OnMaster)
    BY <1>1, <1>6, HandlerGoes DEF pic_eoi_master, At, EndsInv
  <2>2. OwesMaster(Top)
    <3>1. Top.real \/ Top.vec = 47
      <4>1. Passed(Top) => Top.vec = 47
        BY <2>1 DEF Passed
      <4> QED
        BY Zenon, <1>3, <2>1, <4>1
    <3>2. Top.vec = 47 => Irq(Top) = 15
      BY DEF Irq
    <3>3. Top.step # "ret"
      BY <2>1
    <3> QED
      BY Zenon, <2>1, <3>1, <3>2, <3>3 DEF OwesMaster
  <2> DEFINE m == MasterLine(Irq(Top))
  <2>3. m \in Owes(Top) /\ m \in Int /\ m < 8
    BY <1>1, <1>2, <2>2, OwesIs, BitsAre
  <2> HIDE DEF m
  <2>4. m \in OnMaster /\ OnMaster \in SUBSET Int /\ Nested(OnMaster, Owed)
    BY <1>1, <1>2, <2>3, BitsAre DEF BitsNested
  <2>5. /\ First(OnMaster) = {m}
        /\ \A k \in 1..Len(stack) : k # Len(stack) => m \notin Owed[k]
    BY <1>1, <2>3, <2>4, FirstIsOwed
  <2>6. \A k \in 1..Len(stack) : k # Len(stack) => Owed[k] \subseteq inService'
    BY <2>1, <2>5 DEF OwedInService
  <2>7. Owes(stack'[Len(stack)]) = {}
    <3>1. stack'[Len(stack)].step = "ret"
      BY <2>1 DEF TopGoes
    <3>2. ~OwesMaster(stack'[Len(stack)]) /\ ~OwesSlave(stack'[Len(stack)])
      BY <3>1 DEF OwesMaster, OwesSlave
    <3> QED
      BY Zenon, <3>2, OwesIs
  <2> QED
    BY <1>1, <2>1, <2>6, <2>7, GoesExact
<1> QED
  BY <1>4, <1>5, <1>6 DEF Moves

\* A request is taken only when its bits are not in service.
LEMMA AcceptExact ==
  ASSUME BitsInv, OwedInService, OwedOnce, NEW i \in Lines, Accept(i)
  PROVE  OwedInService' /\ OwedOnce'
<1>1. /\ Pushes(32 + i, TRUE) /\ Asks(i) /\ inService' = inService \cup {i, MasterLine(i)}
      /\ i \in 0..15 /\ Typed
  BY AcceptPushes, IrqDispatchAssumption DEF Accept, BitsInv
<1> DEFINE f == stack'[Len(stack) + 1]
<1>2. \A b : b \in Owes(f) <=> b = MasterLine(i) \/ (i >= 8 /\ b = i)
  BY <1>1, OwedAtEntry DEF Pushes
<1> HIDE DEF f
<1>3. MasterLine(i) \in Int /\ MasterLine(i) < 8
  BY <1>1 DEF MasterLine, Cascade
<1>4. MasterLine(i) \notin inService /\ (i >= 8 => i \notin inService)
  BY <1>1, <1>3, BitsAre DEF Asks
<1>5. Owes(f) \subseteq inService' \ inService
  BY <1>1, <1>2, <1>4
<1> QED
  BY <1>1, <1>5, PushExact DEF f

\* Neither does a spurious one take a bit that is.
LEMMA SpuriousExact ==
  ASSUME BitsInv, OwedInService, OwedOnce, NEW i \in Lines, Spurious(i)
  PROVE  OwedInService' /\ OwedOnce'
<1>0. Typed
  BY DEF BitsInv
<1> DEFINE f == stack'[Len(stack) + 1]
<1>1. CASE Pushes(39, FALSE) /\ inService' = inService
  <2>1. \A b : b \notin Owes(f)
    <3>1. f.vec = 32 + 7 /\ f.step = "entry" /\ 7 \in 0..15 /\ 7 # 15
      BY <1>1 DEF Pushes
    <3>2. f.real = FALSE
      BY Zenon, <1>1 DEF Pushes
    <3> HIDE DEF f
    <3> QED
      BY Zenon, <3>1, <3>2, OwedAtEntry
  <2>2. Owes(f) \subseteq inService' \ inService
    BY <2>1
  <2> QED
    BY <1>0, <1>1, <2>2, PushExact
<1>2. CASE Pushes(47, FALSE) /\ i >= 8 /\ inService' = inService \cup {2}
  <2>1. \A b : b \in Owes(f) <=> 15 = 15 /\ b = 2
    <3>1. f.vec = 32 + 15 /\ f.step = "entry" /\ 15 \in 0..15
      BY <1>2 DEF Pushes
    <3>2. f.real = FALSE
      BY Zenon, <1>2 DEF Pushes
    <3> HIDE DEF f
    <3>3. 15 \in {7, 15} /\ FALSE = FALSE
      OBVIOUS
    <3> QED
      BY Zenon, <3>1, <3>2, <3>3, OwedAtEntry
  <2>2. 2 \notin inService
    BY <1>0, <1>2, BitsAre, IrqDispatchAssumption DEF Spurious, Asks, MasterLine, Cascade
  <2>3. Owes(f) \subseteq inService' \ inService
    BY <1>2, <2>1, <2>2
  <2> QED
    BY <1>0, <1>2, <2>3, PushExact
<1> QED
  BY <1>0, <1>1, <1>2, SpuriousPushes

\* An exception takes none.
LEMMA TrapsExact ==
  ASSUME BitsInv, OwedInService, OwedOnce, NEW e \in 0..31, Traps(e)
  PROVE  OwedInService' /\ OwedOnce'
<1>1. Pushes(e, FALSE) /\ inService' = inService /\ Typed
  BY DEF Traps, BitsInv
<1> DEFINE f == stack'[Len(stack) + 1]
<1>2. \A b : b \notin Owes(f)
  <2>1. f.vec = e
    BY <1>1 DEF Pushes
  <2>2. ~(f.vec >= 32) /\ ~(f.vec >= 40)
    BY <2>1
  <2> QED
    BY Zenon, <2>2, OwesIs DEF OwesMaster, OwesSlave
<1>3. Owes(f) \subseteq inService' \ inService
  BY <1>2
<1> QED
  BY <1>1, <1>3, PushExact

\* The return of a handler.
LEMMA IretExact ==
  ASSUME Typed, OwedInService, OwedOnce, Iret
  PROVE  OwedInService' /\ OwedOnce'
<1>1. Pops /\ inService' = inService /\ Len(stack) \in Nat
  BY IretPops DEF Iret, Typed, TypeOK
<1>2. /\ \A k \in 1..(Len(stack) - 1) : Owed'[k] = Owed[k]
      /\ \A k \in 1..Len(stack') : k \in 1..(Len(stack) - 1) /\ k \in 1..Len(stack)
  BY <1>1, OwedAfter DEF Pops
<1> QED
  BY <1>1, <1>2 DEF OwedInService, OwedOnce

\* Frames that come in at their entry, and frames that go, pass.
LEMMA OthersPassed ==
  ASSUME Typed, PassedInv, (\E vec, real : Pushes(vec, real)) \/ Pops
  PROVE  PassedInv'
<1>1. Len(stack) \in Nat
  BY DEF Typed, TypeOK
<1>2. \A k \in 1..Len(stack') :
         \/ k \in 1..Len(stack) /\ stack'[k] = stack[k]
         \/ stack'[k].step = "entry"
  BY <1>1 DEF Pushes, Pops
<1> QED
  BY Zenon, <1>2 DEF PassedInv, Passed

\* One step.
LEMMA StepExact == BitsInv /\ ExactInv /\ [Next]_vars => ExactInv'
<1> SUFFICES ASSUME BitsInv, ExactInv, [Next]_vars, ~fooled'
             PROVE  PassedInv' /\ OwedInService' /\ OwedOnce'
  BY Zenon DEF ExactInv
<1>0. Typed
  BY DEF BitsInv
<1>1. ~fooled
  BY Zenon DEF Next, Handle, Check, OnIrq, OnIsr, BodyReturns, pic_eoi_slave,
     pic_eoi_master, Iret, KernelMain, Calls, idt_initialize, pic_initialize, im_init,
     gdb_set_trap, gdb_int3, mm_init, last_int3, Halt, Sti, StoreCallback, Request, Accept,
     Spurious, OpenGate, Exception, vars
<1>2. PassedInv /\ OwedInService /\ OwedOnce
  BY Zenon, <1>1 DEF ExactInv
<1>3. CASE stack' = stack /\ inService' = inService
  <2>1. Owed' = Owed
    BY <1>3 DEF Owed
  <2> QED
    BY <1>2, <1>3, <2>1 DEF PassedInv, OwedInService, OwedOnce
<1>4. CASE Quiet
  BY <1>3, <1>4 DEF Quiet
<1>5. CASE Moves
  <2>1. CASE stack' # stack
    BY <1>0, <1>1, <1>2, <1>5, <2>1, GoesPassed, MovesExact
  <2>2. CASE stack' = stack
    <3>1. pic_eoi_slave => Top.step = "eoi_slave" /\ TopGoes("eoi_master")
      BY <1>0, HandlerGoes DEF pic_eoi_slave, At
    <3>2. pic_eoi_master => Top.step = "eoi_master" /\ TopGoes("ret")
      BY <1>0, HandlerGoes DEF pic_eoi_master, At
    <3>3. ASSUME NEW s, TopGoes(s) PROVE Top.step = s
      BY <2>2, <3>3 DEF TopGoes, Top
    <3>4. ~pic_eoi_slave /\ ~pic_eoi_master
      BY <3>1, <3>2, <3>3
    <3>5. inService' = inService
      BY <1>5, <3>4 DEF Moves, Check, OnIrq, OnIsr, BodyReturns
    <3> QED
      BY <1>3, <2>2, <3>5
  <2> QED
    BY <2>1, <2>2
<1>6. CASE Iret
  BY <1>0, <1>2, <1>6, IretPops, IretExact, OthersPassed DEF Typed, TypeOK
<1>7. ASSUME NEW e \in 0..31, Traps(e) PROVE PassedInv' /\ OwedInService' /\ OwedOnce'
  BY <1>0, <1>2, <1>7, TrapsExact, OthersPassed DEF Traps
<1>8. ASSUME NEW i \in Lines, Accept(i) PROVE PassedInv' /\ OwedInService' /\ OwedOnce'
  BY <1>0, <1>2, <1>8, AcceptPushes, AcceptExact, OthersPassed
<1>9. ASSUME NEW i \in Lines, Spurious(i) PROVE PassedInv' /\ OwedInService' /\ OwedOnce'
  BY <1>0, <1>2, <1>9, SpuriousPushes, SpuriousExact, OthersPassed
<1> QED
  BY <1>0, <1>4, <1>5, <1>6, <1>7, <1>8, <1>9, Shapes

\* There is no frame at first.
LEMMA InitExact == Init => ExactInv
<1> SUFFICES ASSUME Init PROVE ExactInv
  OBVIOUS
<1>1. 1..Len(stack) = {}
  BY DEF Init
<1> QED
  BY <1>1 DEF ExactInv, PassedInv, OwedInService, OwedOnce

\* Every EOI ends the request of the handler that sends it and no other.
THEOREM OwedCorrect == Spec => []InServiceIsOwed
<1>1. BitsInv /\ ExactInv => InServiceIsOwed
  <2> SUFFICES ASSUME BitsInv, ExactInv, ~fooled
               PROVE  inService = UNION {Owes(stack[k]) : k \in DOMAIN stack}
    BY Zenon DEF InServiceIsOwed
  <2>1. Typed /\ BitsNested /\ OwedInService
    BY Zenon DEF BitsInv, ExactInv
  <2>2. DOMAIN stack = 1..Len(stack) /\ DOMAIN Owed = 1..Len(stack)
        /\ \A k \in 1..Len(stack) : Owed[k] = Owes(stack[k])
    BY <2>1, OwedAfter DEF Typed, TypeOK
  <2>3. \A b \in inService : \E k \in 1..Len(stack) : b \in Owes(stack[k])
    BY <2>1, <2>2, BitsAre DEF BitsNested, Nested
  <2>4. \A k \in 1..Len(stack) : Owes(stack[k]) \subseteq inService
    BY <2>1, <2>2 DEF OwedInService
  <2> QED
    BY ONLY <2>2, <2>3, <2>4
<1> QED
  BY <1>1, InitBits, StepBits, InitExact, StepExact, PTL DEF Spec

\* A driver's handler runs once at a time.
THEOREM ReentryCorrect == Spec => []HandlersNotReentered
<1>1. BitsInv /\ ExactInv => HandlersNotReentered
  <2> SUFFICES ASSUME BitsInv, ExactInv, ~fooled, NEW j \in DOMAIN stack, NEW k \in DOMAIN stack,
                      stack[j].vec >= 32, stack[j].vec = stack[k].vec,
                      stack[j].step = "body", stack[k].step = "body", j # k
               PROVE  FALSE
    BY Zenon DEF HandlersNotReentered
  <2>1. Typed /\ PassedInv /\ OwedOnce
    BY Zenon DEF BitsInv, ExactInv
  <2>2. /\ j \in 1..Len(stack) /\ k \in 1..Len(stack)
        /\ Owed[j] = Owes(stack[j]) /\ Owed[k] = Owes(stack[k])
    BY <2>1, OwedAfter DEF Typed, TypeOK
  <2>3. ~Passed(stack[j]) /\ ~Passed(stack[k])
    BY DEF Passed
  <2>4. stack[j].real /\ stack[k].real
    BY Zenon, <2>1, <2>2, <2>3 DEF PassedInv
  <2>5. stack[j].step # "ret" /\ stack[k].step # "ret"
    OBVIOUS
  <2>6. OwesMaster(stack[j]) /\ OwesMaster(stack[k]) /\ Irq(stack[j]) = Irq(stack[k])
    BY Zenon, <2>4, <2>5 DEF OwesMaster, Irq
  <2>7. MasterLine(Irq(stack[j])) \in Owed[j] /\ MasterLine(Irq(stack[j])) \in Owed[k]
    <3>1. MasterLine(Irq(stack[j])) \in Owes(stack[j])
      BY Zenon, <2>6, OwesIs
    <3>2. MasterLine(Irq(stack[k])) \in Owes(stack[k])
      BY Zenon, <2>6, OwesIs
    <3>3. MasterLine(Irq(stack[k])) = MasterLine(Irq(stack[j]))
      BY Zenon, <2>6
    <3> QED
      BY Zenon, <2>2, <3>1, <3>2, <3>3
  <2> QED
    BY <2>1, <2>2, <2>7 DEF OwedOnce
<1> QED
  BY <1>1, InitBits, StepBits, InitExact, StepExact, PTL DEF Spec

-----------------------------------------------------------------------------
(* The order of the calls in kernel_main().                                *)

ReadyInv ==
  /\ mode = "reset" => boot = "idt_initialize"
  /\ mode = "hung" => /\ stack # <<>>
                      /\ boot \notin Late \/ Top.vec \notin {1, Breakpoint}

\* Nothing meets an empty gate once there are gates, and no int3 is left
\* without a handler once gdb_init() has run.
THEOREM TablesCorrect == Spec => []TablesReadyInTime
<1>1. Init => ReadyInv
  BY DEF Init, ReadyInv
<1>2. Typed /\ ReadyInv /\ [Next]_vars => ReadyInv'
  <2> SUFFICES ASSUME Typed, ReadyInv, [Next]_vars PROVE ReadyInv'
    OBVIOUS
  <2>1. CASE UNCHANGED <<mode, boot, stack>>
    BY <2>1 DEF ReadyInv, Top
  <2>2. CASE mode = "ok" /\ mode' = mode
    BY <2>2 DEF ReadyInv
  <2>3. mode = "ok" \/ UNCHANGED <<mode, boot, stack>>
    BY DEF Next, Handle, Check, OnIrq, OnIsr, BodyReturns, pic_eoi_slave, pic_eoi_master,
       Iret, At, KernelMain, Calls, idt_initialize, pic_initialize, im_init, gdb_set_trap,
       gdb_int3, mm_init, last_int3, Halt, Sti, StoreCallback, Client, Request, Accept,
       Spurious, Interruptible, OpenGate, Exception, Running, vars
  <2>4. CASE mode = "ok" /\ Handle
    <3>1. boot' = boot /\ (boot \in Late => {1, Breakpoint} \subseteq callbacks)
      BY <2>4 DEF Handle, Check, OnIrq, OnIsr, BodyReturns, pic_eoi_slave, pic_eoi_master,
         Iret, base, Typed, BootInv
    <3>2. \/ mode' = mode
          \/ /\ mode' = "hung" /\ stack' = stack /\ stack # <<>>
             /\ Top.vec \notin callbacks
      BY <2>4 DEF Handle, Check, OnIrq, OnIsr, BodyReturns, pic_eoi_slave, pic_eoi_master,
         Iret, At, Idle
    <3> QED
      BY <2>2, <2>4, <3>1, <3>2 DEF ReadyInv, Top
  <2>5. ASSUME NEW e \in 0..31, mode = "ok", Enter(e, FALSE),
               boot' = boot \/ boot # "idt_initialize"
        PROVE  ReadyInv'
    BY <2>2, <2>5, ExceptionPushes DEF ReadyInv
  <2>6. ASSUME NEW e \in Exceptions, Exception(e), mode = "ok" PROVE ReadyInv'
    BY <2>5, <2>6, IrqDispatchAssumption DEF Exception, base
  <2>7. ASSUME NEW i \in Lines, mode = "ok",
               Request(i) \/ Accept(i) \/ Spurious(i) \/ OpenGate(i)
        PROVE  ReadyInv'
    <3>1. mode' = mode
      BY <2>7, AcceptPushes, SpuriousPushes DEF Request, OpenGate
    <3> QED
      BY <2>2, <2>7, <3>1
  <2>8. CASE mode = "ok" /\ (Sti \/ StoreCallback)
    BY <2>2, <2>8 DEF Sti, StoreCallback
  <2>9. CASE mode = "ok" /\ KernelMain
    <3>1. CASE gdb_int3 \/ last_int3
      <4>1. Enter(3, FALSE)
        BY <3>1 DEF gdb_int3, last_int3, Breakpoint
      <4>2. boot = "gdb_int3" \/ boot = "client"
        BY Zenon, <3>1 DEF gdb_int3, last_int3, Calls
      <4>3. boot # "idt_initialize" /\ 3 \in 0..31
        BY ONLY <4>2
      <4> QED
        BY <2>5, <2>9, <4>1, <4>3
    <3>2. CASE ~(gdb_int3 \/ last_int3)
      <4>1. mode' = mode
        BY <2>9, <3>2 DEF KernelMain, idt_initialize, pic_initialize, im_init, gdb_set_trap,
           mm_init, Halt
      <4> QED
        BY <2>2, <2>9, <4>1
    <3> QED
      BY <3>1, <3>2
  <2>10. CASE UNCHANGED vars
    BY <2>1, <2>10 DEF vars
  <2> QED
    BY Zenon, <2>1, <2>3, <2>4, <2>6, <2>7, <2>8, <2>9, <2>10 DEF Next
<1>3. Typed /\ ReadyInv => TablesReadyInTime
  BY DEF Typed, TypeOK, BootInv, ReadyInv, TablesReadyInTime, Late
<1> QED
  BY <1>1, <1>2, <1>3, InitTyped, StepTyped, PTL DEF Spec
=============================================================================
