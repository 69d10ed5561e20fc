------------------------------- MODULE GdbTrap -------------------------------
(***************************************************************************)
(* The trap side of the gdb stub: interrupt-entry.S saves the interrupted  *)
(* program in a context on the stack, im_on_isr() picks the handler,       *)
(* gdb_handler() (gdb-stub/interface.c) copies the context to regs[], lets *)
(* gdb_main() serve the commands of the host, copies regs[] back, and      *)
(* returns to the program.  Three parties move: the interrupted program,   *)
(* the stub, and traps that the stub itself raises while it serves a       *)
(* command (tassert's int3, a page fault on a memory read).                *)
(*                                                                         *)
(* Packets are taken as received: GdbLink models the line.  Interrupts are *)
(* off throughout (the kernel never sets IF), so only the traps above      *)
(* interrupt the stub.                                                     *)
(***************************************************************************)
EXTENDS Integers, Sequences

CONSTANTS GenRegs,    \* registers the handler copies back (eax .. gs, eip, cs)
          Vals,       \* register and memory values
          Cells,      \* memory cells besides Top that the host may address
          Kernel      \* those gdb_sys_mem_writeb() lets through

ASSUME GdbTrapAssumption ==
  /\ Kernel \subseteq Cells
  /\ GenRegs \cap {"esp", "ps", "ss"} = {}
  /\ "pc" \in GenRegs
  /\ "top" \notin Cells
  /\ (GenRegs \cup {"esp", "ps", "ss"}) \cap (Cells \cup {"top"}) = {}
  /\ "unsure" \notin Vals

\* A trap in ring 0 pushes no esp and no ss: context->ss is the word of the
\* interrupted program's own stack above the return frame, the cell Top.
Top     == "top"
Memory  == Cells \cup {Top}
CpuRegs == GenRegs \cup {"esp", "ps"}       \* what the cpu and the frame hold
Regs    == CpuRegs \cup {"ss"}              \* regs[], in GDB_REGISTER's terms
None    == "none"
Unsure  == "unsure"                         \* the host knows no value
Registered == {1, 3}                        \* gdb_set_trap()
Contexts   == [regs : [CpuRegs -> Vals], tf : BOOLEAN, vec : {1, 3, 14}]

VARIABLES mode,     \* "run": the program, "halted": gdb_main, "hung": hlt, IF = 0
          prog,     \* the program's registers while it runs
          tf,       \* the program's trap flag
          mem,      \* memory
          frame,    \* the interrupt_context of the trap being served
          ctx,      \* where current_context points: "frame", or "dead" stack
          lock,     \* gdb_lock
          regs,     \* regs[] of gdb_handler, dead outside a session
          cmd,      \* history: the command the last session ended with
          ran,      \* history: instructions run since, up to 2
          junk,     \* history: the last session received a malformed packet
          hostRegs, hostMem   \* history: the host's picture of a session: what
                              \* the trap found, what it wrote with an OK, what
                              \* it read; Unsure what it got an error for

cpu  == <<prog, tf>>
host == <<hostRegs, hostMem>>
trapVars == <<mode, prog, tf, mem, frame, ctx, lock, regs, cmd, ran, junk,
              hostRegs, hostMem>>

Init == /\ mode = "run" /\ cmd = None /\ ran = 0 /\ junk = FALSE
        /\ \E v \in Vals : /\ prog = [r \in CpuRegs |-> v]
                           /\ mem = [c \in Memory |-> v]
                           /\ frame = [regs |-> [r \in CpuRegs |-> v], tf |-> FALSE, vec |-> 3]
                           /\ regs = [r \in Regs |-> v]
        /\ hostRegs = [r \in Regs |-> Unsure] /\ hostMem = [c \in Memory |-> Unsure]
        /\ tf = FALSE /\ ctx = "dead" /\ lock = 0

-----------------------------------------------------------------------------
\* What gdb_handler() finds in a context: p are the saved registers and m the
\* memory; esp is &context->esp, the program's stack pointer before the trap.
Loaded(p, m) == [r \in Regs |-> IF r = "ss" THEN m[Top] ELSE p[r]]

Counted == IF ran < 2 THEN ran + 1 ELSE ran

\* A trap of the running program with registers p and memory m: the saved
\* context, current_context = context, then the lock.  With the lock taken the
\* handler returns at once; im_on_isr() then halts for an unregistered vector.
TrapIn(vec, p, m) ==
  /\ frame' = [regs |-> p, tf |-> tf, vec |-> vec]
  /\ ctx' = "frame"
  /\ junk' = FALSE
  /\ IF lock = 0
     THEN /\ lock' = 1
          /\ regs' = Loaded(p, m)
          /\ mode' = "halted"
          /\ hostRegs' = Loaded(p, m) /\ hostMem' = m
          /\ cmd' = None /\ ran' = 0
     ELSE /\ mode' = IF vec \in Registered THEN "run" ELSE "hung"
          /\ ran' = Counted
          /\ UNCHANGED <<lock, regs, host, cmd>>

\* One instruction may change a register or a memory cell.
Results == {<<[prog EXCEPT ![r] = v], mem>> : r \in GenRegs, v \in Vals} \cup
           {<<prog, [mem EXCEPT ![c] = v]>> : c \in Memory, v \in Vals}

Execute == /\ mode = "run" /\ ~tf
           /\ \E res \in Results : prog' = res[1] /\ mem' = res[2]
           /\ ran' = Counted
           /\ UNCHANGED <<mode, tf, frame, ctx, lock, regs, cmd, junk, host>>

\* With the trap flag set the cpu raises vector 1 after the instruction, and
\* clears the flag for the handler.
ExecuteAndTrap ==
  /\ mode = "run" /\ tf
  /\ \E res \in Results : /\ prog' = res[1] /\ mem' = res[2]
                          /\ TrapIn(1, res[1], res[2])
  /\ UNCHANGED tf

\* int3 in the program, and a page fault of the program (vector 14, for which
\* nothing is registered: im_on_isr() borrows the breakpoint's handler).
Breakpoint == /\ mode = "run"
              /\ TrapIn(3, prog, mem)
              /\ UNCHANGED <<cpu, mem>>

Fault == /\ mode = "run"
         /\ TrapIn(14, prog, mem)
         /\ UNCHANGED <<cpu, mem>>

-----------------------------------------------------------------------------
\* A trap the stub raises itself: gdb_handler() is entered again, moves
\* current_context to the new context, finds the lock taken and returns; the
\* new context is popped and current_context is left pointing at dead stack.
Nested == ctx' = "dead"

Serving == mode = "halted"

\* What a command can name: all registers, one, or memory.
CellLists == {<<c>> : c \in Memory} \cup {<<c, d>> : c \in Cells, d \in Cells}
Named(cells) == {cells[k] : k \in DOMAIN cells}
Requests == {Regs} \cup {{r} : r \in Regs} \cup {Named(cells) : cells \in CellLists}

\* The host learns what the stub holds of the names.
Learns(names) ==
  /\ hostRegs' = [r \in Regs |-> IF r \in names THEN regs[r] ELSE hostRegs[r]]
  /\ hostMem' = [c \in Memory |-> IF c \in names THEN mem[c] ELSE hostMem[c]]

\* E00 does not say how much of a write was done.
Doubts(names) ==
  /\ hostRegs' = [r \in Regs |-> IF r \in names THEN Unsure ELSE hostRegs[r]]
  /\ hostMem' = [c \in Memory |-> IF c \in names THEN Unsure ELSE hostMem[c]]

\* Mutant: a read asserts before it is answered.
ReadAsserts(names) == /\ Serving
                      /\ Nested
                      /\ Learns(names)
                      /\ UNCHANGED <<mode, cpu, mem, frame, lock, regs, cmd, ran, junk>>

\* The commands that read, g, p and m; ? and unknown letters change nothing.
Read(names) == /\ Serving
               /\ Learns(names)
               /\ UNCHANGED <<mode, cpu, mem, frame, ctx, lock, regs, cmd, ran, junk>>

\* m of an address that is not mapped: vector 14 inside the stub, no handler of
\* its own, hlt with interrupts off.
ReadUnmapped == /\ Serving
                /\ Nested
                /\ mode' = "hung"
                /\ UNCHANGED <<cpu, mem, frame, lock, regs, cmd, ran, junk, host>>

WriteReg(r, v) == /\ Serving                                       \* P
                  /\ regs' = [regs EXCEPT ![r] = v]
                  /\ hostRegs' = [hostRegs EXCEPT ![r] = v]
                  /\ UNCHANGED <<mode, cpu, mem, frame, ctx, lock, cmd, ran, junk, hostMem>>

WriteRegs(new) == /\ Serving                                       \* G
                  /\ regs' = new
                  /\ hostRegs' = new
                  /\ UNCHANGED <<mode, cpu, mem, frame, ctx, lock, cmd, ran, junk, hostMem>>

\* gdb_sys_mem_writeb() refuses addresses outside the kernel image; the bytes
\* before the first refused one have been written.
Written(cells) == {cells[k] : k \in {j \in DOMAIN cells :
                     \A n \in 1 .. j : cells[n] \in Kernel \cup {Top}}}

\* M and X: OK when no byte was refused, else an error.  (An X with fewer bytes than
\* its length says writes the rest of data[] as the stack left it: GdbPacket's matter.)
WriteMem(cells, v) ==
  /\ Serving
  /\ mem' = [c \in Memory |-> IF c \in Written(cells) THEN v ELSE mem[c]]
  /\ IF Named(cells) \subseteq Kernel \cup {Top}
     THEN /\ hostMem' = [c \in Memory |-> IF c \in Named(cells) THEN v ELSE hostMem[c]]
          /\ UNCHANGED hostRegs
     ELSE Doubts(Named(cells))
  /\ UNCHANGED <<mode, cpu, frame, ctx, lock, regs, cmd, ran, junk>>

\* A write with a wrong length, a missing separator or no such register.
Refuse(names) ==
  /\ Serving
  /\ Doubts(names)
  /\ UNCHANGED <<mode, cpu, mem, frame, ctx, lock, regs, cmd, ran, junk>>

\* Mutant: P may fill regs[] to its end.
DecodedAll(names) == {new \in [Regs -> Vals] : names \cap Regs = {} => new = regs}

\* What the digits before the junk leave in regs[].
Decoded(names) == {new \in [Regs -> Vals] : \A r \in Regs \ names : new[r] = regs[r]}

\* G, P or M with a character that is no hex digit: the bytes before it are
\* decoded, for G and P in place, for M into data[], which is not written then;
\* tassert traps, and the answer is an error.
JunkWrite(names) ==
  /\ Serving
  /\ Nested
  /\ regs' \in Decoded(names)
  /\ Doubts(names)
  /\ junk' = TRUE
  /\ UNCHANGED <<mode, cpu, mem, frame, lock, cmd, ran>>

-----------------------------------------------------------------------------
\* Mutant: c leaves the flag as the trap found it.
FlagKept(c) == IF c = "s" /\ ctx = "frame" THEN TRUE ELSE frame.tf

\* gdb_sys_continue() and gdb_sys_step() set the flag through current_context;
\* a store to dead stack does not reach the frame.
FlagAfter(c) == IF c \in {"c", "s"} /\ ctx = "frame" THEN c = "s" ELSE frame.tf

\* Mutant: esp and eflags are written back as well.
RestoredAll == [r \in CpuRegs |-> regs[r]]

\* The registers gdb_handler() writes to the context: not esp, not eflags.
Restored == [r \in CpuRegs |-> IF r \in GenRegs THEN regs[r] ELSE frame.regs[r]]

\* Mutant: a session that ends with a damaged packet returns past the unlock.
UnlockIfResumed(c) == IF c = "eof" THEN lock ELSE 0

Unlock(c) == 0

\* gdb_main() returns: copy regs[] back, drop the lock,
\* pop the frame.  For an unregistered vector im_on_isr() halts instead.  "eof"
\* is a packet that could not be received, which leaves gdb_main() as well; c
\* and s may carry an address, which gdb_main() does not look at.
Resume(c) ==
  /\ Serving
  /\ cmd' = c /\ ran' = 0
  /\ prog' = Restored
  /\ tf' = FlagAfter(c)
  /\ mem' = [mem EXCEPT ![Top] = regs["ss"]]
  /\ lock' = Unlock(c)
  /\ ctx' = "dead"
  /\ mode' = IF frame.vec \in Registered THEN "run" ELSE "hung"
  /\ Doubts(Regs \cup Memory)
  /\ regs' = Loaded(prog', mem')
  /\ UNCHANGED <<frame, junk>>

Continue == Resume("c")
Step     == Resume("s")
Abandon  == Resume("eof")

Hung == mode = "hung" /\ UNCHANGED trapVars

Next == \/ Execute \/ ExecuteAndTrap \/ Breakpoint \/ Fault
        \/ ReadUnmapped
        \/ \E names \in Requests : Read(names) \/ Refuse(names) \/ JunkWrite(names)
        \/ \E r \in Regs, v \in Vals : WriteReg(r, v)
        \/ \E new \in [Regs -> Vals] : WriteRegs(new)
        \/ \E cells \in CellLists, v \in Vals : WriteMem(cells, v)
        \/ Continue \/ Step \/ Abandon
        \/ Hung

Spec == Init /\ [][Next]_trapVars

-----------------------------------------------------------------------------
\* Modes, registers, memory and contexts are well formed.
TypeOK == /\ mode \in {"run", "halted", "hung"}
          /\ prog \in [CpuRegs -> Vals] /\ regs \in [Regs -> Vals]
          /\ hostRegs \in [Regs -> Vals \cup {Unsure}]
          /\ mem \in [Memory -> Vals] /\ hostMem \in [Memory -> Vals \cup {Unsure}]
          /\ frame \in Contexts
          /\ tf \in BOOLEAN /\ lock \in {0, 1} /\ ctx \in {"frame", "dead"}
          /\ cmd \in {None, "c", "s", "eof"} /\ ran \in 0 .. 2 /\ junk \in BOOLEAN

\* gdb_lock is free whenever the program runs and taken whenever the stub
\* serves commands, however the session ends and whatever traps it raised: a
\* lock left behind would let every later breakpoint pass unseen.
LockFollowsSession == /\ mode = "run" => lock = 0
                      /\ mode = "halted" => lock = 1

\* interface.c:133 says "prevent multi interrupt": while the stub serves the
\* host, current_context is the context it will return to, also when the stub
\* itself trapped in between.
ContextLive == mode = "halted" => ctx = "frame"

\* The same as long as the session received no malformed packet.
ContextKept == ~junk => ContextLive

\* A program told to step runs one instruction before it traps again, and a
\* program told to continue is not single-stepped, across any mix of steps,
\* continues, breakpoints and register writes (the host's PS included), unless
\* the session that told it received a malformed packet.
ResumeObeyed == mode = "run" /\ ~junk => /\ cmd = "s" => tf /\ ran = 0
                                         /\ cmd = "c" => ~tf

\* At every moment of a session the stub holds what the trap found, changed by
\* the writes it answered OK and by nothing else: a write answered with an error,
\* refused half way or decoded half way, and the traps it raises change nothing
\* but what it names, of which the host is unsure until it reads it.
PictureCurrent ==
  mode = "halted" => /\ \A r \in Regs : hostRegs[r] # Unsure => hostRegs[r] = regs[r]
                     /\ \A c \in Memory : hostMem[c] # Unsure => hostMem[c] = mem[c]

\* The program goes on with the registers and the memory it had at the trap but
\* for the writes answered OK and what the host is unsure of, and with its own
\* esp and flags, whatever was written to them.  The word above its frame is
\* what the host takes for ss, whatever the host wrote to memory there.
HostPictureResumes ==
  [][mode = "halted" /\ mode' = "run" =>
       /\ \A r \in GenRegs : hostRegs[r] # Unsure => prog'[r] = hostRegs[r]
       /\ \A r \in {"esp", "ps"} : prog'[r] = frame.regs[r]
       /\ \A c \in Cells : hostMem[c] # Unsure => mem'[c] = hostMem[c]
       /\ hostRegs["ss"] # Unsure => mem'[Top] = hostRegs["ss"]]_trapVars
=============================================================================
