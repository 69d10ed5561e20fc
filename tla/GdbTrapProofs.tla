---------------------------- MODULE GdbTrapProofs ----------------------------
(***************************************************************************)
(* Proofs about GdbTrap for all registers, values and memory cells.  Two   *)
(* inductive invariants: SessionInv says what a session keeps, StepInv what  *)
(* it keeps as long as no malformed packet makes the stub trap.            *)
(***************************************************************************)
EXTENDS GdbTrap, TLAPS

SessionInv == TypeOK /\ LockFollowsSession /\ PictureCurrent

StepInv == SessionInv /\ ContextKept /\ ResumeObeyed

\* The program starts outside any session.
LEMMA InitSession == Init => SessionInv
<1> SUFFICES ASSUME Init PROVE SessionInv
  OBVIOUS
<1>1. PICK v \in Vals : /\ prog = [r \in CpuRegs |-> v]
                        /\ mem = [c \in Memory |-> v]
                        /\ frame = [regs |-> [r \in CpuRegs |-> v],
                                    tf |-> FALSE, vec |-> 3]
                        /\ regs = [r \in Regs |-> v]
  BY DEF Init
<1>2. frame \in Contexts
  BY <1>1 DEF Contexts
<1>3. /\ prog \in [CpuRegs -> Vals] /\ regs \in [Regs -> Vals] /\ mem \in [Memory -> Vals]
      /\ hostRegs \in [Regs -> Vals \cup {Unsure}]
      /\ hostMem \in [Memory -> Vals \cup {Unsure}]
  BY <1>1 DEF Init
<1>4. TypeOK
  <2>1. mode \in {"run", "halted", "hung"} /\ ctx \in {"frame", "dead"}
    BY DEF Init
  <2>2. lock \in {0, 1} /\ ran \in 0 .. 2
    BY DEF Init
  <2>3. tf \in BOOLEAN
    BY DEF Init
  <2>4. cmd \in {None, "c", "s", "eof"} /\ junk \in BOOLEAN
    BY DEF Init
  <2> QED
    BY <1>2, <1>3, <2>1, <2>2, <2>3, <2>4 DEF TypeOK
<1>5. LockFollowsSession /\ PictureCurrent
  BY DEF Init, LockFollowsSession, PictureCurrent
<1> QED
  BY <1>4, <1>5 DEF SessionInv

\* A trap of the running program opens a session: the lock is free, so the
\* handler takes it and fills in the host's picture.
LEMMA TrapOpensSession ==
  ASSUME TypeOK, LockFollowsSession, mode = "run",
         NEW vec \in {1, 3, 14}, NEW p \in [CpuRegs -> Vals], NEW m \in [Memory -> Vals],
         TrapIn(vec, p, m)
  PROVE  /\ mode' = "halted" /\ lock' = 1 /\ ctx' = "frame" /\ junk' = FALSE
         /\ frame' \in Contexts
         /\ regs' \in [Regs -> Vals] /\ hostRegs' = regs' /\ hostMem' = m
         /\ cmd' = None /\ ran' = 0
<1>1. lock = 0
  BY DEF LockFollowsSession
<1>2. m[Top] \in Vals
  BY DEF Memory
<1>3. frame' \in Contexts
  BY DEF TrapIn, TypeOK, Contexts
<1>4. Loaded(p, m) \in [Regs -> Vals]
  BY <1>2 DEF Loaded, Regs
<1> QED
  BY <1>1, <1>3, <1>4 DEF TrapIn

\* What one instruction leaves behind is again registers and memory.
LEMMA ResultsTyped ==
  ASSUME TypeOK, NEW res \in Results
  PROVE  res[1] \in [CpuRegs -> Vals] /\ res[2] \in [Memory -> Vals]
<1>1. CASE \E r \in GenRegs, v \in Vals : res = <<[prog EXCEPT ![r] = v], mem>>
  <2>1. PICK r \in GenRegs, v \in Vals : res = <<[prog EXCEPT ![r] = v], mem>>
    BY <1>1
  <2>2. res[1] = [prog EXCEPT ![r] = v] /\ res[2] = mem
    BY <2>1
  <2> QED
    BY <2>2 DEF TypeOK
<1>2. CASE \E c \in Memory, v \in Vals : res = <<prog, [mem EXCEPT ![c] = v]>>
  <2>1. PICK c \in Memory, v \in Vals : res = <<prog, [mem EXCEPT ![c] = v]>>
    BY <1>2
  <2>2. res[1] = prog /\ res[2] = [mem EXCEPT ![c] = v]
    BY <2>1
  <2> QED
    BY <2>2 DEF TypeOK
<1> QED
  BY <1>1, <1>2 DEF Results

\* What the host learns or doubts is again a picture, and as right as before: it
\* learns what is there, and doubts what it names, as long as no more changed.
LEMMA PictureLearns ==
  ASSUME TypeOK, PictureCurrent, mode = "halted", NEW names, Learns(names),
         regs' = regs, mem' = mem
  PROVE  /\ hostRegs' \in [Regs -> Vals \cup {Unsure}]
         /\ hostMem' \in [Memory -> Vals \cup {Unsure}]
         /\ PictureCurrent'
<1>1. /\ hostRegs' \in [Regs -> Vals \cup {Unsure}]
      /\ hostMem' \in [Memory -> Vals \cup {Unsure}]
  BY DEF Learns, TypeOK
<1>2. \A r \in Regs : hostRegs'[r] # Unsure => hostRegs'[r] = regs[r]
  BY DEF Learns, PictureCurrent
<1>3. \A c \in Memory : hostMem'[c] # Unsure => hostMem'[c] = mem[c]
  BY DEF Learns, PictureCurrent
<1> QED
  BY <1>1, <1>2, <1>3 DEF PictureCurrent

LEMMA DoubtsTyped ==
  ASSUME TypeOK, NEW names, Doubts(names)
  PROVE  /\ hostRegs' \in [Regs -> Vals \cup {Unsure}]
         /\ hostMem' \in [Memory -> Vals \cup {Unsure}]
BY DEF Doubts, TypeOK

LEMMA PictureDoubts ==
  ASSUME TypeOK, PictureCurrent, mode = "halted", NEW names, Doubts(names),
         \A r \in Regs \ names : regs'[r] = regs[r],
         \A c \in Memory \ names : mem'[c] = mem[c]
  PROVE  PictureCurrent'
<1>1. \A r \in Regs : hostRegs'[r] # Unsure => hostRegs'[r] = regs'[r]
  BY DEF Doubts, PictureCurrent
<1>2. \A c \in Memory : hostMem'[c] # Unsure => hostMem'[c] = mem'[c]
  BY DEF Doubts, PictureCurrent
<1> QED
  BY <1>1, <1>2 DEF PictureCurrent

\* A write of memory reaches what it names and nothing else, and all of it when
\* no byte is refused.
LEMMA WrittenIs ==
  ASSUME NEW cells \in CellLists
  PROVE  /\ Written(cells) \subseteq Named(cells)
         /\ Named(cells) \subseteq Kernel \cup {Top} => Written(cells) = Named(cells)
<1>1. Written(cells) \subseteq Named(cells)
  BY DEF Written, Named
<1>2. DOMAIN cells \subseteq Nat /\ \A j \in DOMAIN cells : 1 .. j \subseteq DOMAIN cells
  BY DEF CellLists
<1>3. ASSUME Named(cells) \subseteq Kernel \cup {Top}
      PROVE  Named(cells) \subseteq Written(cells)
  <2>1. \A k \in DOMAIN cells : cells[k] \in Kernel \cup {Top}
    BY <1>3 DEF Named
  <2> QED
    BY <1>2, <2>1 DEF Named, Written
<1> QED
  BY <1>1, <1>3

\* Every step keeps SessionInv.
LEMMA NextSession == SessionInv /\ [Next]_trapVars => SessionInv'
<1> SUFFICES ASSUME TypeOK, LockFollowsSession, PictureCurrent, [Next]_trapVars
             PROVE  TypeOK' /\ LockFollowsSession' /\ PictureCurrent'
  BY DEF SessionInv
<1> USE DEF LockFollowsSession
<1>1. CASE Execute
  <2>1. PICK res \in Results : prog' = res[1] /\ mem' = res[2]
    BY <1>1 DEF Execute
  <2>2. prog' \in [CpuRegs -> Vals] /\ mem' \in [Memory -> Vals]
    BY <2>1, ResultsTyped
  <2>3. ran' \in 0 .. 2
    BY <1>1 DEF Execute, TypeOK, Counted
  <2>4. TypeOK'
    BY <1>1, <2>2, <2>3 DEF Execute, TypeOK, host
  <2> QED
    BY <1>1, <2>4 DEF Execute, PictureCurrent
<1>2. ASSUME NEW vec \in {1, 3, 14}, NEW p \in [CpuRegs -> Vals], NEW m \in [Memory -> Vals],
             mode = "run", TrapIn(vec, p, m), prog' = p, mem' = m, tf' = tf
      PROVE  TypeOK' /\ LockFollowsSession' /\ PictureCurrent'
  <2>1. /\ mode' = "halted" /\ lock' = 1 /\ ctx' = "frame" /\ junk' = FALSE
        /\ frame' \in Contexts
        /\ regs' \in [Regs -> Vals] /\ hostRegs' = regs' /\ hostMem' = m
        /\ cmd' = None /\ ran' = 0
    BY <1>2, TrapOpensSession
  <2>2. PictureCurrent'
    BY <1>2, <2>1 DEF PictureCurrent
  <2>3. /\ hostRegs' \in [Regs -> Vals \cup {Unsure}]
        /\ hostMem' \in [Memory -> Vals \cup {Unsure}]
    BY <2>1
  <2>4. ran' \in 0 .. 2 /\ tf' \in BOOLEAN /\ junk' \in BOOLEAN
    <3>1. ran' \in 0 .. 2
      BY <2>1
    <3>2. tf' \in BOOLEAN
      BY <1>2 DEF TypeOK
    <3>3. junk' \in BOOLEAN
      BY <2>1
    <3> QED
      BY <3>1, <3>2, <3>3
  <2>5. TypeOK'
    BY <1>2, <2>1, <2>3, <2>4 DEF TypeOK
  <2> QED
    BY <2>1, <2>2, <2>5
<1>3. CASE ExecuteAndTrap
  <2>1. PICK res \in Results : prog' = res[1] /\ mem' = res[2] /\ TrapIn(1, res[1], res[2])
    BY <1>3 DEF ExecuteAndTrap
  <2>2. res[1] \in [CpuRegs -> Vals] /\ res[2] \in [Memory -> Vals]
    BY ResultsTyped
  <2>3. mode = "run" /\ tf' = tf
    BY <1>3 DEF ExecuteAndTrap
  <2> QED
    BY <1>2, <2>1, <2>2, <2>3
<1>4. CASE Breakpoint
  BY <1>2, <1>4 DEF Breakpoint, cpu, TypeOK
<1>5. CASE Fault
  BY <1>2, <1>5 DEF Fault, cpu, TypeOK
<1>6. ASSUME NEW names \in Requests, Read(names)
      PROVE  TypeOK' /\ LockFollowsSession' /\ PictureCurrent'
  <2>1. /\ mode = "halted" /\ Learns(names)
        /\ UNCHANGED <<mode, cpu, mem, frame, ctx, lock, regs, cmd, ran, junk>>
    BY <1>6 DEF Read, Serving
  <2>2. /\ hostRegs' \in [Regs -> Vals \cup {Unsure}]
        /\ hostMem' \in [Memory -> Vals \cup {Unsure}]
        /\ PictureCurrent'
    BY <2>1, PictureLearns
  <2> QED
    BY <2>1, <2>2 DEF TypeOK, cpu
<1>7. CASE ReadUnmapped
  BY <1>7 DEF ReadUnmapped, Nested, TypeOK, cpu, host, PictureCurrent
<1>8. ASSUME NEW r \in Regs, NEW v \in Vals, WriteReg(r, v)
      PROVE  TypeOK' /\ LockFollowsSession' /\ PictureCurrent'
  <2>1. /\ mode = "halted" /\ regs' = [regs EXCEPT ![r] = v]
        /\ hostRegs' = [hostRegs EXCEPT ![r] = v]
        /\ UNCHANGED <<mode, cpu, mem, frame, ctx, lock, cmd, ran, junk, hostMem>>
    BY <1>8 DEF WriteReg, Serving
  <2>2. regs' \in [Regs -> Vals] /\ hostRegs' \in [Regs -> Vals \cup {Unsure}]
    BY <2>1 DEF TypeOK
  <2>3. \A q \in Regs : hostRegs'[q] # Unsure => hostRegs'[q] = regs'[q]
    BY <2>1 DEF TypeOK, PictureCurrent
  <2>4. PictureCurrent'
    BY <2>1, <2>3 DEF PictureCurrent
  <2> QED
    BY <2>1, <2>2, <2>4 DEF TypeOK, cpu
<1>9. ASSUME NEW new \in [Regs -> Vals], WriteRegs(new)
      PROVE  TypeOK' /\ LockFollowsSession' /\ PictureCurrent'
  <2>1. /\ mode = "halted" /\ regs' = new /\ hostRegs' = new
        /\ UNCHANGED <<mode, cpu, mem, frame, ctx, lock, cmd, ran, junk, hostMem>>
    BY <1>9 DEF WriteRegs, Serving
  <2>2. hostRegs' \in [Regs -> Vals \cup {Unsure}]
    BY <2>1
  <2>3. PictureCurrent'
    BY <2>1 DEF PictureCurrent
  <2> QED
    BY <2>1, <2>2, <2>3 DEF TypeOK, cpu
<1>10. ASSUME NEW cells \in CellLists, NEW v \in Vals, WriteMem(cells, v)
       PROVE  TypeOK' /\ LockFollowsSession' /\ PictureCurrent'
  <2>1. /\ mode = "halted"
        /\ mem' = [c \in Memory |-> IF c \in Written(cells) THEN v ELSE mem[c]]
        /\ UNCHANGED <<mode, cpu, frame, ctx, lock, regs, cmd, ran, junk>>
    BY <1>10 DEF WriteMem, Serving
  <2>2. mem' \in [Memory -> Vals]
    BY <2>1 DEF TypeOK
  <2>3. CASE ~(Named(cells) \subseteq Kernel \cup {Top})
    <3>1. Doubts(Named(cells))
      BY <1>10, <2>3 DEF WriteMem
    <3>2. \A c \in Memory \ Named(cells) : mem'[c] = mem[c]
      BY <2>1, WrittenIs
    <3>3. PictureCurrent'
      BY <2>1, <3>1, <3>2, PictureDoubts
    <3> QED
      BY <2>1, <2>2, <3>1, <3>3, DoubtsTyped DEF TypeOK, cpu
  <2>4. CASE Named(cells) \subseteq Kernel \cup {Top}
    <3>1. /\ hostMem' = [c \in Memory |-> IF c \in Named(cells) THEN v ELSE hostMem[c]]
          /\ hostRegs' = hostRegs
      BY <1>10, <2>4 DEF WriteMem
    <3>2. hostMem' \in [Memory -> Vals \cup {Unsure}]
      BY <3>1 DEF TypeOK
    <3>3. Written(cells) = Named(cells)
      BY <2>4, WrittenIs
    <3>4. \A c \in Memory : hostMem'[c] # Unsure => hostMem'[c] = mem'[c]
      BY <2>1, <3>1, <3>3 DEF PictureCurrent
    <3>5. PictureCurrent'
      BY <2>1, <3>1, <3>4 DEF PictureCurrent
    <3> QED
      BY <2>1, <2>2, <3>1, <3>2, <3>5 DEF TypeOK, cpu
  <2> QED
    BY <2>3, <2>4
<1>11. ASSUME NEW names \in Requests, Refuse(names)
       PROVE  TypeOK' /\ LockFollowsSession' /\ PictureCurrent'
  <2>1. /\ mode = "halted" /\ Doubts(names)
        /\ UNCHANGED <<mode, cpu, mem, frame, ctx, lock, regs, cmd, ran, junk>>
    BY <1>11 DEF Refuse, Serving
  <2>2. PictureCurrent'
    BY <2>1, PictureDoubts
  <2> QED
    BY <2>1, <2>2, DoubtsTyped DEF TypeOK, cpu
<1>12. ASSUME NEW names \in Requests, JunkWrite(names)
       PROVE  TypeOK' /\ LockFollowsSession' /\ PictureCurrent'
  <2>1. /\ mode = "halted" /\ ctx' = "dead" /\ junk' = TRUE /\ Doubts(names)
        /\ regs' \in Decoded(names)
        /\ UNCHANGED <<mode, cpu, mem, frame, lock, cmd, ran>>
    BY <1>12 DEF JunkWrite, Nested, Serving
  <2>2. regs' \in [Regs -> Vals] /\ \A r \in Regs \ names : regs'[r] = regs[r]
    BY <2>1 DEF Decoded
  <2>3. PictureCurrent'
    BY <2>1, <2>2, PictureDoubts
  <2>4. junk' \in BOOLEAN
    BY <2>1
  <2> QED
    BY <2>1, <2>2, <2>3, <2>4, DoubtsTyped DEF TypeOK, cpu
<1>13. ASSUME NEW c \in {"c", "s", "eof"}, Resume(c)
       PROVE  TypeOK' /\ LockFollowsSession' /\ PictureCurrent'
  <2>1. frame.regs \in [CpuRegs -> Vals] /\ frame.tf \in BOOLEAN
    BY DEF TypeOK, Contexts
  <2>2. prog' \in [CpuRegs -> Vals]
    BY <1>13, <2>1 DEF Resume, Restored, TypeOK, CpuRegs, Regs
  <2>3. tf' \in BOOLEAN
    BY <1>13, <2>1 DEF Resume, FlagAfter
  <2>4. mem' \in [Memory -> Vals]
    BY <1>13 DEF Resume, TypeOK, Memory, Regs
  <2>5. mode' \in {"run", "hung"} /\ lock' = 0
    BY <1>13 DEF Resume, Unlock
  <2>6. mem'[Top] \in Vals /\ regs' = Loaded(prog', mem')
    BY <1>13, <2>4 DEF Resume, Memory
  <2>7. regs' \in [Regs -> Vals]
    BY <2>2, <2>6 DEF Loaded, Regs
  <2>8. Doubts(Regs \cup Memory) /\ ran' = 0 /\ cmd' = c /\ ctx' = "dead"
    BY <1>13 DEF Resume
  <2>9. ran' \in 0 .. 2
    BY <2>8
  <2>10. TypeOK'
    BY <1>13, <2>2, <2>3, <2>4, <2>5, <2>7, <2>8, <2>9, DoubtsTyped DEF Resume, TypeOK
  <2> QED
    BY <2>5, <2>10 DEF PictureCurrent
<1>14. CASE Hung
  BY <1>14 DEF Hung, trapVars, TypeOK, PictureCurrent
<1>15. CASE UNCHANGED trapVars
  BY <1>15 DEF trapVars, TypeOK, PictureCurrent
<1> QED
  BY <1>1, <1>3, <1>4, <1>5, <1>6, <1>7, <1>8, <1>9, <1>10, <1>11, <1>12, <1>13, <1>14, <1>15
  DEF Next, Continue, Step, Abandon

\* SessionInv holds in every state.
LEMMA SessionInvariant == Spec => []SessionInv
BY InitSession, NextSession, PTL DEF Spec

\* Modes, registers, memory and contexts are well formed in every state.
THEOREM TypeCorrect == Spec => []TypeOK
<1>1. SessionInv => TypeOK
  BY DEF SessionInv
<1> QED
  BY <1>1, SessionInvariant, PTL

\* gdb_lock is taken exactly while the stub serves the host, whatever packets
\* arrive, well formed or not, and however the session ends.
THEOREM LockCorrect == Spec => []LockFollowsSession
<1>1. SessionInv => LockFollowsSession
  BY DEF SessionInv
<1> QED
  BY <1>1, SessionInvariant, PTL

\* In a session the stub holds what the trap found and the writes it answered OK,
\* but for what a write answered with an error named and nobody read since.
THEOREM PictureCorrect == Spec => []PictureCurrent
<1>1. SessionInv => PictureCurrent
  BY DEF SessionInv
<1> QED
  BY <1>1, SessionInvariant, PTL

-----------------------------------------------------------------------------
\* The program leaves a session only by a return of gdb_main().
LEMMA OnlyResumeRuns ==
  ASSUME TypeOK, Next, mode = "halted", mode' = "run"
  PROVE  \E c \in {"c", "s", "eof"} : Resume(c)
<1>1. ~Execute /\ ~ExecuteAndTrap /\ ~Breakpoint /\ ~Fault /\ ~Hung
  BY DEF Execute, ExecuteAndTrap, Breakpoint, Fault, Hung
<1>2. /\ ~ReadUnmapped
      /\ \A names \in Requests : ~Read(names) /\ ~Refuse(names) /\ ~JunkWrite(names)
  BY DEF Read, ReadUnmapped, Refuse, JunkWrite
<1>3. \A r \in Regs, v \in Vals : ~WriteReg(r, v)
  BY DEF WriteReg
<1>4. \A new \in [Regs -> Vals] : ~WriteRegs(new)
  BY DEF WriteRegs
<1>5. \A cells \in CellLists, v \in Vals : ~WriteMem(cells, v)
  BY DEF WriteMem
<1>6. Continue \/ Step \/ Abandon
  BY <1>1, <1>2, <1>3, <1>4, <1>5 DEF Next
<1> QED
  BY <1>6 DEF Continue, Step, Abandon

\* A return of gdb_main() gives the program the host's picture.
LEMMA ResumeGivesPicture ==
  ASSUME SessionInv, mode = "halted",
         NEW c \in {"c", "s", "eof"}, Resume(c)
  PROVE  /\ \A r \in GenRegs : hostRegs[r] # Unsure => prog'[r] = hostRegs[r]
         /\ \A r \in {"esp", "ps"} : prog'[r] = frame.regs[r]
         /\ \A cell \in Cells : hostMem[cell] # Unsure => mem'[cell] = hostMem[cell]
         /\ hostRegs["ss"] # Unsure => mem'[Top] = hostRegs["ss"]
<1>1. /\ \A r \in Regs : hostRegs[r] # Unsure => hostRegs[r] = regs[r]
      /\ \A cell \in Memory : hostMem[cell] # Unsure => hostMem[cell] = mem[cell]
  BY DEF SessionInv, PictureCurrent
<1>2. prog' = [r \in CpuRegs |-> IF r \in GenRegs THEN regs[r] ELSE frame.regs[r]]
  BY DEF Resume, Restored
<1>3. "esp" \notin GenRegs /\ "ps" \notin GenRegs
  BY GdbTrapAssumption
<1>4. mem' = [mem EXCEPT ![Top] = regs["ss"]]
  BY DEF Resume
<1>5. Top \notin Cells
  BY GdbTrapAssumption DEF Top
<1>6. /\ \A cell \in Cells : mem'[cell] = mem[cell]
      /\ mem'[Top] = regs["ss"]
  BY <1>4, <1>5 DEF SessionInv, TypeOK, Memory
<1>7. GenRegs \cup {"ss"} \subseteq Regs /\ Cells \subseteq Memory
  BY DEF Regs, CpuRegs, Memory
<1> QED
  BY <1>1, <1>2, <1>3, <1>6, <1>7 DEF CpuRegs

\* The program goes on with what it had at the trap and the writes answered OK,
\* whatever packets were sent and whatever went wrong with them, but for what the
\* host is unsure of; ESP and the flags stay its own.
THEOREM PictureResumes == Spec => HostPictureResumes
<1> DEFINE Goes == mode = "halted" /\ mode' = "run" =>
                     /\ \A r \in GenRegs : hostRegs[r] # Unsure => prog'[r] = hostRegs[r]
                     /\ \A r \in {"esp", "ps"} : prog'[r] = frame.regs[r]
                     /\ \A c \in Cells : hostMem[c] # Unsure => mem'[c] = hostMem[c]
                     /\ hostRegs["ss"] # Unsure => mem'[Top] = hostRegs["ss"]
<1>1. SessionInv /\ [Next]_trapVars => [Goes]_trapVars
  <2> SUFFICES ASSUME SessionInv, Next, mode = "halted", mode' = "run" PROVE Goes
    BY DEF trapVars
  <2>1. PICK c \in {"c", "s", "eof"} : Resume(c)
    BY OnlyResumeRuns DEF SessionInv
  <2> QED
    BY <2>1, ResumeGivesPicture
<1> QED
  BY <1>1, SessionInvariant, PTL DEF Spec, HostPictureResumes

-----------------------------------------------------------------------------
\* As long as no packet is malformed nothing traps inside a session but a read
\* that does not return, and the program obeys the command that resumed it.
LEMMA NextStep == StepInv /\ [Next]_trapVars => StepInv'
<1> SUFFICES ASSUME StepInv, [Next]_trapVars
             PROVE  ContextKept' /\ ResumeObeyed'
  BY NextSession DEF StepInv
<1> USE DEF ContextKept, ContextLive, ResumeObeyed
<1>0. TypeOK /\ LockFollowsSession /\ ContextKept /\ ResumeObeyed
  BY DEF StepInv, SessionInv
<1>1. CASE Execute
  <2>1. mode = "run" /\ mode' = "run" /\ ~tf /\ UNCHANGED <<tf, cmd, junk>>
    BY <1>1 DEF Execute
  <2>2. cmd # "s" \/ junk
    BY <1>0, <2>1
  <2> QED
    BY <2>1, <2>2
<1>2. ASSUME NEW vec, NEW p, NEW m, mode = "run", TrapIn(vec, p, m)
      PROVE  ContextKept' /\ ResumeObeyed'
  <2>1. lock = 0
    BY <1>0, <1>2 DEF LockFollowsSession
  <2>2. mode' = "halted" /\ ctx' = "frame"
    BY <1>2, <2>1 DEF TrapIn
  <2> QED
    BY <2>2
<1>3. CASE ExecuteAndTrap
  BY <1>2, <1>3 DEF ExecuteAndTrap
<1>4. CASE Breakpoint \/ Fault
  BY <1>2, <1>4 DEF Breakpoint, Fault
<1>5. CASE \E names \in Requests : Read(names) \/ Refuse(names)
  BY <1>0, <1>5 DEF Read, Refuse, Serving
<1>6. CASE ReadUnmapped
  BY <1>6 DEF ReadUnmapped
<1>7. CASE \E r \in Regs, v \in Vals : WriteReg(r, v)
  BY <1>0, <1>7 DEF WriteReg, Serving
<1>8. CASE \E new \in [Regs -> Vals] : WriteRegs(new)
  BY <1>0, <1>8 DEF WriteRegs, Serving
<1>9. CASE \E cells \in CellLists, v \in Vals : WriteMem(cells, v)
  BY <1>0, <1>9 DEF WriteMem, Serving
<1>10. CASE \E names \in Requests : JunkWrite(names)
  BY <1>10 DEF JunkWrite
<1>11. ASSUME NEW c \in {"c", "s", "eof"}, Resume(c)
       PROVE  ContextKept' /\ ResumeObeyed'
  <2>1. mode' \in {"run", "hung"} /\ cmd' = c /\ ran' = 0 /\ junk' = junk
    BY <1>11 DEF Resume
  <2>2. tf' = FlagAfter(c)
    BY <1>11 DEF Resume
  <2>3. ~junk => ctx = "frame"
    BY <1>0, <1>11 DEF Resume, Serving
  <2>4. ~junk => /\ c = "s" => FlagAfter(c)
                 /\ c = "c" => ~FlagAfter(c)
    BY <2>3 DEF FlagAfter
  <2> QED
    BY <2>1, <2>2, <2>4
<1>12. CASE Hung \/ UNCHANGED trapVars
  BY <1>0, <1>12 DEF Hung, trapVars
<1> QED
  BY <1>1, <1>3, <1>4, <1>5, <1>6, <1>7, <1>8, <1>9, <1>10, <1>11, <1>12
  DEF Next, Continue, Step, Abandon

\* StepInv holds in every state.
LEMMA StepInvariant == Spec => []StepInv
<1>1. Init => StepInv
  BY InitSession DEF StepInv, Init, ContextKept, ContextLive, ResumeObeyed, None
<1> QED
  BY <1>1, NextStep, PTL DEF Spec

\* current_context is live in every session, until a packet is malformed.
THEOREM ContextCorrect == Spec => []ContextKept
<1>1. StepInv => ContextKept
  BY DEF StepInv
<1> QED
  BY <1>1, StepInvariant, PTL

\* A step runs one instruction and a continue none that traps, for any sequence
\* of commands, unless the session received a malformed packet.
THEOREM ResumeCorrect == Spec => []ResumeObeyed
<1>1. StepInv => ResumeObeyed
  BY DEF StepInv
<1> QED
  BY <1>1, StepInvariant, PTL
=============================================================================
