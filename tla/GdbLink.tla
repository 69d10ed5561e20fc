------------------------------- MODULE GdbLink -------------------------------
(***************************************************************************)
(* The serial line between the host's debugger and the gdb stub            *)
(* (gdb-stub/gdbstub.c), character by character where the stub reads       *)
(* single characters: gdb_recv_packet() hunts for '$', collects up to '#', *)
(* reads two checksum digits, verifies, acknowledges; gdb_main() executes  *)
(* the command and gdb_send_packet() answers and takes one character as    *)
(* the acknowledgement.  The stub never retransmits and has no timeout.    *)
(* The line (the UART) and the host are external: the host sends one       *)
(* command at a time, waits for '+', sends again on '-' or a timeout, and  *)
(* acknowledges the reply.  Noise drops or damages characters, in either   *)
(* direction into any character: nothing protects '+' and '-', which the   *)
(* stub sends bare.                                                        *)
(* What the commands do is modelled by GdbTrap; whatever they write, they  *)
(* answer once, except c and s, which are answered by the next trap.       *)
(***************************************************************************)
EXTENDS Integers, Sequences

CONSTANTS Queries,     \* commands with an immediate reply: g G p P m M X ? ...
          Resumes,     \* c and s
          BufLen,      \* sizeof(pkt_buf), in characters of the model
          MaxNoise,    \* bound: characters lost or damaged
          MaxTraffic   \* bound: characters on their way to the host

Empty == "empty"                 \* the packet with no data
Stop  == "stop"                  \* the signal packet S AA of gdb_main()'s start

ASSUME GdbLinkAssumption ==
  /\ Queries \cap Resumes = {}
  /\ (Queries \cup Resumes) \cap {Empty, Stop} = {}
  /\ BufLen \in Nat \ {0} /\ MaxNoise \in Nat /\ MaxTraffic \in Nat \ {0}

Cmds  == Queries \cup Resumes \cup {Empty}

\* Characters: the four that steer the stub, a damaged one, the data of a
\* command (its characters taken as one) and the two digits of its checksum.
Plus == <<"+">>  Minus == <<"-">>  Dollar == <<"$">>  Hash == <<"#">>  Junk == <<"junk">>
Controls == {Plus, Minus, Dollar, Hash, Junk}
Data(c)   == IF c = Empty THEN <<>> ELSE << <<"data", c>> >>
Digits(c) == << <<"hi", c>>, <<"lo", c>> >>
Packet(c) == <<Dollar>> \o Data(c) \o <<Hash>> \o Digits(c)
Reply(c)  == <<"reply", c>>
Chars     == Controls \cup {<<k, c>> : k \in {"data", "hi", "lo"}, c \in Cmds}
HostChars == {Plus, Minus, Junk} \cup {Reply(c) : c \in Cmds \cup {Stop}}

VARIABLES toStub, toHost,   \* the characters under way in each direction
          pc,               \* "run", "ack", "sync", "data" or "sum"
          body,             \* pkt_buf
          digits,           \* the buf of gdb_recv_packet()
          host,             \* <<what the host does, for which command>>
          times,            \* how often its command was executed, up to 2
          noise,            \* noise so far
          forged            \* history: since the host last asked on a quiet line,
                            \* noise made a '+' or '-' of something else it hears

stub == <<pc, body, digits>>
linkVars == <<toStub, toHost, pc, body, digits, host, times, noise, forged>>

\* The host is attached and waits for the breakpoint of gdb_init().
Init == /\ toStub = <<>> /\ toHost = <<>>
        /\ pc = "run" /\ body = <<>> /\ digits = <<>>
        /\ host = <<"reply", Stop>> /\ times = 1 /\ noise = 0 /\ forged = FALSE

-----------------------------------------------------------------------------
\* The stub: each action but Trap consumes one character.
Arrived(state) == pc = state /\ toStub # <<>>
Char == Head(toStub)

\* The program traps: gdb_main() starts and sends the signal packet.
Trap == /\ pc = "run" /\ Len(toHost) < MaxTraffic
        /\ pc' = "ack"
        /\ toHost' = Append(toHost, Reply(Stop))
        /\ UNCHANGED <<toStub, body, digits, host, times, noise, forged>>

\* Mutant: wait until '+' comes.
RecvAckWaits == /\ Arrived("ack")
                /\ pc' = IF Char = Plus THEN "sync" ELSE "ack"
                /\ toStub' = Tail(toStub)
                /\ UNCHANGED <<toHost, body, digits, host, times, noise, forged>>

\* gdb_recv_ack(): whatever comes is taken for the answer, no caller looks at it.
RecvAck == /\ Arrived("ack")
           /\ pc' = "sync"
           /\ toStub' = Tail(toStub)
           /\ UNCHANGED <<toHost, body, digits, host, times, noise, forged>>

Sync == /\ Arrived("sync")
        /\ pc' = IF Char = Dollar THEN "data" ELSE "sync"
        /\ body' = <<>> /\ digits' = <<>>
        /\ toStub' = Tail(toStub)
        /\ UNCHANGED <<toHost, host, times, noise, forged>>

\* Mutant: one character more than pkt_buf holds is stored.
FullOffByOne == Len(body) > BufLen

Full == Len(body) >= BufLen

\* A full pkt_buf ends gdb_recv_packet() and with it gdb_main(), without '-'.
Collect == /\ Arrived("data")
           /\ toStub' = Tail(toStub)
           /\ IF Char = Hash THEN pc' = "sum" /\ body' = body
              ELSE IF Full THEN pc' = "run" /\ body' = body
              ELSE pc' = "data" /\ body' = Append(body, Char)
           /\ UNCHANGED <<toHost, digits, host, times, noise, forged>>

\* gdb_read(): 0xff, one of the damaged characters, ends it at once.
FirstDigit == /\ Arrived("sum") /\ digits = <<>>
              /\ \/ digits' = <<Char>> /\ pc' = "sum"
                 \/ Char = Junk /\ pc' = "run" /\ UNCHANGED digits
              /\ toStub' = Tail(toStub)
              /\ UNCHANGED <<toHost, body, host, times, noise, forged>>

\* Mutant: '+' goes out whether or not the checksum matches.
AnswerAlways(ok) == Append(toHost, Plus)

\* gdb_sys_putchar() of '+' or '-'
Answer(ok) == Append(toHost, IF ok THEN Plus ELSE Minus)

\* Mutants: an empty packet ends the session; c and s are not acknowledged, for
\* they send no reply; c and s are answered at once.
EmptyEnds(c) ==
  CASE c \in Queries -> pc' = "ack" /\ toHost' = Append(Answer(TRUE), Reply(c))
    [] OTHER         -> pc' = "run" /\ toHost' = Answer(TRUE)
ResumeSilent(c) ==
  CASE c \in Resumes -> pc' = "run" /\ toHost' = toHost
    [] c \in Queries -> pc' = "ack" /\ toHost' = Append(Answer(TRUE), Reply(c))
    [] OTHER         -> pc' = "sync" /\ toHost' = Answer(TRUE)
ResumeAnswered(c) ==
  CASE c \in Resumes -> pc' = "run" /\ toHost' = Append(Answer(TRUE), Reply(c))
    [] c \in Queries -> pc' = "ack" /\ toHost' = Append(Answer(TRUE), Reply(c))
    [] OTHER         -> pc' = "sync" /\ toHost' = Answer(TRUE)

\* What gdb_main() does with a packet it acknowledged: an empty one is skipped,
\* c and s return to the program, the others are answered.
AfterExecute(c) ==
  CASE c \in Resumes -> pc' = "run" /\ toHost' = Answer(TRUE)
    [] c \in Queries -> pc' = "ack" /\ toHost' = Append(Answer(TRUE), Reply(c))
    [] OTHER         -> pc' = "sync" /\ toHost' = Answer(TRUE)

\* Mutant: the checksum is read and not compared with the data.
MatchesData(c, d) == body = Data(c)

\* The checksum is taken to tell the packets of the host from any others.
Matches(c, d) == body = Data(c) /\ d = Digits(c)

Execute(c) == /\ Arrived("sum") /\ Len(digits) = 1
              /\ Matches(c, Append(digits, Char))
              /\ AfterExecute(c)
              /\ times' = IF times < 2 THEN times + 1 ELSE times
              /\ toStub' = Tail(toStub)
              /\ UNCHANGED <<body, digits, host, noise, forged>>

\* Two digits that do not match are answered '-'; a character that is no
\* digit (data may look like one) is not.  Either way gdb_main() returns.
MaybeDigit(ch) == ch \notin Controls
Refuse == /\ Arrived("sum") /\ Len(digits) = 1
          /\ \A c \in Cmds : ~Matches(c, Append(digits, Char))
          /\ \/ MaybeDigit(digits[1]) /\ MaybeDigit(Char) /\ toHost' = Answer(FALSE)
             \/ toHost' = toHost /\ \E ch \in {digits[1], Char} : ch[1] \notin {"hi", "lo"}
          /\ pc' = "run"
          /\ toStub' = Tail(toStub)
          /\ UNCHANGED <<body, digits, host, times, noise, forged>>

StubReads == \/ RecvAck \/ Sync \/ Collect \/ FirstDigit \/ Refuse
             \/ \E c \in Cmds : Execute(c)

-----------------------------------------------------------------------------
\* The host.
Sends(chars) == toStub' = toStub \o chars

\* Nothing under way: the host's timeout is longer than the line and the stub take.
Quiet == toStub = <<>> /\ toHost = <<>>

\* Acknowledgements that noise forged are forgotten on a quiet line.
SendCommand(c) == /\ host[1] = "idle"
                  /\ host' = <<"ack", c>> /\ times' = 0
                  /\ Sends(Packet(c))
                  /\ forged' = (forged /\ ~Quiet)
                  /\ UNCHANGED <<stub, toHost, noise>>

Heard == toHost # <<>>

\* Waiting for '+': '-' sends the command again, anything else is ignored.
HearAck ==
  /\ host[1] = "ack" /\ Heard
  /\ toHost' = Tail(toHost)
  /\ \/ /\ Head(toHost) = Plus
        /\ host' = IF host[2] = Empty THEN <<"idle", Empty>>
                   ELSE <<"reply", IF host[2] \in Resumes THEN Stop ELSE host[2]>>
        /\ UNCHANGED toStub
     \/ Head(toHost) = Minus /\ Sends(Packet(host[2])) /\ UNCHANGED host
     \/ Head(toHost) \notin {Plus, Minus} /\ UNCHANGED <<toStub, host>>
  /\ UNCHANGED <<stub, times, noise, forged>>

\* Waiting for a packet (it never comes unasked for): it is acknowledged, a damaged one with '-'.
HearReply ==
  /\ host[1] = "reply" /\ Heard
  /\ toHost' = Tail(toHost)
  /\ \/ Head(toHost)[1] = "reply" /\ Sends(<<Plus>>) /\ host' = <<"idle", host[2]>>
     \/ Head(toHost) = Junk /\ Sends(<<Minus>>) /\ UNCHANGED host
     \/ Head(toHost) \in {Plus, Minus} /\ UNCHANGED <<toStub, host>>
  /\ UNCHANGED <<stub, times, noise, forged>>

HostReads == HearAck \/ HearReply

\* The host's timeout: it sends a command again, or gives a reply up.
Timeout == /\ Quiet
           /\ \/ host[1] = "ack" /\ Sends(Packet(host[2])) /\ UNCHANGED host
              \/ /\ host[1] = "reply" /\ host[2] # Stop
                 /\ Sends(<<Minus>>) /\ host' = <<"idle", host[2]>>
           /\ UNCHANGED <<stub, toHost, times, noise, forged>>

-----------------------------------------------------------------------------
Noise == noise < MaxNoise /\ noise' = noise + 1

\* What a damaged character can look like.
Damaged == Controls \cup {<<"data", c>> : c \in Queries \cup Resumes}

DisturbStub == /\ Noise /\ toStub # <<>>
               /\ \/ toStub' = Tail(toStub)
                  \/ \E ch \in Damaged \ {Char} : toStub' = <<ch>> \o Tail(toStub)
               /\ UNCHANGED <<toHost, stub, host, times, forged>>

\* A packet that is damaged is no packet any more; '+' and '-' are as good as
\* any other character.
DamagedToHost == {Plus, Minus, Junk}

DisturbHost == /\ Noise /\ toHost # <<>>
               /\ \/ toHost' = Tail(toHost) /\ UNCHANGED forged
                  \/ \E ch \in DamagedToHost \ {Head(toHost)} :
                       /\ toHost' = <<ch>> \o Tail(toHost)
                       /\ forged' = (forged \/ ch \in {Plus, Minus})
               /\ UNCHANGED <<toStub, stub, host, times>>

Next == \/ Trap \/ StubReads
        \/ \E c \in Cmds : SendCommand(c)
        \/ HostReads \/ Timeout
        \/ DisturbStub \/ DisturbHost

\* The stub polls and the host reads until they have what waits for them; the
\* host's timer runs out in the end.  Nothing makes the program trap, the host
\* send, or the noise come.
Fairness == WF_linkVars(StubReads) /\ WF_linkVars(HostReads) /\ WF_linkVars(Timeout)

Spec == Init /\ [][Next]_linkVars /\ Fairness

-----------------------------------------------------------------------------
\* The line, the stub's buffers and the host's state are well formed.
TypeOK == /\ toStub \in Seq(Chars)
          /\ toHost \in Seq(HostChars)
          /\ pc \in {"run", "ack", "sync", "data", "sum"}
          /\ body \in Seq(Chars) /\ Len(body) <= BufLen
          /\ digits \in Seq(Chars) /\ Len(digits) <= 1
          /\ host[1] \in {"idle", "ack", "reply"} /\ host[2] \in Cmds \cup {Stop}
          /\ times \in 0 .. 2 /\ noise \in 0 .. MaxNoise /\ forged \in BOOLEAN

\* On a line without noise each command is executed once, neither skipped by
\* the hunt for '$' nor run twice, before the host takes it for done.
ExecutedOnce == noise = 0 => /\ times <= 1
                             /\ host[1] # "ack" => times = 1

\* On a line without noise the program goes on only when the host told it to: at
\* every other time the stub holds it stopped.
StoppedUntilTold == noise = 0 =>
  (pc = "run" => \/ host[1] = "reply" /\ host[2] = Stop
                 \/ host[1] = "ack" /\ host[2] \in Resumes /\ times = 1)

\* Whatever is lost or damaged, unless it is damaged into an acknowledgement:
\* the stub executes no command but the one the host is asking for; nothing is put
\* together from parts of two packets or left over from an earlier one.  (That a
\* packet damaged on its way does not match is what Matches takes for granted.)
OnlyWhatIsAsked ==
  [][\A c \in Cmds : Execute(c) /\ ~forged => host[2] = c]_linkVars

\* Whatever is lost or damaged, a '+' that noise did not forge tells the truth:
\* the host waits for the reply only of a command that was executed.  What a forged
\* '+' or '-' brings out of step is in step again when the line has been quiet.
AcknowledgedIsDone == ~forged /\ host[1] = "reply" => times > 0

\* Whatever is lost or damaged, unless it is damaged into an acknowledgement: the
\* packet the host takes for the answer answers its command, not an earlier one.
ReplyAnswersCommand ==
  ~forged /\ host[1] = "reply" /\ Heard /\ Head(toHost)[1] = "reply" =>
    Head(toHost)[2] = host[2]

\* A host that waits does not wait for ever while the stub holds the program:
\* its command is executed and answered or given up, or the program runs.  On a
\* line with noise this is not so for the signal packet of a trap: the stub
\* sends it once, and the host has no time limit for it.
HostIsHeard ==
  host[1] # "idle" ~> \/ host[1] = "idle"
                      \/ pc = "run"
                      \/ noise > 0 /\ host = <<"reply", Stop>>
=============================================================================
