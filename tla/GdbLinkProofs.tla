---------------------------- MODULE GdbLinkProofs ----------------------------
(***************************************************************************)
(* Proofs about GdbLink, for every set of commands and every size of the   *)
(* stub's buffer.  On a line without noise each command is executed once,  *)
(* and the program goes on only when it is told to.  On a line with noise, *)
(* however much of it, unless the noise forges an acknowledgement: a '+'   *)
(* tells the truth, the reply the host takes answers its command, and the  *)
(* stub executes nothing else than the command the host is asking for.     *)
(***************************************************************************)
EXTENDS GdbLink, TLAPS, SequenceTheorems

Hi(c) == <<"hi", c>>
Lo(c) == <<"lo", c>>

\* What is left of a packet, from each of its characters on.
FromHash(c) == <<Hash, Hi(c), Lo(c)>>
FromData(c) == IF c = Empty THEN FromHash(c) ELSE <<<<"data", c>>, Hash, Hi(c), Lo(c)>>
Whole(c)    == IF c = Empty THEN <<Dollar, Hash, Hi(c), Lo(c)>>
               ELSE <<Dollar, <<"data", c>>, Hash, Hi(c), Lo(c)>>
Behind(c)   == IF c = Empty THEN <<Plus, Dollar, Hash, Hi(c), Lo(c)>>
               ELSE <<Plus, Dollar, <<"data", c>>, Hash, Hi(c), Lo(c)>>

\* The phases of the conversation on a line without noise.  The program runs,
\* and the host knows or will know when it hears the '+' under way.
GoesOn == /\ pc = "run" /\ toStub = <<>> /\ times = 1
          /\ \/ host = <<"reply", Stop>> /\ toHost = <<>>
             \/ \E c \in Resumes : host = <<"ack", c>> /\ toHost = <<Plus>>

\* The stub has answered, with a reply or with the signal of a trap.
Answered == /\ pc = "ack" /\ toStub = <<>> /\ times = 1
            /\ \/ \E a \in Queries \cup {Stop} : host = <<"reply", a>> /\ toHost = <<Reply(a)>>
               \/ \E c \in Queries : host = <<"ack", c>> /\ toHost = <<Plus, Reply(c)>>
               \/ \E c \in Resumes : host = <<"ack", c>> /\ toHost = <<Plus, Reply(Stop)>>

\* Nobody owes the other an answer.
AtRest == /\ toHost = <<>> /\ times = 1
          /\ \E a \in Cmds \cup {Stop} : host = <<"idle", a>>
          /\ \/ pc = "ack" /\ toStub = <<Plus>>
             \/ pc = "sync" /\ toStub = <<>>

\* An empty packet was acknowledged.
Skipped == /\ pc = "sync" /\ toStub = <<>> /\ times = 1
           /\ host = <<"ack", Empty>> /\ toHost = <<Plus>>

\* The command is under way, and the stub has read a part of it.
Asked(c) == /\ toHost = <<>> /\ times = 0 /\ host = <<"ack", c>>
            /\ \/ pc = "ack"  /\ toStub = Behind(c)
               \/ pc = "sync" /\ toStub = Whole(c)
               \/ pc = "data" /\ toStub = FromData(c) /\ body = <<>> /\ digits = <<>>
               \/ pc = "data" /\ toStub = FromHash(c) /\ body = Data(c) /\ digits = <<>>
               \/ pc = "sum"  /\ toStub = Digits(c) /\ body = Data(c) /\ digits = <<>>
               \/ pc = "sum"  /\ toStub = <<Lo(c)>> /\ body = Data(c) /\ digits = <<Hi(c)>>

Clean == GoesOn \/ Answered \/ AtRest \/ Skipped \/ \E c \in Cmds : Asked(c)

CleanInv == noise \in Nat /\ (noise = 0 => Clean)

-----------------------------------------------------------------------------
(* Sequences of a few characters.                                          *)

\* A sequence that starts with a and goes on as t.
LEMMA Cons ==
  ASSUME NEW S, NEW a \in S, NEW t \in Seq(S), NEW u \in Seq(S),
         Len(u) = 1 + Len(t), u[1] = a, \A i \in 1 .. Len(t) : u[i + 1] = t[i]
  PROVE  <<a>> \o t = u
<1>1. <<a>> \in Seq(S) /\ Len(<<a>>) = 1 /\ <<a>>[1] = a /\ Len(t) \in Nat
  OBVIOUS
<1>2. /\ <<a>> \o t \in Seq(S) /\ Len(<<a>> \o t) = 1 + Len(t)
      /\ \A i \in 1 .. 1 + Len(t) : (<<a>> \o t)[i] = IF i <= 1 THEN <<a>>[i] ELSE t[i - 1]
  BY <1>1, ConcatProperties
<1>3. ASSUME NEW i \in 1 .. 1 + Len(t) PROVE (<<a>> \o t)[i] = u[i]
  <2>1. CASE i = 1
    BY <1>1, <1>2, <2>1
  <2>2. CASE i # 1
    <3>1. i - 1 \in 1 .. Len(t) /\ (i - 1) + 1 = i
      BY <1>1, <2>2
    <3>2. u[(i - 1) + 1] = t[i - 1]
      BY <3>1
    <3> QED
      BY <1>1, <1>2, <2>2, <3>1, <3>2
  <2> QED
    BY <2>1, <2>2
<1> QED
  BY <1>2, <1>3, SeqEqual

\* A character before one character.
LEMMA Before1 ==
  ASSUME NEW a, NEW b
  PROVE  <<a>> \o <<b>> = <<a, b>>
<1> DEFINE S == {a, b}
<1>1. a \in S /\ <<b>> \in Seq(S) /\ <<a, b>> \in Seq(S)
  OBVIOUS
<1>2. /\ Len(<<a, b>>) = 1 + Len(<<b>>) /\ <<a, b>>[1] = a
      /\ \A i \in 1 .. Len(<<b>>) : <<a, b>>[i + 1] = <<b>>[i]
  OBVIOUS
<1> HIDE DEF S
<1> QED
  BY <1>1, <1>2, Cons

\* A character before two characters.
LEMMA Before2 ==
  ASSUME NEW a, NEW b, NEW c
  PROVE  <<a>> \o <<b, c>> = <<a, b, c>>
<1> DEFINE S == {a, b, c}
<1>1. a \in S /\ <<b, c>> \in Seq(S) /\ <<a, b, c>> \in Seq(S)
  OBVIOUS
<1>2. /\ Len(<<a, b, c>>) = 1 + Len(<<b, c>>) /\ <<a, b, c>>[1] = a
      /\ \A i \in 1 .. Len(<<b, c>>) : <<a, b, c>>[i + 1] = <<b, c>>[i]
  OBVIOUS
<1> HIDE DEF S
<1> QED
  BY <1>1, <1>2, Cons

\* A character before three characters.
LEMMA Before3 ==
  ASSUME NEW a, NEW b, NEW c, NEW d
  PROVE  <<a>> \o <<b, c, d>> = <<a, b, c, d>>
<1> DEFINE S == {a, b, c, d}
<1>1. a \in S /\ <<b, c, d>> \in Seq(S) /\ <<a, b, c, d>> \in Seq(S)
  OBVIOUS
<1>2. /\ Len(<<a, b, c, d>>) = 1 + Len(<<b, c, d>>) /\ <<a, b, c, d>>[1] = a
      /\ \A i \in 1 .. Len(<<b, c, d>>) : <<a, b, c, d>>[i + 1] = <<b, c, d>>[i]
  OBVIOUS
<1> HIDE DEF S
<1> QED
  BY <1>1, <1>2, Cons

\* A character before four characters.
LEMMA Before4 ==
  ASSUME NEW a, NEW b, NEW c, NEW d, NEW e
  PROVE  <<a>> \o <<b, c, d, e>> = <<a, b, c, d, e>>
<1> DEFINE S == {a, b, c, d, e}
<1>1. a \in S /\ <<b, c, d, e>> \in Seq(S) /\ <<a, b, c, d, e>> \in Seq(S)
  OBVIOUS
<1>2. /\ Len(<<a, b, c, d, e>>) = 1 + Len(<<b, c, d, e>>) /\ <<a, b, c, d, e>>[1] = a
      /\ \A i \in 1 .. Len(<<b, c, d, e>>) : <<a, b, c, d, e>>[i + 1] = <<b, c, d, e>>[i]
  OBVIOUS
<1> HIDE DEF S
<1> QED
  BY <1>1, <1>2, Cons

\* Three parts may be put together from either end.
Joined(S, a, b, ab) == a \in Seq(S) /\ b \in Seq(S) /\ ab = a \o b

LEMMA Regroup ==
  ASSUME NEW S, NEW a, NEW b, NEW e, NEW ab, Joined(S, a, b, ab), NEW be, Joined(S, b, e, be),
         NEW abe, Joined(S, ab, e, abe)
  PROVE  Joined(S, a, be, abe)
<1>1. (a \o b) \o e = a \o (b \o e)
  BY ConcatAssociative DEF Joined
<1>2. be \in Seq(S)
  BY ConcatProperties DEF Joined
<1> QED
  BY <1>1, <1>2 DEF Joined

\* The packet of a command, and the packet behind the '+' that was sent before.
LEMMA PacketIs ==
  ASSUME NEW c
  PROVE  Packet(c) = Whole(c) /\ <<>> \o Packet(c) = Whole(c) /\ <<Plus>> \o Packet(c) = Behind(c)
<1> DEFINE d == <<"data", c>>
           h == Hi(c)
           l == Lo(c)
           S == {Plus, Dollar, Hash, h, l, d}
           long  == <<d, Hash, h, l>>
           whole == <<Dollar, d, Hash, h, l>>
           short == <<Dollar, Hash, h, l>>
<1>0. /\ Digits(c) = <<h, l>> /\ FromHash(c) = <<Hash, h, l>>
      /\ c = Empty => Data(c) = <<>> /\ FromData(c) = FromHash(c) /\ Whole(c) = short
                      /\ Behind(c) = <<Plus, Dollar, Hash, h, l>>
      /\ c # Empty => Data(c) = <<d>> /\ FromData(c) = long /\ Whole(c) = whole
                      /\ Behind(c) = <<Plus, Dollar, d, Hash, h, l>>
  BY DEF Data, Digits, Whole, FromData, FromHash, Behind, Hi, Lo
<1> HIDE DEF d, h, l
<1>1. /\ <<Dollar>> \in Seq(S) /\ <<>> \in Seq(S) /\ <<d>> \in Seq(S) /\ <<Hash>> \in Seq(S)
      /\ <<h, l>> \in Seq(S) /\ <<Hash, h, l>> \in Seq(S) /\ <<Plus>> \in Seq(S)
      /\ whole \in Seq(S) /\ short \in Seq(S) /\ Plus \in S
      /\ <<Plus, Dollar, d, Hash, h, l>> \in Seq(S)
  OBVIOUS
<1>2. /\ <<Hash>> \o <<h, l>> = <<Hash, h, l>>
      /\ <<d>> \o <<Hash, h, l>> = long
      /\ <<Dollar>> \o long = whole
      /\ <<Dollar>> \o <<Hash, h, l>> = short
      /\ <<Plus>> \o short = <<Plus, Dollar, Hash, h, l>>
  <2>1. <<Hash>> \o <<h, l>> = <<Hash, h, l>>
    BY Before2
  <2>2. <<d>> \o <<Hash, h, l>> = <<d, Hash, h, l>>
    BY Before3
  <2>3. <<Dollar>> \o <<d, Hash, h, l>> = <<Dollar, d, Hash, h, l>>
    BY Before4
  <2>4. <<Dollar>> \o <<Hash, h, l>> = <<Dollar, Hash, h, l>>
    BY Before3
  <2>5. <<Plus>> \o <<Dollar, Hash, h, l>> = <<Plus, Dollar, Hash, h, l>>
    BY Before4
  <2> QED
    BY <2>1, <2>2, <2>3, <2>4, <2>5
<1>3. /\ Len(<<Plus, Dollar, d, Hash, h, l>>) = 1 + Len(whole)
      /\ <<Plus, Dollar, d, Hash, h, l>>[1] = Plus
      /\ \A i \in 1 .. Len(whole) : <<Plus, Dollar, d, Hash, h, l>>[i + 1] = whole[i]
  OBVIOUS
<1> HIDE DEF S, long, whole, short
<1>4. <<Plus>> \o whole = <<Plus, Dollar, d, Hash, h, l>>
  BY <1>1, <1>3, Cons
<1>5. Data(c) \in Seq(S) /\ Digits(c) \in Seq(S) /\ Whole(c) \in Seq(S)
  <2>1. CASE c = Empty
    BY <1>0, <1>1, <2>1
  <2>2. CASE c # Empty
    BY <1>0, <1>1, <2>2
  <2> QED
    BY <2>1, <2>2
<1>6. Packet(c) = <<Dollar>> \o (Data(c) \o (<<Hash>> \o Digits(c)))
  <2> DEFINE head == <<Dollar>> \o Data(c)
             tail == <<Hash>> \o Digits(c)
             most == head \o <<Hash>>
             rest == Data(c) \o tail
             all  == most \o Digits(c)
  <2>1. Packet(c) = all
    BY DEF Packet
  <2>2. head \in Seq(S) /\ tail \in Seq(S) /\ most \in Seq(S)
    BY <1>1, <1>5, ConcatProperties
  <2>3. /\ Joined(S, <<Dollar>>, Data(c), head) /\ Joined(S, <<Hash>>, Digits(c), tail)
        /\ Joined(S, head, <<Hash>>, most) /\ Joined(S, Data(c), tail, rest)
        /\ Joined(S, most, Digits(c), all)
    BY <1>1, <1>5, <2>2 DEF Joined
  <2> HIDE DEF head, tail, most, rest, all
  <2>4. Joined(S, head, tail, all)
    BY <2>3, Regroup
  <2>5. Joined(S, <<Dollar>>, rest, all)
    <3>1. Joined(S, head, tail, all) /\ Joined(S, <<Dollar>>, Data(c), head)
      BY <2>3, <2>4
    <3> QED
      BY <2>3, <3>1, Regroup
  <2> QED
    BY <2>1, <2>5 DEF Joined, rest, tail
<1>7. <<Hash>> \o Digits(c) = <<Hash, h, l>>
  BY <1>0, <1>2
<1>8. Packet(c) = Whole(c)
  <2>1. CASE c = Empty
    <3>1. Data(c) \o <<Hash, h, l>> = <<Hash, h, l>>
      BY <1>0, <1>1, <2>1, ConcatEmptySeq
    <3> QED
      BY <1>0, <1>2, <1>6, <1>7, <2>1, <3>1
  <2>2. CASE c # Empty
    <3>1. Data(c) \o <<Hash, h, l>> = long
      BY <1>0, <1>2, <2>2
    <3> QED
      BY <1>0, <1>2, <1>6, <1>7, <2>2, <3>1
  <2> QED
    BY <2>1, <2>2
<1>9. <<>> \o Whole(c) = Whole(c)
  BY <1>5, ConcatEmptySeq
<1>10. <<Plus>> \o Whole(c) = Behind(c)
  <2>1. CASE c = Empty
    BY <1>0, <1>2, <2>1
  <2>2. CASE c # Empty
    BY <1>0, <1>4, <2>2
  <2> QED
    BY <2>1, <2>2
<1> QED
  BY <1>8, <1>9, <1>10

\* Reading a packet from each of its characters on.
LEMMA ReadIs ==
  ASSUME NEW c
  PROVE  /\ Behind(c) # <<>> /\ Head(Behind(c)) = Plus /\ Tail(Behind(c)) = Whole(c)
         /\ Whole(c) # <<>> /\ Head(Whole(c)) = Dollar /\ Tail(Whole(c)) = FromData(c)
         /\ FromHash(c) # <<>> /\ Head(FromHash(c)) = Hash /\ Tail(FromHash(c)) = Digits(c)
         /\ Digits(c) # <<>> /\ Head(Digits(c)) = Hi(c) /\ Tail(Digits(c)) = <<Lo(c)>>
         /\ Head(<<Lo(c)>>) = Lo(c) /\ Tail(<<Lo(c)>>) = <<>>
         /\ FromData(c) # <<>>
         /\ c = Empty => FromData(c) = FromHash(c)
         /\ c # Empty => Head(FromData(c)) = <<"data", c>> /\ Tail(FromData(c)) = FromHash(c)
<1>1. Behind(c) # <<>> /\ Head(Behind(c)) = Plus /\ Tail(Behind(c)) = Whole(c)
  BY DEF Behind, Whole
<1>2. Whole(c) # <<>> /\ Head(Whole(c)) = Dollar /\ Tail(Whole(c)) = FromData(c)
  BY DEF Whole, FromData, FromHash
<1>3. FromHash(c) # <<>> /\ Head(FromHash(c)) = Hash /\ Tail(FromHash(c)) = Digits(c)
  BY DEF FromHash, Digits, Hi, Lo
<1>4. Digits(c) # <<>> /\ Head(Digits(c)) = Hi(c) /\ Tail(Digits(c)) = <<Lo(c)>>
  BY DEF Digits, Hi, Lo
<1>5. Head(<<Lo(c)>>) = Lo(c) /\ Tail(<<Lo(c)>>) = <<>>
  OBVIOUS
<1>6. /\ FromData(c) # <<>>
      /\ c = Empty => FromData(c) = FromHash(c)
      /\ c # Empty => Head(FromData(c)) = <<"data", c>> /\ Tail(FromData(c)) = FromHash(c)
  BY DEF FromData, FromHash
<1> QED
  BY <1>1, <1>2, <1>3, <1>4, <1>5, <1>6

\* Short sequences that grow.
LEMMA Grow ==
  ASSUME NEW a, NEW b
  PROVE  /\ Append(<<>>, a) = <<a>> /\ Append(<<a>>, b) = <<a, b>>
         /\ Tail(<<a>>) = <<>> /\ Tail(<<a, b>>) = <<b>> /\ Head(<<a>>) = a /\ Head(<<a, b>>) = a
         /\ Len(<<>>) = 0 /\ Len(<<a>>) = 1 /\ <<a>> # <<>> /\ <<a, b>> # <<>>
         /\ <<>> \o <<a>> = <<a>>
<1> DEFINE S == {a, b}
<1>1. <<a>> \in Seq(S) /\ b \in S /\ <<>> \in Seq(S) /\ a \in S
  OBVIOUS
<1> HIDE DEF S
<1>2. Append(<<a>>, b) = <<a>> \o <<b>> /\ Append(<<>>, a) = <<>> \o <<a>>
  BY <1>1, AppendIsConcat
<1>3. <<>> \o <<a>> = <<a>>
  BY <1>1, ConcatEmptySeq
<1>4. <<a>> \o <<b>> = <<a, b>>
  BY Before1
<1>5. /\ Tail(<<a>>) = <<>> /\ Tail(<<a, b>>) = <<b>> /\ Head(<<a>>) = a /\ Head(<<a, b>>) = a
      /\ Len(<<>>) = 0 /\ Len(<<a>>) = 1 /\ <<a>> # <<>> /\ <<a, b>> # <<>>
  OBVIOUS
<1> QED
  BY <1>2, <1>3, <1>4, <1>5

-----------------------------------------------------------------------------
(* What can happen in each phase on a line without noise.                  *)

\* The names of the commands, of characters and of states differ.
LEMMA Names ==
  /\ Queries \cap Resumes = {} /\ Empty \notin Queries \cup Resumes
  /\ Stop \notin Queries \cup Resumes /\ Stop # Empty
  /\ Plus # Minus /\ Plus # Junk /\ Minus # Junk /\ Hash # Dollar /\ Plus # Dollar
  /\ \A c : Reply(c) \notin {Plus, Minus, Junk} /\ Reply(c)[1] = "reply" /\ Reply(c)[2] = c
  /\ \A c : <<"data", c>> # Hash /\ Hi(c) # Junk
  /\ Plus[1] # "reply" /\ Minus[1] # "reply" /\ Junk[1] # "reply"
<1>1. /\ Plus # Minus /\ Plus # Junk /\ Minus # Junk /\ Hash # Dollar /\ Plus # Dollar
      /\ Plus[1] # "reply" /\ Minus[1] # "reply" /\ Junk[1] # "reply"
  BY DEF Plus, Minus, Junk, Hash, Dollar
<1>2. \A c : Reply(c)[1] = "reply" /\ Reply(c)[2] = c
  BY DEF Reply
<1>3. \A c : <<"data", c>> # Hash /\ Hi(c) # Junk /\ Reply(c) \notin {Plus, Minus, Junk}
  BY DEF Reply, Hash, Hi, Junk, Plus, Minus
<1> QED
  BY <1>1, <1>2, <1>3, GdbLinkAssumption DEF Empty, Stop

\* With nothing on its way to the stub, the stub reads nothing.
LEMMA NothingToRead ==
  ASSUME toStub = <<>>
  PROVE  ~StubReads
  BY DEF StubReads, RecvAck, Sync, Collect, FirstDigit, Refuse, Execute, Arrived

\* The program runs: it traps, or the host hears the '+' of c or s.
LEMMA GoesOnStep ==
  ASSUME GoesOn, Next, noise = 0, noise' = 0
  PROVE  Clean'
<1>1. CASE Trap
  <2>1. /\ pc' = "ack" /\ toHost' = Append(toHost, Reply(Stop))
        /\ toStub' = <<>> /\ times' = 1 /\ host' = host
    BY <1>1 DEF Trap, GoesOn
  <2>2. CASE host = <<"reply", Stop>> /\ toHost = <<>>
    BY <2>1, <2>2, Grow DEF Clean, Answered
  <2>3. CASE \E c \in Resumes : host = <<"ack", c>> /\ toHost = <<Plus>>
    <3>1. PICK c \in Resumes : host = <<"ack", c>> /\ toHost = <<Plus>>
      BY <2>3
    <3>2. toHost' = <<Plus, Reply(Stop)>>
      BY <2>1, <3>1, Grow
    <3> QED
      BY <2>1, <3>1, <3>2 DEF Clean, Answered
  <2> QED
    BY <2>2, <2>3 DEF GoesOn
<1>2. CASE HearAck
  <2>1. PICK c \in Resumes : host = <<"ack", c>> /\ toHost = <<Plus>>
    BY <1>2 DEF GoesOn, HearAck
  <2>2. host[1] = "ack" /\ host[2] = c /\ c # Empty /\ Head(toHost) = Plus /\ Tail(toHost) = <<>>
    BY <2>1, Grow, Names
  <2>3. /\ host' = <<"reply", Stop>> /\ toHost' = <<>> /\ toStub' = <<>> /\ times' = 1
        /\ pc' = "run"
    BY <1>2, <2>2, Names DEF HearAck, GoesOn, stub
  <2> QED
    BY <2>3 DEF Clean, GoesOn
<1>3. ~StubReads /\ ~Timeout /\ ~HearReply /\ \A c \in Cmds : ~SendCommand(c)
  <2>1. ~StubReads
    BY NothingToRead DEF GoesOn
  <2>2. CASE host = <<"reply", Stop>> /\ toHost = <<>>
    <3>1. host[1] = "reply" /\ host[2] = Stop
      BY <2>2
    <3> QED
      BY <2>1, <2>2, <3>1 DEF Timeout, HearReply, Heard, SendCommand
  <2>3. CASE \E c \in Resumes : host = <<"ack", c>> /\ toHost = <<Plus>>
    <3>1. host[1] = "ack" /\ toHost # <<>>
      BY <2>3, Grow
    <3> QED
      BY <2>1, <3>1 DEF Timeout, HearReply, Quiet, SendCommand
  <2> QED
    BY <2>2, <2>3 DEF GoesOn
<1>4. ~DisturbStub /\ ~DisturbHost
  BY DEF DisturbStub, DisturbHost, Noise
<1> QED
  BY <1>1, <1>2, <1>3, <1>4 DEF Next, HostReads

\* The stub has answered: the host hears the '+', then the reply.
LEMMA AnsweredStep ==
  ASSUME Answered, Next, noise = 0, noise' = 0
  PROVE  Clean'
<1>1. /\ pc = "ack" /\ ~StubReads /\ ~Trap /\ ~DisturbStub /\ ~DisturbHost
      /\ toStub = <<>> /\ times = 1
  BY NothingToRead DEF Answered, Trap, DisturbStub, DisturbHost, Noise
<1>2. CASE \E a \in Queries \cup {Stop} : host = <<"reply", a>> /\ toHost = <<Reply(a)>>
  <2>1. PICK a \in Queries \cup {Stop} : host = <<"reply", a>> /\ toHost = <<Reply(a)>>
    BY <1>2
  <2>2. /\ host[1] = "reply" /\ host[2] = a /\ Head(toHost) = Reply(a)
        /\ Tail(toHost) = <<>> /\ toHost # <<>>
    BY <2>1, Grow
  <2>3. HearReply
    BY <1>1, <2>2 DEF Next, SendCommand, HostReads, HearAck, Timeout, Quiet
  <2>4. toHost' = <<>> /\ toStub' = <<>> \o <<Plus>> /\ host' = <<"idle", a>>
        /\ pc' = "ack" /\ times' = 1
    BY <1>1, <2>2, <2>3, Names DEF HearReply, Sends, stub
  <2>5. toStub' = <<Plus>>
    BY <2>4, Grow
  <2> QED
    BY <2>4, <2>5 DEF Clean, AtRest, Cmds
<1>3. CASE \E c \in Queries : host = <<"ack", c>> /\ toHost = <<Plus, Reply(c)>>
  <2>1. PICK c \in Queries : host = <<"ack", c>> /\ toHost = <<Plus, Reply(c)>>
    BY <1>3
  <2>2. /\ host[1] = "ack" /\ host[2] = c /\ Head(toHost) = Plus
        /\ Tail(toHost) = <<Reply(c)>> /\ toHost # <<>>
    BY <2>1, Grow
  <2>3. HearAck
    BY <1>1, <2>2 DEF Next, SendCommand, HostReads, HearReply, Timeout, Quiet
  <2>4. toHost' = <<Reply(c)>> /\ toStub' = <<>> /\ host' = <<"reply", c>>
        /\ pc' = "ack" /\ times' = 1
    BY <1>1, <2>2, <2>3, Names DEF HearAck, stub
  <2> QED
    BY <2>4 DEF Clean, Answered
<1>4. CASE \E c \in Resumes : host = <<"ack", c>> /\ toHost = <<Plus, Reply(Stop)>>
  <2>1. PICK c \in Resumes : host = <<"ack", c>> /\ toHost = <<Plus, Reply(Stop)>>
    BY <1>4
  <2>2. /\ host[1] = "ack" /\ host[2] = c /\ Head(toHost) = Plus
        /\ Tail(toHost) = <<Reply(Stop)>> /\ toHost # <<>>
    BY <2>1, Grow
  <2>3. HearAck
    BY <1>1, <2>2 DEF Next, SendCommand, HostReads, HearReply, Timeout, Quiet
  <2>4. toHost' = <<Reply(Stop)>> /\ toStub' = <<>> /\ host' = <<"reply", Stop>>
        /\ pc' = "ack" /\ times' = 1
    BY <1>1, <2>2, <2>3, Names DEF HearAck, stub
  <2> QED
    BY <2>4 DEF Clean, Answered
<1> QED
  BY <1>2, <1>3, <1>4 DEF Answered

\* Nobody owes an answer: the stub reads the last '+', or the host asks.
LEMMA AtRestStep ==
  ASSUME AtRest, Next, noise = 0, noise' = 0
  PROVE  Clean'
<1>1. host[1] = "idle" /\ toHost = <<>> /\ times = 1
  BY DEF AtRest
<1>2. \/ StubReads
      \/ \E c \in Cmds : SendCommand(c)
  BY <1>1 DEF AtRest, Next, Trap, HostReads, HearAck, HearReply, Heard, Timeout, Quiet,
             DisturbStub, DisturbHost, Noise
<1>3. CASE StubReads
  <2>1. pc = "ack" /\ toStub = <<Plus>>
    BY <1>3, NothingToRead DEF AtRest
  <2>2. RecvAck
    BY <1>3, <2>1 DEF StubReads, Sync, Collect, FirstDigit, Refuse, Execute, Arrived
  <2>3. /\ pc' = "sync" /\ toStub' = <<>> /\ toHost' = <<>> /\ host' = host /\ times' = 1
    BY <1>1, <2>1, <2>2, Grow DEF RecvAck
  <2> QED
    BY <2>3 DEF Clean, AtRest
<1>4. ASSUME NEW c \in Cmds, SendCommand(c) PROVE Clean'
  <2>1. /\ host' = <<"ack", c>> /\ times' = 0 /\ toHost' = <<>> /\ pc' = pc
        /\ toStub' = toStub \o Packet(c)
    BY <1>1, <1>4 DEF SendCommand, Sends, stub
  <2>2. CASE pc = "ack" /\ toStub = <<Plus>>
    <3>1. toStub' = Behind(c)
      BY <2>1, <2>2, PacketIs
    <3> QED
      BY <2>1, <2>2, <3>1 DEF Clean, Asked
  <2>3. CASE pc = "sync" /\ toStub = <<>>
    <3>1. toStub' = Whole(c)
      BY <2>1, <2>3, PacketIs
    <3> QED
      BY <2>1, <2>3, <3>1 DEF Clean, Asked
  <2> QED
    BY <2>2, <2>3 DEF AtRest
<1> QED
  BY <1>2, <1>3, <1>4

\* An empty packet was acknowledged: the host hears it.
LEMMA SkippedStep ==
  ASSUME Skipped, Next, noise = 0, noise' = 0
  PROVE  Clean'
<1>1. /\ host[1] = "ack" /\ host[2] = Empty /\ Head(toHost) = Plus
      /\ Tail(toHost) = <<>> /\ toHost # <<>>
  BY Grow DEF Skipped
<1>2. /\ pc = "sync" /\ ~StubReads /\ ~Trap /\ ~DisturbStub /\ ~DisturbHost
      /\ toStub = <<>> /\ times = 1
  BY NothingToRead DEF Skipped, Trap, DisturbStub, DisturbHost, Noise
<1>3. HearAck
  BY <1>1, <1>2 DEF Next, SendCommand, HostReads, HearReply, Timeout, Quiet
<1>4. /\ toHost' = <<>> /\ toStub' = <<>> /\ host' = <<"idle", Empty>>
      /\ pc' = "sync" /\ times' = 1
  BY <1>1, <1>2, <1>3, Names DEF HearAck, stub
<1> QED
  BY <1>4 DEF Clean, AtRest, Cmds

\* The last digit of the checksum has come: the command is executed.
LEMMA ExecuteStep ==
  ASSUME NEW c \in Cmds, Asked(c), StubReads, pc = "sum", toStub = <<Lo(c)>>,
         body = Data(c), digits = <<Hi(c)>>
  PROVE  Clean'
<1>1. Char = Lo(c) /\ Tail(toStub) = <<>> /\ toStub # <<>> /\ Len(digits) = 1 /\ digits # <<>>
  BY Grow DEF Char
<1>2. Append(digits, Char) = Digits(c)
  BY <1>1, Grow DEF Digits, Hi, Lo
<1>3. Matches(c, Append(digits, Char))
  BY <1>2 DEF Matches
<1>4. \A d : Digits(d) = Digits(c) => d = c
  BY DEF Digits
<1>5. PICK d \in Cmds : Execute(d)
  BY <1>1, <1>3 DEF StubReads, RecvAck, Sync, Collect, FirstDigit, Refuse, Arrived
<1>6. d = c
  BY <1>2, <1>4, <1>5 DEF Execute, Matches
<1>7. AfterExecute(c) /\ times' = 1 /\ toStub' = <<>> /\ host' = <<"ack", c>> /\ toHost = <<>>
  BY <1>1, <1>5, <1>6 DEF Execute, Asked
<1>8. Answer(TRUE) = <<Plus>>
  BY <1>7, Grow DEF Answer
<1>9. CASE c \in Resumes
  <2>1. pc' = "run" /\ toHost' = <<Plus>>
    BY <1>7, <1>8, <1>9, Names DEF AfterExecute
  <2> QED
    BY <1>7, <1>9, <2>1 DEF Clean, GoesOn
<1>10. CASE c \in Queries
  <2>1. pc' = "ack" /\ toHost' = Append(<<Plus>>, Reply(c))
    BY <1>7, <1>8, <1>10, Names DEF AfterExecute
  <2>2. toHost' = <<Plus, Reply(c)>>
    BY <2>1, Grow
  <2> QED
    BY <1>7, <1>10, <2>1, <2>2 DEF Clean, Answered
<1>11. CASE c = Empty
  <2>1. pc' = "sync" /\ toHost' = <<Plus>>
    BY <1>7, <1>8, <1>11, Names DEF AfterExecute
  <2> QED
    BY <1>7, <1>11, <2>1 DEF Clean, Skipped
<1> QED
  BY <1>9, <1>10, <1>11 DEF Cmds

\* The command is under way: the stub reads its packet to the end.
LEMMA AskedStep ==
  ASSUME NEW c \in Cmds, Asked(c), Next, noise = 0, noise' = 0
  PROVE  Clean'
<1>1. host[1] = "ack" /\ host = <<"ack", c>> /\ toHost = <<>> /\ times = 0
  BY DEF Asked
<1>2. toStub # <<>> /\ pc # "run"
  BY ReadIs, Grow DEF Asked
<1>3. StubReads
  BY <1>1, <1>2 DEF Next, Trap, SendCommand, HostReads, HearAck, HearReply, Heard,
                    Timeout, Quiet, DisturbStub, DisturbHost, Noise
<1>4. CASE pc = "ack" /\ toStub = Behind(c)
  <2>1. RecvAck
    BY <1>3, <1>4 DEF StubReads, Sync, Collect, FirstDigit, Refuse, Execute, Arrived
  <2>2. pc' = "sync" /\ toStub' = Whole(c) /\ toHost' = <<>> /\ host' = host /\ times' = 0
    BY <1>1, <1>4, <2>1, ReadIs DEF RecvAck
  <2> QED
    BY <1>1, <2>2 DEF Clean, Asked
<1>5. CASE pc = "sync" /\ toStub = Whole(c)
  <2>1. Sync
    BY <1>3, <1>5 DEF StubReads, RecvAck, Collect, FirstDigit, Refuse, Execute, Arrived
  <2>2. /\ pc' = "data" /\ toStub' = FromData(c) /\ body' = <<>> /\ digits' = <<>>
        /\ toHost' = <<>> /\ host' = host /\ times' = 0
    BY <1>1, <1>5, <2>1, ReadIs DEF Sync, Char
  <2> QED
    BY <1>1, <2>2 DEF Clean, Asked
<1>6. CASE pc = "data" /\ toStub = FromHash(c) /\ body = Data(c) /\ digits = <<>>
  <2>1. Collect
    BY <1>3, <1>6 DEF StubReads, RecvAck, Sync, FirstDigit, Refuse, Execute, Arrived
  <2>2. /\ pc' = "sum" /\ toStub' = Digits(c) /\ body' = Data(c) /\ digits' = <<>>
        /\ toHost' = <<>> /\ host' = host /\ times' = 0
    BY <1>1, <1>6, <2>1, ReadIs DEF Collect, Char
  <2> QED
    BY <1>1, <2>2 DEF Clean, Asked
<1>7. CASE pc = "data" /\ toStub = FromData(c) /\ body = <<>> /\ digits = <<>>
  <2>1. CASE c = Empty
    BY <1>6, <1>7, <2>1, ReadIs DEF Data
  <2>2. CASE c # Empty
    <3>1. Collect
      BY <1>3, <1>7 DEF StubReads, RecvAck, Sync, FirstDigit, Refuse, Execute, Arrived
    <3>2. Char = <<"data", c>> /\ Char # Hash /\ Tail(toStub) = FromHash(c)
      BY <1>7, <2>2, ReadIs, Names DEF Char
    <3>3. ~Full
      BY <1>7, Grow, GdbLinkAssumption DEF Full
    <3>4. /\ pc' = "data" /\ toStub' = FromHash(c) /\ body' = Append(<<>>, <<"data", c>>)
          /\ digits' = <<>> /\ toHost' = <<>> /\ host' = host /\ times' = 0
      BY <1>1, <1>7, <3>1, <3>2, <3>3 DEF Collect
    <3>5. body' = Data(c)
      BY <2>2, <3>4, Grow DEF Data
    <3> QED
      BY <1>1, <3>4, <3>5 DEF Clean, Asked
  <2> QED
    BY <2>1, <2>2
<1>8. CASE pc = "sum" /\ toStub = Digits(c) /\ body = Data(c) /\ digits = <<>>
  <2>1. Len(digits) = 0
    BY <1>8, Grow
  <2>2. FirstDigit
    BY <1>3, <1>8, <2>1 DEF StubReads, RecvAck, Sync, Collect, Refuse, Execute, Arrived
  <2>3. Char = Hi(c) /\ Char # Junk /\ Tail(toStub) = <<Lo(c)>>
    BY <1>8, ReadIs, Names DEF Char
  <2>4. /\ pc' = "sum" /\ toStub' = <<Lo(c)>> /\ body' = Data(c) /\ digits' = <<Hi(c)>>
        /\ toHost' = <<>> /\ host' = host /\ times' = 0
    BY <1>1, <1>8, <2>2, <2>3 DEF FirstDigit
  <2> QED
    BY <1>1, <2>4 DEF Clean, Asked
<1>9. CASE pc = "sum" /\ toStub = <<Lo(c)>> /\ body = Data(c) /\ digits = <<Hi(c)>>
  BY <1>3, <1>9, ExecuteStep
<1> QED
  BY <1>4, <1>5, <1>6, <1>7, <1>8, <1>9 DEF Asked

-----------------------------------------------------------------------------
(* The conversation.                                                       *)

\* The program runs and the host waits for its breakpoint.
LEMMA InitClean == Init => CleanInv
  BY DEF Init, CleanInv, Clean, GoesOn

\* A line without noise goes from phase to phase, and noise does not go away.
LEMMA StepClean == CleanInv /\ [Next]_linkVars => CleanInv'
<1> SUFFICES ASSUME CleanInv, [Next]_linkVars PROVE CleanInv'
  OBVIOUS
<1>1. CASE UNCHANGED linkVars
  BY <1>1 DEF linkVars, CleanInv, Clean, GoesOn, Answered, AtRest, Skipped, Asked
<1>2. CASE Next
  <2>1. noise' = noise \/ noise' = noise + 1
    BY <1>2 DEF Next, Trap, StubReads, RecvAck, Sync, Collect, FirstDigit, Refuse, Execute,
                SendCommand, HostReads, HearAck, HearReply, Timeout, DisturbStub,
                DisturbHost, Noise
  <2>2. noise' \in Nat /\ (noise' = 0 => noise = 0)
    BY <2>1 DEF CleanInv
  <2>3. ASSUME noise' = 0 PROVE Clean'
    BY <1>2, <2>2, <2>3, GoesOnStep, AnsweredStep, AtRestStep, SkippedStep, AskedStep
       DEF CleanInv, Clean
  <2> QED
    BY <2>2, <2>3 DEF CleanInv
<1> QED
  BY <1>1, <1>2

\* On a line without noise each command is executed once, neither skipped by the
\* hunt for '$' nor run twice, before the host takes it for done.
THEOREM OnceCorrect == Spec => []ExecutedOnce
<1>1. CleanInv => ExecutedOnce
  BY DEF CleanInv, Clean, GoesOn, Answered, AtRest, Skipped, Asked, ExecutedOnce
<1> QED
  BY <1>1, InitClean, StepClean, PTL DEF Spec

\* On a line without noise the program goes on only when the host told it to.
THEOREM StoppedCorrect == Spec => []StoppedUntilTold
<1>1. CleanInv => StoppedUntilTold
  <2> SUFFICES ASSUME Clean, pc = "run"
               PROVE  \/ host[1] = "reply" /\ host[2] = Stop
                      \/ host[1] = "ack" /\ host[2] \in Resumes /\ times = 1
    BY DEF CleanInv, StoppedUntilTold
  <2>1. GoesOn
    BY DEF Clean, Answered, AtRest, Skipped, Asked
  <2> QED
    BY <2>1 DEF GoesOn
<1> QED
  BY <1>1, InitClean, StepClean, PTL DEF Spec

-----------------------------------------------------------------------------
(* Types, on a line with noise too.                                        *)

\* The characters of a packet are characters of the line.
LEMMA PacketType ==
  ASSUME NEW c \in Cmds
  PROVE  Packet(c) \in Seq(Chars)
<1>1. /\ {Dollar, Hash} \subseteq Chars
      /\ {<<"data", c>>, Hi(c), Lo(c)} \subseteq Chars
  BY DEF Chars, Controls, Hi, Lo
<1> HIDE DEF Chars
<1>2. Whole(c) \in Seq(Chars)
  <2>1. CASE c = Empty
    BY <1>1, <2>1 DEF Whole
  <2>2. CASE c # Empty
    <3>1. Whole(c) = <<Dollar, <<"data", c>>, Hash, Hi(c), Lo(c)>>
      BY <2>2 DEF Whole
    <3> QED
      BY <1>1, <3>1
  <2> QED
    BY <2>1, <2>2
<1> QED
  BY <1>2, PacketIs

\* The stub reads one character, keeps or drops it, and may answer.
LEMMA StubType ==
  ASSUME TypeOK, StubReads
  PROVE  TypeOK'
<1>1. /\ toStub # <<>> /\ toStub' = Tail(toStub) /\ Char \in Chars
      /\ toStub' \in Seq(Chars)
  <2>1. toStub # <<>> /\ toStub' = Tail(toStub)
    BY DEF StubReads, RecvAck, Sync, Collect, FirstDigit, Refuse, Execute, Arrived
  <2> QED
    BY <2>1, HeadTailProperties DEF TypeOK, Char
<1>2. noise' = noise /\ host' = host /\ forged' = forged
  BY DEF StubReads, RecvAck, Sync, Collect, FirstDigit, Refuse, Execute
<1>3. times' \in 0 .. 2
  <2>1. times' = times \/ times' = IF times < 2 THEN times + 1 ELSE times
    BY DEF StubReads, RecvAck, Sync, Collect, FirstDigit, Refuse, Execute
  <2> QED
    BY <2>1 DEF TypeOK
<1>4. /\ pc' \in {"run", "ack", "sync", "data", "sum"}
      /\ body' \in Seq(Chars) /\ Len(body') <= BufLen
  <2>1. CASE Collect
    <3>1. CASE body' = body
      BY <2>1, <3>1 DEF Collect, TypeOK
    <3>2. CASE body' # body
      <4>1. body' = Append(body, Char) /\ ~(Len(body) >= BufLen) /\ pc' = "data"
        BY <2>1, <3>2 DEF Collect, Full
      <4>2. body' \in Seq(Chars) /\ Len(body') = Len(body) + 1 /\ Len(body) \in Nat
        BY <1>1, <4>1, AppendProperties DEF TypeOK
      <4> QED
        BY <4>1, <4>2, GdbLinkAssumption
    <3> QED
      BY <3>1, <3>2
  <2>2. CASE Sync
    BY <2>2, Grow, GdbLinkAssumption DEF Sync
  <2>3. CASE RecvAck \/ FirstDigit \/ Refuse
    BY <2>3 DEF RecvAck, FirstDigit, Refuse, TypeOK
  <2>4. CASE \E c \in Cmds : Execute(c)
    BY <2>4 DEF Execute, AfterExecute, TypeOK
  <2> QED
    BY <2>1, <2>2, <2>3, <2>4 DEF StubReads
<1>5. digits' \in Seq(Chars) /\ Len(digits') <= 1
  <2>1. digits' = digits \/ digits' = <<>> \/ digits' = <<Char>>
    BY DEF StubReads, RecvAck, Sync, Collect, FirstDigit, Refuse, Execute
  <2>2. <<Char>> \in Seq(Chars) /\ Len(<<Char>>) = 1
    BY <1>1
  <2>3. <<>> \in Seq(Chars) /\ Len(<<>>) = 0
    OBVIOUS
  <2>4. CASE digits' = digits
    BY <2>4 DEF TypeOK
  <2>5. CASE digits' = <<>>
    BY <2>3, <2>5
  <2>6. CASE digits' = <<Char>>
    BY <2>2, <2>6
  <2> QED
    BY <2>1, <2>4, <2>5, <2>6
<1>6. toHost' \in Seq(HostChars)
  <2>1. \A ok \in BOOLEAN : Answer(ok) \in Seq(HostChars)
    <3>1. Plus \in HostChars /\ Minus \in HostChars
      BY DEF HostChars
    <3> QED
      BY <3>1, AppendProperties DEF Answer, TypeOK
  <2>2. CASE \E c \in Cmds : Execute(c)
    <3>1. PICK c \in Cmds : AfterExecute(c)
      BY <2>2 DEF Execute
    <3>2. toHost' = Answer(TRUE) \/ toHost' = Append(Answer(TRUE), Reply(c))
      BY <3>1 DEF AfterExecute
    <3>3. Reply(c) \in HostChars
      BY DEF HostChars
    <3>4. Answer(TRUE) \in Seq(HostChars)
      BY <2>1
    <3>5. Append(Answer(TRUE), Reply(c)) \in Seq(HostChars)
      BY <3>3, <3>4, AppendProperties
    <3> QED
      BY <3>2, <3>4, <3>5
  <2>3. CASE RecvAck \/ Sync \/ Collect \/ FirstDigit \/ Refuse
    BY <2>1, <2>3 DEF RecvAck, Sync, Collect, FirstDigit, Refuse, TypeOK
  <2> QED
    BY <2>2, <2>3 DEF StubReads
<1> QED
  BY <1>1, <1>2, <1>3, <1>4, <1>5, <1>6 DEF TypeOK

\* What TypeOK needs: the host never waits for a '+' to a signal packet.
TypedInv == TypeOK /\ (host[1] = "ack" => host[2] \in Cmds)

\* The host asks for the commands it has, and hears what it expects.
LEMMA HostType ==
  ASSUME TypedInv, (\E c \in Cmds : SendCommand(c)) \/ HostReads \/ Timeout
  PROVE  TypedInv'
<1>1. pc' = pc /\ body' = body /\ digits' = digits /\ noise' = noise
  BY DEF SendCommand, HostReads, HearAck, HearReply, Timeout, stub
<1>2. times' = 0 \/ times' = times
  BY DEF SendCommand, HostReads, HearAck, HearReply, Timeout
<1>3. /\ host'[1] \in {"idle", "ack", "reply"} /\ host'[2] \in Cmds \cup {Stop}
      /\ host'[1] = "ack" => host'[2] \in Cmds
  <2>1. CASE \E c \in Cmds : SendCommand(c)
    BY <2>1 DEF SendCommand
  <2>2. CASE HearAck
    <3>1. \/ host' = host
          \/ host' = <<"idle", Empty>>
          \/ host' = <<"reply", Stop>>
          \/ host' = <<"reply", host[2]>>
      BY <2>2 DEF HearAck
    <3> QED
      BY <3>1 DEF TypedInv, TypeOK, Cmds
  <2>3. CASE HearReply \/ Timeout
    <3>1. host' = host \/ host' = <<"idle", host[2]>>
      BY <2>3 DEF HearReply, Timeout
    <3> QED
      BY <3>1 DEF TypedInv, TypeOK
  <2> QED
    BY <2>1, <2>2, <2>3 DEF HostReads
<1>4. toHost' \in Seq(HostChars)
  <2>1. toHost' = toHost \/ (toHost # <<>> /\ toHost' = Tail(toHost))
    BY DEF SendCommand, HostReads, HearAck, HearReply, Heard, Timeout
  <2> QED
    BY <2>1, HeadTailProperties DEF TypedInv, TypeOK
<1>5. toStub' \in Seq(Chars)
  <2>1. \/ toStub' = toStub
        \/ toStub' = toStub \o <<Plus>>
        \/ toStub' = toStub \o <<Minus>>
        \/ \E c \in Cmds : toStub' = toStub \o Packet(c)
    BY DEF SendCommand, HostReads, HearAck, HearReply, Timeout, Sends, TypedInv
  <2>2. <<Plus>> \in Seq(Chars) /\ <<Minus>> \in Seq(Chars)
    <3>1. Plus \in Chars /\ Minus \in Chars
      BY DEF Chars, Controls
    <3> QED
      BY <3>1
  <2>3. \A more \in Seq(Chars) : toStub \o more \in Seq(Chars)
    BY ConcatProperties DEF TypedInv, TypeOK
  <2>4. CASE toStub' = toStub
    BY <2>4 DEF TypedInv, TypeOK
  <2>5. CASE toStub' = toStub \o <<Plus>> \/ toStub' = toStub \o <<Minus>>
    BY <2>2, <2>3, <2>5
  <2>6. CASE \E c \in Cmds : toStub' = toStub \o Packet(c)
    BY <2>3, <2>6, PacketType
  <2> QED
    BY <2>1, <2>4, <2>5, <2>6
<1>6. forged' \in BOOLEAN
  BY DEF SendCommand, HostReads, HearAck, HearReply, Timeout, TypedInv, TypeOK
<1> QED
  BY <1>1, <1>2, <1>3, <1>4, <1>5, <1>6 DEF TypedInv, TypeOK

\* Noise takes a character away or puts another in its place.
LEMMA NoiseType ==
  ASSUME TypedInv, DisturbStub \/ DisturbHost
  PROVE  TypedInv'
<1>1. /\ UNCHANGED <<pc, body, digits, host, times>> /\ noise' \in 0 .. MaxNoise
      /\ forged' \in BOOLEAN
  <2>1. UNCHANGED <<pc, body, digits, host, times>> /\ noise' \in 0 .. MaxNoise
    BY GdbLinkAssumption DEF DisturbStub, DisturbHost, Noise, TypedInv, TypeOK, stub
  <2>2. forged' = forged \/ \E ch : forged' = (forged \/ ch \in {Plus, Minus})
    BY DEF DisturbStub, DisturbHost
  <2>3. forged' \in BOOLEAN
    BY <2>2, Zenon DEF TypedInv, TypeOK
  <2> QED
    BY <2>1, <2>3
<1>2. CASE DisturbStub
  <2>1. Tail(toStub) \in Seq(Chars) /\ toHost' = toHost
    BY <1>2, HeadTailProperties DEF DisturbStub, TypedInv, TypeOK
  <2>2. \/ toStub' = Tail(toStub)
        \/ \E ch \in Chars : toStub' = <<ch>> \o Tail(toStub)
    <3>1. Damaged \subseteq Chars
      BY DEF Damaged, Chars, Cmds
    <3> QED
      BY <1>2, <3>1 DEF DisturbStub
  <2>3. \A ch \in Chars : <<ch>> \in Seq(Chars)
    OBVIOUS
  <2>4. toStub' \in Seq(Chars)
    BY <2>1, <2>2, <2>3, ConcatProperties
  <2> QED
    BY <1>1, <2>1, <2>4 DEF TypedInv, TypeOK
<1>3. CASE DisturbHost
  <2>1. Tail(toHost) \in Seq(HostChars) /\ toStub' = toStub
    BY <1>3, HeadTailProperties DEF DisturbHost, TypedInv, TypeOK
  <2>2. \/ toHost' = Tail(toHost)
        \/ \E ch \in HostChars : toHost' = <<ch>> \o Tail(toHost)
    <3>1. DamagedToHost \subseteq HostChars
      BY DEF DamagedToHost, HostChars
    <3> QED
      BY <1>3, <3>1 DEF DisturbHost
  <2>3. \A ch \in HostChars : <<ch>> \in Seq(HostChars)
    OBVIOUS
  <2>4. toHost' \in Seq(HostChars)
    BY <2>1, <2>2, <2>3, ConcatProperties
  <2> QED
    BY <1>1, <2>1, <2>4 DEF TypedInv, TypeOK
<1> QED
  BY <1>2, <1>3

LEMMA InitTyped == Init => TypedInv
<1> SUFFICES ASSUME Init PROVE TypedInv
  OBVIOUS
<1>1. <<>> \in Seq(Chars) /\ <<>> \in Seq(HostChars) /\ Len(<<>>) = 0
  OBVIOUS
<1>2. forged \in BOOLEAN
  BY Zenon DEF Init
<1>3. /\ toStub = <<>> /\ toHost = <<>> /\ pc = "run" /\ body = <<>> /\ digits = <<>>
      /\ host[1] = "reply" /\ host[2] = Stop /\ times = 1 /\ noise = 0
  BY DEF Init
<1> QED
  BY <1>1, <1>2, <1>3, GdbLinkAssumption DEF TypedInv, TypeOK

LEMMA StepTyped == TypedInv /\ [Next]_linkVars => TypedInv'
<1> SUFFICES ASSUME TypedInv, [Next]_linkVars PROVE TypedInv'
  OBVIOUS
<1>1. CASE UNCHANGED linkVars
  BY <1>1 DEF linkVars, TypedInv, TypeOK
<1>2. CASE Trap
  <2>1. Reply(Stop) \in HostChars
    BY DEF HostChars
  <2>2. toHost' \in Seq(HostChars)
    BY <1>2, <2>1, AppendProperties DEF Trap, TypedInv, TypeOK
  <2> QED
    BY <1>2, <2>2 DEF Trap, TypedInv, TypeOK
<1>3. CASE StubReads
  <2>1. TypeOK'
    BY <1>3, StubType DEF TypedInv
  <2>2. host' = host
    BY <1>3 DEF StubReads, RecvAck, Sync, Collect, FirstDigit, Refuse, Execute
  <2> QED
    BY <2>1, <2>2 DEF TypedInv
<1>4. CASE (\E c \in Cmds : SendCommand(c)) \/ HostReads \/ Timeout
  BY <1>4, HostType
<1>5. CASE DisturbStub \/ DisturbHost
  BY <1>5, NoiseType
<1> QED
  BY <1>1, <1>2, <1>3, <1>4, <1>5 DEF Next

\* The line, the stub's buffers and the host's state stay well formed, whatever
\* is lost or damaged: no packet overruns pkt_buf.
THEOREM TypeCorrect == Spec => []TypeOK
<1>1. TypedInv => TypeOK
  BY DEF TypedInv
<1> QED
  BY <1>1, InitTyped, StepTyped, PTL DEF Spec

-----------------------------------------------------------------------------
(* A line with noise.  What keeps the two sides together is how many       *)
(* characters the stub still has to read before it can answer: every       *)
(* character it reads, and every one that is lost, brings it at most one   *)
(* closer, and an answer takes it back to the start.  So what is under way *)
(* is never enough for two answers, and once there is one for none.        *)

\* The characters the stub reads at least until it answers the next time.
Distance == CASE pc \in {"run", "ack"} -> 5
              [] pc = "sync" -> 4
              [] pc = "data" -> 3
              [] OTHER -> 2 - Len(digits)

IsLo(ch) == ch[1] = "lo"

\* A last digit under way ends what is under way, or stands before one whole packet.
LoLast(s, c) == \A i \in 1 .. Len(s) : IsLo(s[i]) =>
                  s[i] = Lo(c) /\ (i = Len(s) \/ i + Len(Packet(c)) = Len(s))

\* Of the '+' and '-' under way there is one at most.
IsAnswer(ch)       == ch \in {Plus, Minus}
NoAnswer(h)        == \A k \in 1 .. Len(h) : ~IsAnswer(h[k])
OneAnswer(h, k, a) == /\ k \in 1 .. Len(h) /\ h[k] = a
                      /\ \A j \in 1 .. Len(h) : j # k => ~IsAnswer(h[j])

\* What is under way while the host waits for its '+'.
UnderWay(c) == Len(toStub) < Distance + Len(Packet(c)) /\ LoLast(toStub, c)

Refused == Len(toStub) < Distance /\ \E k \in 1 .. Len(toHost) : OneAnswer(toHost, k, Minus)

\* The stub has executed c, and what it sent is what the host waits for.
Expected(c) == IF c \in Resumes THEN Stop ELSE c
Promised(p, c, h, k) ==
  \/ p = "run" /\ c \in Resumes /\ k = Len(h)
  \/ p = "sync" /\ c = Empty /\ k = Len(h)
  \/ p = "ack" /\ c # Empty /\ k + 1 = Len(h) /\ h[k + 1] = Reply(Expected(c))
Done(c) == /\ times > 0 /\ toStub = <<>>
           /\ \E k \in 1 .. Len(toHost) : OneAnswer(toHost, k, Plus) /\ Promised(pc, c, toHost, k)

Asking(c) == UnderWay(c) /\ (NoAnswer(toHost) \/ Refused \/ Done(c))

\* The command is done, and its reply under way, damaged or lost.
Waiting(a) ==
  /\ times > 0
  /\ \/ toStub = <<>> /\ toHost = <<>> /\ pc \in {"ack", "sync"}
     \/ toStub = <<>> /\ toHost = <<>> /\ pc = "run" /\ a = Stop
     \/ toStub = <<>> /\ toHost \in {<<Junk>>, <<Reply(a)>>} /\ pc = "ack"
     \/ Len(toStub) = 1 /\ ~IsLo(toStub[1]) /\ toHost = <<>> /\ pc = "ack"

\* Nothing is left of the last command but the acknowledgement of its reply.
Resting ==
  /\ toHost = <<>>
  /\ \/ toStub = <<>> /\ pc \in {"ack", "sync", "data"}
     \/ Len(toStub) = 1 /\ ~IsLo(toStub[1]) /\ pc \in {"ack", "sync"}

\* What holds until noise forges an acknowledgement.
NoisyInv == /\ pc = "data" => digits = <<>>
            /\ host[1] = "ack" => Asking(host[2])
            /\ host[1] = "reply" => Waiting(host[2])
            /\ host[1] = "idle" => Resting

\* When noise has forged one, only the stub's own part is left, until the host asks
\* again on a quiet line.
LinkInv == /\ pc = "data" => digits = <<>>
           /\ ~forged => NoisyInv

-----------------------------------------------------------------------------
(* What becomes of the characters under way.                               *)

\* The last digit is the last character of a packet, and the only one of its kind.
LEMMA PacketEnds ==
  ASSUME NEW c \in Cmds
  PROVE  /\ Packet(c) \in Seq(Chars) /\ Len(Packet(c)) \in {4, 5}
         /\ \A i \in 1 .. Len(Packet(c)) :
              IsLo(Packet(c)[i]) => i = Len(Packet(c)) /\ Packet(c)[i] = Lo(c)
<1>1. Packet(c) = Whole(c) /\ Packet(c) \in Seq(Chars)
  BY PacketIs, PacketType
<1>2. ~IsLo(Dollar) /\ ~IsLo(Hash) /\ ~IsLo(Hi(c)) /\ ~IsLo(<<"data", c>>)
  BY DEF IsLo, Dollar, Hash, Hi
<1>3. CASE c = Empty
  <2>1. Whole(c) = <<Dollar, Hash, Hi(c), Lo(c)>>
    BY <1>3 DEF Whole
  <2> HIDE DEF Hi, Lo, Dollar, Hash
  <2>2. /\ Len(Whole(c)) = 4 /\ Whole(c)[1] = Dollar /\ Whole(c)[2] = Hash
        /\ Whole(c)[3] = Hi(c) /\ Whole(c)[4] = Lo(c)
    BY <2>1
  <2>3. \A i \in 1 .. 4 : i = 1 \/ i = 2 \/ i = 3 \/ i = 4
    OBVIOUS
  <2> QED
    BY <1>1, <1>2, <2>2, <2>3
<1>4. CASE c # Empty
  <2>1. Whole(c) = <<Dollar, <<"data", c>>, Hash, Hi(c), Lo(c)>>
    BY <1>4 DEF Whole
  <2>2. /\ Len(Whole(c)) = 5 /\ Whole(c)[1] = Dollar /\ Whole(c)[2] = <<"data", c>>
        /\ Whole(c)[3] = Hash /\ Whole(c)[4] = Hi(c) /\ Whole(c)[5] = Lo(c)
    BY <2>1
  <2>3. \A i \in 1 .. 5 : i = 1 \/ i = 2 \/ i = 3 \/ i = 4 \/ i = 5
    OBVIOUS
  <2> QED
    BY <1>1, <1>2, <2>2, <2>3
<1> QED
  BY <1>3, <1>4

\* One character less.
LEMMA OneLess ==
  ASSUME NEW S, NEW s \in Seq(S), s # <<>>
  PROVE  /\ Tail(s) \in Seq(S) /\ Len(s) \in Nat \ {0} /\ Len(Tail(s)) = Len(s) - 1
         /\ Head(s) = s[1] /\ \A i \in 1 .. Len(Tail(s)) : Tail(s)[i] = s[i + 1]
  BY HeadTailProperties, EmptySeq, LenProperties

\* One character damaged.
LEMMA OneDamaged ==
  ASSUME NEW S, NEW s \in Seq(S), s # <<>>, NEW T, S \subseteq T, NEW ch \in T
  PROVE  /\ Len(<<ch>> \o Tail(s)) = Len(s) /\ (<<ch>> \o Tail(s))[1] = ch
         /\ \A i \in 2 .. Len(s) : (<<ch>> \o Tail(s))[i] = s[i]
<1>1. /\ Tail(s) \in Seq(S) /\ Len(s) \in Nat \ {0} /\ Len(Tail(s)) = Len(s) - 1
      /\ \A i \in 1 .. Len(Tail(s)) : Tail(s)[i] = s[i + 1]
  BY OneLess
<1>2. <<ch>> \in Seq(T) /\ Len(<<ch>>) = 1 /\ <<ch>>[1] = ch
  OBVIOUS
<1>3. Tail(s) \in Seq(T)
  BY <1>1, ElementOfSeq
<1>4. /\ Len(<<ch>> \o Tail(s)) = 1 + Len(Tail(s))
      /\ \A i \in 1 .. 1 + Len(Tail(s)) :
           (<<ch>> \o Tail(s))[i] = IF i <= 1 THEN <<ch>>[i] ELSE Tail(s)[i - 1]
  BY <1>2, <1>3, ConcatProperties
<1>5. (<<ch>> \o Tail(s))[1] = ch
  BY <1>1, <1>2, <1>4
<1>6. ASSUME NEW i \in 2 .. Len(s) PROVE (<<ch>> \o Tail(s))[i] = s[i]
  <2>1. i \in 1 .. 1 + Len(Tail(s)) /\ ~(i <= 1) /\ i - 1 \in 1 .. Len(Tail(s)) /\ (i - 1) + 1 = i
    BY <1>1
  <2>2. Tail(s)[i - 1] = s[(i - 1) + 1]
    BY <1>1, <2>1
  <2> QED
    BY <1>4, <2>1, <2>2
<1> QED
  BY <1>1, <1>4, <1>5, <1>6

\* To the stub: reading, losing and damaging the first character.
LEMMA LoLastTail ==
  ASSUME NEW c \in Cmds, NEW s \in Seq(Chars), s # <<>>, LoLast(s, c)
  PROVE  LoLast(Tail(s), c)
<1> DEFINE t == Tail(s)
           n == Len(Packet(c))
<1>1. /\ Len(s) \in Nat \ {0} /\ Len(t) = Len(s) - 1
      /\ \A i \in 1 .. Len(t) : t[i] = s[i + 1]
  BY OneLess
<1>2. n \in Nat
  BY PacketEnds
<1>3. \A i \in 1 .. Len(s) : IsLo(s[i]) => s[i] = Lo(c) /\ (i = Len(s) \/ i + n = Len(s))
  BY DEF LoLast
<1>4. LoLast(t, c) <=>
        \A i \in 1 .. Len(t) : IsLo(t[i]) => t[i] = Lo(c) /\ (i = Len(t) \/ i + n = Len(t))
  BY DEF LoLast
<1> HIDE DEF t, n
<1>5. ASSUME NEW i \in 1 .. Len(t), IsLo(t[i])
      PROVE  t[i] = Lo(c) /\ (i = Len(t) \/ i + n = Len(t))
  <2>1. i + 1 \in 1 .. Len(s) /\ t[i] = s[i + 1]
    BY <1>1
  <2>2. s[i + 1] = Lo(c) /\ (i + 1 = Len(s) \/ (i + 1) + n = Len(s))
    BY <1>3, <1>5, <2>1
  <2> QED
    BY <1>1, <1>2, <2>1, <2>2
<1>6. LoLast(t, c)
  BY <1>4, <1>5
<1> QED
  BY <1>6 DEF t

\* No character that noise puts on the line is a digit of a checksum.
LEMMA NoDigit ==
  ASSUME NEW ch \in Damaged
  PROVE  ch \in Chars /\ ~IsLo(ch)
  BY DEF Damaged, Controls, Chars, Cmds, IsLo, Plus, Minus, Dollar, Hash, Junk

LEMMA LoLastDamaged ==
  ASSUME NEW c \in Cmds, NEW s \in Seq(Chars), s # <<>>, LoLast(s, c), NEW ch \in Damaged
  PROVE  LoLast(<<ch>> \o Tail(s), c)
<1> DEFINE t == <<ch>> \o Tail(s)
<1>1. Len(t) = Len(s) /\ t[1] = ch /\ \A i \in 2 .. Len(s) : t[i] = s[i]
  BY OneDamaged, NoDigit
<1>2. ~IsLo(ch) /\ Len(s) \in Nat
  BY NoDigit
<1> HIDE DEF t
<1>3. ASSUME NEW i \in 1 .. Len(t), IsLo(t[i])
      PROVE  t[i] = Lo(c) /\ (i = Len(t) \/ i + Len(Packet(c)) = Len(t))
  <2>1. i # 1
    BY <1>1, <1>2, <1>3
  <2>2. i \in 2 .. Len(s) /\ i \in 1 .. Len(s)
    BY <1>1, <1>2, <2>1
  <2>3. t[i] = s[i]
    BY <1>1, <2>2
  <2> QED
    BY <1>1, <1>3, <2>2, <2>3 DEF LoLast
<1>4. LoLast(t, c)
  BY <1>3 DEF LoLast
<1> QED
  BY <1>4 DEF t

\* A command is sent behind less than a packet.
LEMMA LoLastSent ==
  ASSUME NEW c \in Cmds, NEW s \in Seq(Chars), LoLast(s, c), Len(s) <= 4
  PROVE  Len(s \o Packet(c)) = Len(s) + Len(Packet(c)) /\ LoLast(s \o Packet(c), c)
<1> DEFINE p == Packet(c)
           t == s \o p
<1>1. /\ p \in Seq(Chars) /\ Len(p) \in {4, 5} /\ Len(s) \in Nat
      /\ \A i \in 1 .. Len(p) : IsLo(p[i]) => i = Len(p) /\ p[i] = Lo(c)
  BY PacketEnds
<1>2. /\ Len(t) = Len(s) + Len(p)
      /\ \A i \in 1 .. Len(s) + Len(p) : t[i] = IF i <= Len(s) THEN s[i] ELSE p[i - Len(s)]
  BY <1>1, ConcatProperties
<1>3. LoLast(s, c) <=> \A i \in 1 .. Len(s) : IsLo(s[i]) =>
        s[i] = Lo(c) /\ (i = Len(s) \/ i + Len(p) = Len(s))
  BY DEF LoLast
<1>4. LoLast(t, c) <=> \A i \in 1 .. Len(t) : IsLo(t[i]) =>
        t[i] = Lo(c) /\ (i = Len(t) \/ i + Len(p) = Len(t))
  BY DEF LoLast
<1> HIDE DEF p, t
<1>5. ASSUME NEW i \in 1 .. Len(t), IsLo(t[i])
      PROVE  t[i] = Lo(c) /\ (i = Len(t) \/ i + Len(p) = Len(t))
  <2>1. CASE i <= Len(s)
    <3>1. i \in 1 .. Len(s) /\ t[i] = s[i]
      BY <1>1, <1>2, <2>1
    <3>2. s[i] = Lo(c) /\ (i = Len(s) \/ i + Len(p) = Len(s))
      BY <1>3, <1>5, <3>1
    <3> QED
      BY <1>1, <1>2, <3>1, <3>2
  <2>2. CASE ~(i <= Len(s))
    <3>1. i - Len(s) \in 1 .. Len(p) /\ t[i] = p[i - Len(s)]
      BY <1>1, <1>2, <2>2
    <3>2. i - Len(s) = Len(p) /\ t[i] = Lo(c)
      BY <1>1, <1>5, <3>1
    <3> QED
      BY <1>1, <1>2, <3>2
  <2> QED
    BY <2>1, <2>2
<1>6. Len(t) = Len(s) + Len(p) /\ LoLast(t, c)
  BY <1>2, <1>4, <1>5
<1> QED
  BY <1>6 DEF t, p

\* To the host: what is sent, ...
LEMMA AnswerSent ==
  ASSUME NEW h \in Seq(HostChars), NoAnswer(h), NEW ch \in HostChars
  PROVE  /\ ~IsAnswer(ch) => NoAnswer(Append(h, ch))
         /\ IsAnswer(ch) => OneAnswer(Append(h, ch), Len(h) + 1, ch)
<1> DEFINE t == Append(h, ch)
<1>1. /\ Len(h) \in Nat /\ Len(t) = Len(h) + 1 /\ t[Len(h) + 1] = ch
      /\ \A i \in 1 .. Len(h) : t[i] = h[i]
  BY AppendProperties
<1> HIDE DEF t
<1>2. \A i \in 1 .. Len(t) : i # Len(h) + 1 => ~IsAnswer(t[i])
  <2> SUFFICES ASSUME NEW i \in 1 .. Len(t), i # Len(h) + 1
               PROVE  ~IsAnswer(t[i])
    OBVIOUS
  <2>1. i \in 1 .. Len(h) /\ t[i] = h[i]
    BY <1>1
  <2> QED
    BY <2>1 DEF NoAnswer
<1>3. ~IsAnswer(ch) => NoAnswer(t)
  BY <1>1, <1>2 DEF NoAnswer
<1>4. IsAnswer(ch) => OneAnswer(t, Len(h) + 1, ch)
  BY <1>1, <1>2 DEF OneAnswer
<1> QED
  BY <1>3, <1>4 DEF t

LEMMA ReplySent ==
  ASSUME NEW h \in Seq(HostChars), NEW k, NEW a, OneAnswer(h, k, a),
         NEW ch \in HostChars, ~IsAnswer(ch)
  PROVE  OneAnswer(Append(h, ch), k, a) /\ Len(Append(h, ch)) = Len(h) + 1
         /\ Append(h, ch)[Len(h) + 1] = ch /\ k \in 1 .. Len(h) /\ Len(h) \in Nat
<1> DEFINE t == Append(h, ch)
<1>1. /\ Len(h) \in Nat /\ Len(t) = Len(h) + 1 /\ t[Len(h) + 1] = ch
      /\ \A i \in 1 .. Len(h) : t[i] = h[i]
  BY AppendProperties
<1> HIDE DEF t
<1>2. ASSUME NEW i \in 1 .. Len(t), i # k
      PROVE  ~IsAnswer(t[i])
  <2>1. CASE i = Len(h) + 1
    BY <1>1, <2>1
  <2>2. CASE i # Len(h) + 1
    <3>1. i \in 1 .. Len(h) /\ t[i] = h[i]
      BY <1>1, <2>2
    <3> QED
      BY <1>2, <3>1 DEF OneAnswer
  <2> QED
    BY <2>1, <2>2
<1>3. k \in 1 .. Len(h) /\ h[k] = a
  BY DEF OneAnswer
<1>4. k \in 1 .. Len(t) /\ t[k] = a
  BY <1>1, <1>3
<1>5. OneAnswer(t, k, a)
  BY <1>2, <1>4 DEF OneAnswer
<1> QED
  BY <1>1, <1>3, <1>5 DEF t

\* ... and what is heard, lost or damaged.
LEMMA QuietHeard ==
  ASSUME NEW h \in Seq(HostChars), NoAnswer(h), h # <<>>
  PROVE  ~IsAnswer(Head(h)) /\ NoAnswer(Tail(h)) /\ NoAnswer(<<Junk>> \o Tail(h))
<1> DEFINE t == Tail(h)
           u == <<Junk>> \o Tail(h)
<1>1. /\ Len(h) \in Nat \ {0} /\ Len(t) = Len(h) - 1 /\ Head(h) = h[1]
      /\ \A i \in 1 .. Len(t) : t[i] = h[i + 1]
  BY OneLess
<1>2. Junk \in HostChars /\ ~IsAnswer(Junk)
  BY DEF HostChars, IsAnswer, Junk, Plus, Minus
<1>3. Len(u) = Len(h) /\ u[1] = Junk /\ \A i \in 2 .. Len(h) : u[i] = h[i]
  BY <1>2, OneDamaged
<1> HIDE DEF t, u
<1>4. ~IsAnswer(Head(h))
  BY <1>1 DEF NoAnswer
<1>5. NoAnswer(t)
  <2> SUFFICES ASSUME NEW i \in 1 .. Len(t) PROVE ~IsAnswer(t[i])
    BY DEF NoAnswer
  <2>1. i + 1 \in 1 .. Len(h) /\ t[i] = h[i + 1]
    BY <1>1
  <2> QED
    BY <2>1 DEF NoAnswer
<1>6. NoAnswer(u)
  <2> SUFFICES ASSUME NEW i \in 1 .. Len(u), i # 1 PROVE ~IsAnswer(u[i])
    BY <1>2, <1>3 DEF NoAnswer
  <2>1. i \in 2 .. Len(h) /\ i \in 1 .. Len(h)
    BY <1>1, <1>3
  <2> QED
    BY <1>3, <2>1 DEF NoAnswer
<1> QED
  BY <1>4, <1>5, <1>6 DEF t, u

LEMMA AnswerHeard ==
  ASSUME NEW h \in Seq(HostChars), NEW k, NEW a, OneAnswer(h, k, a), h # <<>>
  PROVE  /\ Head(h) = h[1] /\ h[k] = a /\ k \in 1 .. Len(h)
         /\ k = 1 => NoAnswer(Tail(h)) /\ NoAnswer(<<Junk>> \o Tail(h))
         /\ k # 1 => /\ ~IsAnswer(Head(h))
                     /\ OneAnswer(Tail(h), k - 1, a)
                     /\ OneAnswer(<<Junk>> \o Tail(h), k, a)
<1> DEFINE t == Tail(h)
           u == <<Junk>> \o Tail(h)
<1>1. /\ Len(h) \in Nat \ {0} /\ Len(t) = Len(h) - 1 /\ Head(h) = h[1]
      /\ \A i \in 1 .. Len(t) : t[i] = h[i + 1]
  BY OneLess
<1>2. Junk \in HostChars /\ ~IsAnswer(Junk)
  BY DEF HostChars, IsAnswer, Junk, Plus, Minus
<1>3. Len(u) = Len(h) /\ u[1] = Junk /\ \A i \in 2 .. Len(h) : u[i] = h[i]
  BY <1>2, OneDamaged
<1>4. /\ k \in 1 .. Len(h) /\ h[k] = a
      /\ \A j \in 1 .. Len(h) : j # k => ~IsAnswer(h[j])
  BY DEF OneAnswer
<1> HIDE DEF t, u
<1>5. ASSUME NEW i \in 1 .. Len(t), i + 1 # k PROVE ~IsAnswer(t[i])
  <2>1. i + 1 \in 1 .. Len(h) /\ t[i] = h[i + 1]
    BY <1>1
  <2> QED
    BY <1>4, <1>5, <2>1
<1>6. ASSUME NEW i \in 1 .. Len(u), i # k PROVE ~IsAnswer(u[i])
  <2>1. CASE i = 1
    BY <1>2, <1>3, <2>1
  <2>2. CASE i # 1
    <3>1. i \in 2 .. Len(h) /\ i \in 1 .. Len(h)
      BY <1>1, <1>3, <2>2
    <3> QED
      BY <1>3, <1>4, <1>6, <3>1
  <2> QED
    BY <2>1, <2>2
<1>7. ASSUME k = 1 PROVE NoAnswer(t) /\ NoAnswer(u)
  <2>1. \A i \in 1 .. Len(t) : ~IsAnswer(t[i])
    BY <1>1, <1>5, <1>7
  <2>2. \A i \in 1 .. Len(u) : ~IsAnswer(u[i])
    BY <1>2, <1>3, <1>6, <1>7
  <2> QED
    BY <2>1, <2>2 DEF NoAnswer
<1>8. ASSUME k # 1 PROVE ~IsAnswer(Head(h)) /\ OneAnswer(t, k - 1, a) /\ OneAnswer(u, k, a)
  <2>1. ~IsAnswer(Head(h))
    BY <1>1, <1>4, <1>8
  <2>2. k - 1 \in 1 .. Len(t) /\ t[k - 1] = a
    BY <1>1, <1>4, <1>8
  <2>3. \A i \in 1 .. Len(t) : i # k - 1 => ~IsAnswer(t[i])
    BY <1>1, <1>4, <1>5
  <2>4. k \in 1 .. Len(u) /\ u[k] = a
    BY <1>1, <1>3, <1>4, <1>8
  <2> QED
    BY <1>6, <2>1, <2>2, <2>3, <2>4 DEF OneAnswer
<1> QED
  BY <1>1, <1>4, <1>7, <1>8 DEF t, u

-----------------------------------------------------------------------------
(* The steps of each side.                                                 *)

\* The stub keeps one digit at most.
LEMMA DigitsShort ==
  ASSUME NEW s \in Seq(Chars), Len(s) <= 1
  PROVE  Len(s) \in {0, 1}
<1> DEFINE n == Len(s)
<1>1. n \in Nat /\ n <= 1
  BY LenProperties
<1> HIDE DEF n
<1>2. n \in {0, 1}
  BY <1>1
<1> QED
  BY <1>2 DEF n

\* The distance, state by state of the stub.
LEMMA DistanceIs ==
  ASSUME TypeOK
  PROVE  /\ Distance \in 1 .. 5
         /\ pc \in {"run", "ack"} => Distance = 5
         /\ pc = "sync" => Distance = 4
         /\ pc = "data" => Distance = 3
         /\ pc = "sum" => Distance = 2 - Len(digits)
<1>1. Len(digits) \in {0, 1}
  BY DigitsShort DEF TypeOK
<1> QED
  BY <1>1 DEF TypeOK, Distance

LEMMA DistanceNext ==
  ASSUME TypeOK'
  PROVE  /\ Distance' \in 1 .. 5
         /\ pc' \in {"run", "ack"} => Distance' = 5
         /\ pc' = "sync" => Distance' = 4
         /\ pc' = "data" => Distance' = 3
         /\ pc' = "sum" => Distance' = 2 - Len(digits')
<1>1. Len(digits') \in {0, 1}
  BY DigitsShort DEF TypeOK
<1> QED
  BY <1>1 DEF TypeOK, Distance

\* A character that does not complete a packet brings the stub one closer at most.
Reads == RecvAck \/ Sync \/ Collect \/ FirstDigit

LEMMA ReadsStep ==
  ASSUME TypedInv, TypeOK', pc = "data" => digits = <<>>, Reads
  PROVE  /\ toStub # <<>> /\ toStub' = Tail(toStub)
         /\ toHost' = toHost /\ host' = host /\ times' = times
         /\ Distance >= 2 /\ Distance' >= Distance - 1
         /\ pc' = "data" => digits' = <<>>
<1> USE DEF Arrived
<1>1. /\ toStub # <<>> /\ toStub' = Tail(toStub)
      /\ toHost' = toHost /\ host' = host /\ times' = times
  BY DEF Reads, RecvAck, Sync, Collect, FirstDigit
<1>2. TypeOK
  BY DEF TypedInv
<1>3. CASE RecvAck
  <2>1. pc = "ack" /\ pc' = "sync"
    BY <1>3 DEF RecvAck
  <2> QED
    BY <1>1, <1>2, <2>1, DistanceIs, DistanceNext
<1>4. CASE Sync
  <2>1. pc = "sync" /\ pc' \in {"sync", "data"} /\ digits' = <<>>
    BY <1>4 DEF Sync
  <2> QED
    BY <1>1, <1>2, <2>1, DistanceIs, DistanceNext
<1>5. CASE Collect
  <2>1. pc = "data" /\ pc' \in {"sum", "run", "data"} /\ digits' = <<>>
    BY <1>5 DEF Collect
  <2>2. Len(digits') = 0
    BY <2>1
  <2> QED
    BY <1>1, <1>2, <2>1, <2>2, DistanceIs, DistanceNext
<1>6. CASE FirstDigit
  <2>1. pc = "sum" /\ digits = <<>> /\ pc' \in {"sum", "run"}
    BY <1>6 DEF FirstDigit
  <2>2. Len(digits) = 0
    BY <2>1
  <2>3. Len(digits') \in {0, 1}
    BY DigitsShort DEF TypeOK
  <2> QED
    BY <1>1, <1>2, <2>1, <2>2, <2>3, DistanceIs, DistanceNext
<1> QED
  BY <1>3, <1>4, <1>5, <1>6 DEF Reads

\* A packet that does not match: the stub gives up, with or without a '-'.
LEMMA RefuseStep ==
  ASSUME TypedInv, TypeOK', Refuse
  PROVE  /\ toStub # <<>> /\ toStub' = Tail(toStub)
         /\ toHost' = toHost \/ toHost' = Append(toHost, Minus)
         /\ host' = host /\ times' = times
         /\ Distance = 1 /\ Distance' = 5 /\ pc' = "run"
<1>1. TypeOK /\ pc = "sum" /\ Len(digits) = 1 /\ pc' = "run"
  BY DEF TypedInv, Refuse, Arrived
<1>2. Distance = 1 /\ Distance' = 5
  BY <1>1, DistanceIs, DistanceNext
<1> QED
  BY <1>1, <1>2 DEF Refuse, Arrived, Answer

\* A packet that matches is executed, acknowledged and, unless it is empty or
\* resumes the program, answered.
LEMMA ExecutesStep ==
  ASSUME TypedInv, NEW c \in Cmds, Execute(c)
  PROVE  /\ toStub # <<>> /\ toStub' = Tail(toStub) /\ Head(toStub) = Lo(c)
         /\ host' = host /\ times' \in Nat \ {0}
         /\ Distance = 1 /\ AfterExecute(c) /\ pc' # "data"
<1>1. TypeOK /\ pc = "sum" /\ Len(digits) = 1 /\ toStub # <<>> /\ toStub' = Tail(toStub)
  BY DEF TypedInv, Execute, Arrived
<1>2. Distance = 1
  BY <1>1, DistanceIs
<1>3. Head(toStub) = Lo(c)
  <2>1. Append(digits, Char) = Digits(c)
    BY DEF Execute, Matches
  <2>2. Char \in Chars /\ digits \in Seq(Chars)
    BY <1>1, HeadTailProperties DEF Char, TypeOK
  <2>3. Append(digits, Char)[Len(digits) + 1] = Char
    BY <2>2, AppendProperties
  <2>4. Digits(c)[2] = Lo(c) /\ Len(digits) + 1 = 2
    BY <1>1 DEF Digits, Lo
  <2>5. Append(digits, Char)[2] = Char
    BY <2>3, <2>4
  <2> QED
    BY <2>1, <2>4, <2>5 DEF Char
<1>4. times' \in Nat \ {0} /\ host' = host
  BY <1>1 DEF Execute, TypeOK
<1>5. pc' # "data"
  BY DEF Execute, AfterExecute
<1> QED
  BY <1>1, <1>2, <1>3, <1>4, <1>5 DEF Execute

-----------------------------------------------------------------------------
(* While the host waits for its '+'.                                       *)

\* The room for what is under way shrinks no faster than what is under way.
LEMMA RoomIs ==
  ASSUME NEW c \in Cmds, NEW l \in Nat, NEW m \in Nat, NEW d \in 1 .. 5, NEW e \in 1 .. 5,
         l < d + Len(Packet(c)), m - l <= e - d
  PROVE  m < e + Len(Packet(c))
<1> DEFINE n == Len(Packet(c))
<1>1. n \in Nat /\ l < d + n
  BY PacketEnds
<1> HIDE DEF n
<1>2. m < e + n
  BY <1>1
<1> QED
  BY <1>2 DEF n

\* The stub reads on.
LEMMA AskingReads ==
  ASSUME TypedInv, TypeOK', NEW c \in Cmds, Asking(c), pc = "data" => digits = <<>>, Reads
  PROVE  Asking(c)'
<1>1. /\ toStub # <<>> /\ toStub' = Tail(toStub) /\ toHost' = toHost
      /\ Distance >= 2 /\ Distance' >= Distance - 1
  BY ReadsStep
<1>2. toStub \in Seq(Chars) /\ Distance \in 1 .. 5 /\ Distance' \in 1 .. 5
  BY DistanceIs, DistanceNext DEF TypedInv, TypeOK
<1>3. Len(toStub) \in Nat \ {0} /\ Len(toStub') = Len(toStub) - 1
  BY <1>1, <1>2, OneLess
<1>4. UnderWay(c)'
  <2>1. LoLast(toStub', c)
    BY <1>1, <1>2, LoLastTail DEF Asking, UnderWay
  <2>2. Len(toStub') \in Nat /\ Len(toStub') - Len(toStub) <= Distance' - Distance
    BY <1>1, <1>2, <1>3
  <2>3. Len(toStub') < Distance' + Len(Packet(c))
    BY <1>2, <1>3, <2>2, RoomIs DEF Asking, UnderWay
  <2> QED
    BY <2>1, <2>3 DEF UnderWay
<1>5. Refused => Refused'
  BY <1>1, <1>2, <1>3 DEF Refused
<1>6. ~Done(c)
  BY <1>1 DEF Done
<1> QED
  BY <1>1, <1>4, <1>5, <1>6 DEF Asking

\* The stub gives up: only now is there an answer under way, and too little for
\* another one.
LEMMA AskingRefuse ==
  ASSUME TypedInv, TypeOK', NEW c \in Cmds, Asking(c), Refuse
  PROVE  Asking(c)'
<1>1. /\ toStub # <<>> /\ toStub' = Tail(toStub)
      /\ toHost' = toHost \/ toHost' = Append(toHost, Minus)
      /\ Distance = 1 /\ Distance' = 5
  BY RefuseStep
<1>2. toStub \in Seq(Chars) /\ toHost \in Seq(HostChars)
  BY DEF TypedInv, TypeOK
<1>3. Len(toStub) \in Nat \ {0} /\ Len(toStub') = Len(toStub) - 1
  BY <1>1, <1>2, OneLess
<1>4. UnderWay(c)'
  <2>1. LoLast(toStub', c)
    BY <1>1, <1>2, LoLastTail DEF Asking, UnderWay
  <2>2. Len(toStub') \in Nat /\ Len(toStub') - Len(toStub) <= Distance' - Distance
    BY <1>1, <1>3
  <2>3. Len(toStub') < Distance' + Len(Packet(c))
    BY <1>1, <1>3, <2>2, RoomIs DEF Asking, UnderWay
  <2> QED
    BY <2>1, <2>3 DEF UnderWay
<1>5. NoAnswer(toHost)
  <2>1. ~Done(c) /\ ~Refused
    BY <1>1, <1>3 DEF Done, Refused
  <2> QED
    BY <2>1 DEF Asking
<1>6. CASE toHost' = toHost
  BY <1>4, <1>5, <1>6 DEF Asking
<1>7. CASE toHost' = Append(toHost, Minus)
  <2>1. Minus \in HostChars /\ IsAnswer(Minus)
    BY DEF HostChars, IsAnswer
  <2>2. OneAnswer(toHost', Len(toHost) + 1, Minus)
    BY <1>2, <1>5, <1>7, <2>1, AnswerSent
  <2>3. Len(toStub') < Distance'
    <3> DEFINE n == Len(Packet(c))
    <3>1. n \in {4, 5} /\ Len(toStub) < 1 + n
      BY <1>1, PacketEnds DEF Asking, UnderWay
    <3> HIDE DEF n
    <3> QED
      BY <1>1, <1>3, <3>1
  <2>4. Len(toHost) + 1 \in 1 .. Len(toHost')
    BY <2>2 DEF OneAnswer
  <2>5. Refused'
    BY <2>2, <2>3, <2>4 DEF Refused
  <2> QED
    BY <1>4, <2>5 DEF Asking
<1> QED
  BY <1>1, <1>6, <1>7

\* The stub executes a command: it is the one the host asks for, and the last
\* digit of its packet was the last character under way.
LEMMA AskingExecutes ==
  ASSUME TypedInv, TypeOK', NEW c \in Cmds, Asking(c), NEW d \in Cmds, Execute(d)
  PROVE  d = c /\ Asking(c)'
<1>1. /\ toStub # <<>> /\ toStub' = Tail(toStub) /\ Head(toStub) = Lo(d)
      /\ times' \in Nat \ {0} /\ Distance = 1 /\ AfterExecute(d)
  BY ExecutesStep
<1>2. toStub \in Seq(Chars) /\ toHost \in Seq(HostChars)
  BY DEF TypedInv, TypeOK
<1>3. /\ Len(toStub) \in Nat \ {0} /\ Len(toStub') = Len(toStub) - 1 /\ toStub[1] = Lo(d)
      /\ toStub' \in Seq(Chars)
  BY <1>1, <1>2, OneLess
<1>4. d = c /\ Len(toStub) = 1
  <2> DEFINE n == Len(Packet(c))
  <2>1. n \in {4, 5} /\ Len(toStub) < 1 + n
    BY <1>1, PacketEnds DEF Asking, UnderWay
  <2>2. IsLo(toStub[1]) /\ 1 \in 1 .. Len(toStub)
    BY <1>3 DEF IsLo, Lo
  <2>3. toStub[1] = Lo(c) /\ (1 = Len(toStub) \/ 1 + n = Len(toStub))
    BY <2>2 DEF Asking, UnderWay, LoLast
  <2> HIDE DEF n
  <2>4. d = c
    BY <1>3, <2>3 DEF Lo
  <2> QED
    BY <1>3, <2>1, <2>3, <2>4
<1>5. toStub' = <<>>
  BY <1>3, <1>4, EmptySeq
<1>6. NoAnswer(toHost)
  <2>1. ~Done(c) /\ ~Refused
    BY <1>1, <1>4 DEF Done, Refused
  <2> QED
    BY <2>1 DEF Asking
<1>7. UnderWay(c)'
  <2>1. Len(toStub') = 0 /\ Distance' \in 1 .. 5
    BY <1>3, <1>4, DistanceNext
  <2>2. LoLast(toStub', c)
    BY <2>1 DEF LoLast
  <2>3. 0 < Distance' + Len(Packet(c))
    <3>1. 0 < 1 + Len(Packet(c))
      BY PacketEnds
    <3> QED
      BY <2>1, <3>1, RoomIs
  <2> QED
    BY <2>1, <2>2, <2>3 DEF UnderWay
<1>8. PICK k \in Nat : k = Len(toHost) + 1
  BY <1>2, LenProperties
<1> DEFINE h == Append(toHost, Plus)
<1>9. /\ Plus \in HostChars /\ IsAnswer(Plus) /\ Answer(TRUE) = h
      /\ h \in Seq(HostChars) /\ Len(h) = k /\ OneAnswer(h, k, Plus)
  <2>1. Plus \in HostChars /\ IsAnswer(Plus)
    BY DEF HostChars, IsAnswer
  <2> QED
    BY <1>2, <1>6, <1>8, <2>1, AnswerSent, AppendProperties DEF Answer
<1> HIDE DEF h
<1>10. OneAnswer(toHost', k, Plus) /\ Promised(pc', c, toHost', k)
  <2>1. CASE c \in Resumes
    <3>1. pc' = "run" /\ toHost' = h
      BY <1>1, <1>4, <1>9, <2>1, Names DEF AfterExecute
    <3> QED
      BY <1>9, <2>1, <3>1 DEF Promised
  <2>2. CASE c \in Queries
    <3>1. pc' = "ack" /\ toHost' = Append(h, Reply(c)) /\ c \notin Resumes /\ c # Empty
      BY <1>1, <1>4, <1>9, <2>2, Names DEF AfterExecute
    <3>2. Reply(c) \in HostChars /\ ~IsAnswer(Reply(c))
      BY Names DEF HostChars, IsAnswer
    <3>3. /\ OneAnswer(toHost', k, Plus) /\ Len(toHost') = Len(h) + 1
          /\ toHost'[Len(h) + 1] = Reply(c)
      BY <1>9, <3>1, <3>2, ReplySent
    <3> QED
      BY <1>9, <3>1, <3>3 DEF Promised, Expected
  <2>3. CASE c \notin Resumes /\ c \notin Queries
    <3>1. pc' = "sync" /\ toHost' = h /\ c = Empty
      BY <1>1, <1>4, <1>9, <2>3 DEF AfterExecute, Cmds
    <3> QED
      BY <1>9, <3>1 DEF Promised
  <2> QED
    BY <2>1, <2>2, <2>3
<1>11. Done(c)'
  <2>1. k \in 1 .. Len(toHost')
    BY <1>10 DEF OneAnswer
  <2> QED
    BY <1>1, <1>5, <1>10, <2>1 DEF Done
<1> QED
  BY <1>4, <1>7, <1>11 DEF Asking

\* The program traps: the signal packet goes behind what is under way, and after
\* c or s it is the reply.
LEMMA AskingTrap ==
  ASSUME TypedInv, TypeOK', NEW c \in Cmds, Asking(c), Trap
  PROVE  Asking(c)'
<1>1. /\ pc = "run" /\ pc' = "ack" /\ toHost' = Append(toHost, Reply(Stop))
      /\ toStub' = toStub /\ times' = times
  BY DEF Trap
<1>2. toHost \in Seq(HostChars) /\ Reply(Stop) \in HostChars /\ ~IsAnswer(Reply(Stop))
  BY Names DEF TypedInv, TypeOK, HostChars, IsAnswer
<1>3. Distance = 5 /\ Distance' = 5
  BY <1>1, DistanceIs, DistanceNext DEF TypedInv
<1>4. UnderWay(c)'
  BY <1>1, <1>3 DEF Asking, UnderWay
<1>5. CASE NoAnswer(toHost)
  BY <1>1, <1>2, <1>4, <1>5, AnswerSent DEF Asking
<1>6. CASE Refused
  <2>1. PICK k \in 1 .. Len(toHost) : OneAnswer(toHost, k, Minus)
    BY <1>6 DEF Refused
  <2>2. OneAnswer(toHost', k, Minus)
    BY <1>1, <1>2, <2>1, ReplySent
  <2>3. k \in 1 .. Len(toHost')
    BY <2>2 DEF OneAnswer
  <2>4. Refused'
    BY <1>1, <1>3, <1>6, <2>2, <2>3 DEF Refused
  <2> QED
    BY <1>4, <2>4 DEF Asking
<1>7. CASE Done(c)
  <2>1. PICK k \in 1 .. Len(toHost) : OneAnswer(toHost, k, Plus) /\ Promised(pc, c, toHost, k)
    BY <1>7 DEF Done
  <2>2. c \in Resumes /\ k = Len(toHost)
    BY <1>1, <2>1 DEF Promised
  <2>3. /\ OneAnswer(toHost', k, Plus) /\ Len(toHost') = Len(toHost) + 1
        /\ toHost'[Len(toHost) + 1] = Reply(Stop)
    BY <1>1, <1>2, <2>1, ReplySent
  <2>4. Expected(c) = Stop /\ c # Empty
    BY <2>2, Names DEF Expected
  <2>5. Promised(pc', c, toHost', k)
    BY <1>1, <2>2, <2>3, <2>4 DEF Promised
  <2>6. k \in 1 .. Len(toHost')
    BY <2>3 DEF OneAnswer
  <2>7. Done(c)'
    BY <1>1, <1>7, <2>3, <2>5, <2>6 DEF Done
  <2> QED
    BY <1>4, <2>7 DEF Asking
<1> QED
  BY <1>5, <1>6, <1>7 DEF Asking

\* The host sends its command, again or for the first time, behind too little for
\* an answer.
LEMMA AskingSends ==
  ASSUME TypeOK, NEW c \in Cmds, LoLast(toStub, c), Len(toStub) < Distance,
         Sends(Packet(c)), UNCHANGED stub
  PROVE  UnderWay(c)'
<1> DEFINE n == Len(Packet(c))
<1>1. toStub \in Seq(Chars) /\ Len(toStub) \in Nat
  BY LenProperties DEF TypeOK
<1>2. Distance \in 1 .. 5 /\ Distance' = Distance
  BY DistanceIs DEF stub, Distance
<1>3. toStub' = toStub \o Packet(c)
  BY DEF Sends
<1>4. Len(toStub) <= 4 /\ n \in Nat
  BY <1>1, <1>2, PacketEnds
<1>5. Len(toStub') = Len(toStub) + n /\ LoLast(toStub', c)
  BY <1>1, <1>3, <1>4, LoLastSent
<1>6. UnderWay(c)' <=> Len(toStub') < Distance' + n /\ LoLast(toStub', c)
  BY DEF UnderWay
<1> HIDE DEF n
<1>7. Len(toStub') < Distance' + n
  BY <1>1, <1>2, <1>4, <1>5
<1> QED
  BY <1>5, <1>6, <1>7

\* Nothing is under way when the host's time runs out.
LEMMA AskingTimeout ==
  ASSUME TypedInv, NEW c \in Cmds, Asking(c), host[1] = "ack", host[2] = c, Timeout
  PROVE  Asking(c)' /\ host' = host /\ UNCHANGED stub
<1>1. /\ Quiet /\ Sends(Packet(c)) /\ host' = host /\ UNCHANGED stub
      /\ toHost' = toHost
  BY DEF Timeout
<1>2. Len(toStub) = 0 /\ Len(toHost) = 0 /\ Distance \in 1 .. 5
  BY <1>1, EmptySeq, DistanceIs DEF Quiet, TypedInv
<1>3. UnderWay(c)'
  BY <1>1, <1>2, AskingSends DEF TypedInv, Asking, UnderWay
<1>4. NoAnswer(toHost)
  BY <1>2 DEF NoAnswer
<1> QED
  BY <1>1, <1>3, <1>4 DEF Asking

\* Noise on the way to the stub: what is under way gets no longer.
LEMMA AskingDisturbStub ==
  ASSUME TypedInv, NEW c \in Cmds, Asking(c), DisturbStub
  PROVE  Asking(c)'
<1>1. /\ toStub # <<>> /\ toHost' = toHost /\ UNCHANGED stub
      /\ \/ toStub' = Tail(toStub)
         \/ \E ch \in Damaged : toStub' = <<ch>> \o Tail(toStub)
  BY DEF DisturbStub
<1>2. toStub \in Seq(Chars) /\ Distance \in 1 .. 5 /\ Distance' = Distance
  BY <1>1, DistanceIs DEF TypedInv, TypeOK, stub, Distance
<1>3. Len(toStub) \in Nat \ {0} /\ Len(toStub') \in {Len(toStub), Len(toStub) - 1}
  <2>1. Len(toStub) \in Nat \ {0} /\ Len(Tail(toStub)) = Len(toStub) - 1
    BY <1>1, <1>2, OneLess
  <2>2. \A ch \in Damaged : Len(<<ch>> \o Tail(toStub)) = Len(toStub)
    BY <1>1, <1>2, OneDamaged, NoDigit
  <2> QED
    BY <1>1, <2>1, <2>2
<1>4. LoLast(toStub', c)
  BY <1>1, <1>2, LoLastTail, LoLastDamaged DEF Asking, UnderWay
<1>5. UnderWay(c)'
  <2>1. Len(toStub') \in Nat /\ Len(toStub') - Len(toStub) <= Distance' - Distance
    BY <1>2, <1>3
  <2>2. Len(toStub') < Distance' + Len(Packet(c))
    BY <1>2, <1>3, <2>1, RoomIs DEF Asking, UnderWay
  <2> QED
    BY <1>4, <2>2 DEF UnderWay
<1>6. Refused => Refused'
  BY <1>1, <1>2, <1>3 DEF Refused
<1>7. ~Done(c)
  BY <1>1 DEF Done
<1> QED
  BY <1>1, <1>5, <1>6, <1>7 DEF Asking

\* What was promised moves up when the character before it goes.
LEMMA PromisedOn ==
  ASSUME NEW p, NEW c, NEW h \in Seq(HostChars), h # <<>>,
         NEW k \in 1 .. Len(h), k # 1, Promised(p, c, h, k)
  PROVE  Promised(p, c, Tail(h), k - 1) /\ Promised(p, c, <<Junk>> \o Tail(h), k)
<1> DEFINE t == Tail(h)
           u == <<Junk>> \o Tail(h)
           n == Len(h)
<1>1. /\ n \in Nat \ {0} /\ Len(t) = n - 1 /\ \A i \in 1 .. Len(t) : t[i] = h[i + 1]
      /\ k \in 1 .. n
  BY OneLess
<1>2. Len(u) = n /\ \A i \in 2 .. n : u[i] = h[i]
  <2>1. Junk \in HostChars
    BY DEF HostChars
  <2> QED
    BY <2>1, OneDamaged
<1>3. \/ p = "run" /\ c \in Resumes /\ k = n
      \/ p = "sync" /\ c = Empty /\ k = n
      \/ p = "ack" /\ c # Empty /\ k + 1 = n /\ h[k + 1] = Reply(Expected(c))
  BY DEF Promised
<1> HIDE DEF t, u, n
<1>4. CASE k = n
  <2>1. k - 1 = Len(t) /\ k = Len(u) /\ k + 1 # n
    BY <1>1, <1>2, <1>4
  <2> QED
    BY <1>3, <2>1 DEF Promised, t, u
<1>5. CASE k + 1 = n
  <2>1. (k - 1) + 1 = Len(t) /\ k + 1 = Len(u) /\ k # n
    BY <1>1, <1>2, <1>5
  <2>2. (k - 1) + 1 \in 1 .. Len(t) /\ ((k - 1) + 1) + 1 = k + 1 /\ k + 1 \in 2 .. n
    BY <1>1, <1>5, <2>1
  <2>3. t[(k - 1) + 1] = h[k + 1] /\ u[k + 1] = h[k + 1]
    <3>1. t[(k - 1) + 1] = h[((k - 1) + 1) + 1]
      BY <1>1, <2>2
    <3> QED
      BY <1>2, <2>2, <3>1
  <2> QED
    BY <1>3, <2>1, <2>3 DEF Promised, t, u
<1> QED
  BY <1>3, <1>4, <1>5

\* The first character under way to the host goes, or is damaged; unless it is
\* the answer, nothing else changes.
LEMMA AskingLess ==
  ASSUME TypedInv, NEW c \in Cmds, Asking(c), toHost # <<>>,
         UNCHANGED <<toStub, stub, times>>,
         \/ toHost' = Tail(toHost) /\ ~IsAnswer(Head(toHost))
         \/ toHost' = <<Junk>> \o Tail(toHost) /\ ~IsAnswer(Head(toHost))
         \/ toHost' = Tail(toHost) /\ NoAnswer(Tail(toHost))
         \/ toHost' = <<Junk>> \o Tail(toHost) /\ NoAnswer(<<Junk>> \o Tail(toHost))
  PROVE  Asking(c)'
<1>1. /\ toHost \in Seq(HostChars) /\ toStub' = toStub /\ times' = times
      /\ pc' = pc /\ Distance' = Distance
  BY DEF TypedInv, TypeOK, stub, Distance
<1>2. UnderWay(c)'
  BY <1>1 DEF Asking, UnderWay
<1>3. CASE NoAnswer(toHost')
  BY <1>2, <1>3 DEF Asking
<1>4. CASE ~NoAnswer(toHost')
  <2>1. ~IsAnswer(Head(toHost)) /\ ~NoAnswer(toHost)
    BY <1>1, <1>4, QuietHeard
  <2>2. IsAnswer(Plus) /\ IsAnswer(Minus)
    BY DEF IsAnswer
  <2>3. CASE Refused
    <3>1. PICK k \in 1 .. Len(toHost) : OneAnswer(toHost, k, Minus)
      BY <2>3 DEF Refused
    <3>2. k # 1
      BY <1>1, <2>1, <2>2, <3>1, AnswerHeard
    <3>3. \E j \in 1 .. Len(toHost') : OneAnswer(toHost', j, Minus)
      <4>1. /\ OneAnswer(Tail(toHost), k - 1, Minus)
            /\ OneAnswer(<<Junk>> \o Tail(toHost), k, Minus)
        BY <1>1, <3>1, <3>2, AnswerHeard
      <4>2. CASE toHost' = Tail(toHost)
        <5>1. OneAnswer(toHost', k - 1, Minus) /\ k - 1 \in 1 .. Len(toHost')
          BY <4>1, <4>2 DEF OneAnswer
        <5> QED
          BY <5>1
      <4>3. CASE toHost' = <<Junk>> \o Tail(toHost)
        <5>1. OneAnswer(toHost', k, Minus) /\ k \in 1 .. Len(toHost')
          BY <4>1, <4>3 DEF OneAnswer
        <5> QED
          BY <5>1
      <4> QED
        BY <4>2, <4>3
    <3>4. Refused'
      BY <1>1, <2>3, <3>3 DEF Refused
    <3> QED
      BY <1>2, <3>4 DEF Asking
  <2>4. CASE Done(c)
    <3>1. PICK k \in 1 .. Len(toHost) : OneAnswer(toHost, k, Plus) /\ Promised(pc, c, toHost, k)
      BY <2>4 DEF Done
    <3>2. k # 1
      BY <1>1, <2>1, <2>2, <3>1, AnswerHeard
    <3>3. CASE toHost' = Tail(toHost)
      <4>1. PICK j \in Nat : j = k - 1
        BY <3>2
      <4>2. OneAnswer(toHost', j, Plus) /\ j \in 1 .. Len(toHost')
        BY <1>1, <3>1, <3>2, <3>3, <4>1, AnswerHeard DEF OneAnswer
      <4>3. Promised(pc', c, toHost', j)
        BY <1>1, <3>1, <3>2, <3>3, <4>1, PromisedOn
      <4>4. Done(c)'
        BY <1>1, <2>4, <4>2, <4>3 DEF Done
      <4> QED
        BY <1>2, <4>4 DEF Asking
    <3>4. CASE toHost' = <<Junk>> \o Tail(toHost)
      <4>1. OneAnswer(toHost', k, Plus) /\ k \in 1 .. Len(toHost')
        BY <1>1, <3>1, <3>2, <3>4, AnswerHeard DEF OneAnswer
      <4>2. Promised(pc', c, toHost', k)
        BY <1>1, <3>1, <3>2, <3>4, PromisedOn
      <4>3. Done(c)'
        BY <1>1, <2>4, <4>1, <4>2 DEF Done
      <4> QED
        BY <1>2, <4>3 DEF Asking
    <3> QED
      BY <3>3, <3>4
  <2> QED
    BY <2>1, <2>3, <2>4 DEF Asking
<1> QED
  BY <1>3, <1>4

\* Noise that forges nothing loses the first character or makes it unreadable.
LEMMA NothingForged ==
  ASSUME DisturbHost, ~forged'
  PROVE  toHost' = Tail(toHost) \/ toHost' = <<Junk>> \o Tail(toHost)
  BY DEF DisturbHost, DamagedToHost

\* Noise on the way to the host.
LEMMA AskingDisturbHost ==
  ASSUME TypedInv, NEW c \in Cmds, Asking(c), DisturbHost, ~forged'
  PROVE  Asking(c)'
<1>1. /\ toHost # <<>> /\ UNCHANGED <<toStub, stub, times>> /\ toHost \in Seq(HostChars)
      /\ toHost' = Tail(toHost) \/ toHost' = <<Junk>> \o Tail(toHost)
  BY NothingForged DEF DisturbHost, TypedInv, TypeOK
<1>2. CASE ~IsAnswer(Head(toHost))
  BY <1>1, <1>2, AskingLess
<1>3. CASE IsAnswer(Head(toHost))
  <2>1. NoAnswer(Tail(toHost)) /\ NoAnswer(<<Junk>> \o Tail(toHost))
    <3>1. ~NoAnswer(toHost)
      BY <1>1, <1>3, QuietHeard
    <3>2. \E k, a : OneAnswer(toHost, k, a)
      BY <3>1 DEF Asking, Refused, Done
    <3> QED
      BY <1>1, <1>3, <3>2, AnswerHeard
  <2> QED
    BY <1>1, <2>1, AskingLess
<1> QED
  BY <1>2, <1>3

\* The host goes on waiting for a '+'.
LEMMA StillAsking ==
  ASSUME NEW c \in Cmds, host[1] = "ack", host[2] = c, host' = host, Asking(c)',
         pc' = "data" => digits' = <<>>
  PROVE  NoisyInv'
<1>1. host'[1] = "ack" /\ host'[2] = c
  OBVIOUS
<1>2. host'[1] # "reply" /\ host'[1] # "idle"
  BY <1>1
<1>3. Asking(host[2])'
  BY <1>1
<1> QED
  BY <1>1, <1>2, <1>3 DEF NoisyInv

\* Sequences of one character.
LEMMA OneLong ==
  ASSUME NEW S, NEW s \in Seq(S), Len(s) = 1
  PROVE  s = <<s[1]>>
<1>1. s[1] \in S
  BY ElementOfSeq
<1>2. <<s[1]>> \in Seq(S) /\ Len(<<s[1]>>) = 1 /\ \A i \in 1 .. 1 : s[i] = <<s[1]>>[i]
  BY <1>1
<1> QED
  BY <1>2, SeqEqual

\* The host hears the '+': its command is executed, and nothing but the reply is
\* under way.
LEMMA AskingDone ==
  ASSUME TypedInv, NEW c \in Cmds, host[1] = "ack", host[2] = c, HearAck,
         times > 0, toStub = <<>>, Head(toHost) = Plus, Promised(pc, c, toHost, 1)
  PROVE  NoisyInv'
<1>1. /\ toHost # <<>> /\ toHost \in Seq(HostChars) /\ toHost' = Tail(toHost)
      /\ toStub' = <<>> /\ times' > 0 /\ pc' = pc /\ digits' = digits
      /\ host' = IF c = Empty THEN <<"idle", Empty>>
                 ELSE <<"reply", IF c \in Resumes THEN Stop ELSE c>>
  BY Names DEF HearAck, Heard, TypedInv, TypeOK, stub
<1>2. /\ toHost' \in Seq(HostChars) /\ Len(toHost) \in Nat \ {0}
      /\ Len(toHost') = Len(toHost) - 1
      /\ \A i \in 1 .. Len(toHost') : toHost'[i] = toHost[i + 1]
  BY <1>1, OneLess
<1>3. CASE pc = "run" \/ pc = "sync"
  <2>1. Len(toHost) = 1 /\ (pc = "run" => c \in Resumes) /\ (pc = "sync" => c = Empty)
    BY <1>3 DEF Promised
  <2>2. toHost' = <<>>
    BY <1>2, <2>1, EmptySeq
  <2>3. CASE pc = "run"
    <3>1. host' = <<"reply", Stop>> /\ pc' = "run"
      BY <1>1, <2>1, <2>3, Names
    <3>2. host'[1] = "reply" /\ host'[2] = Stop
      BY <3>1
    <3>3. Waiting(host[2])'
      BY <1>1, <2>2, <3>1, <3>2 DEF Waiting
    <3> QED
      BY <3>1, <3>2, <3>3 DEF NoisyInv
  <2>4. CASE pc = "sync"
    <3>1. host' = <<"idle", Empty>> /\ pc' = "sync"
      BY <1>1, <2>1, <2>4
    <3>2. host'[1] = "idle"
      BY <3>1
    <3>3. Resting'
      BY <1>1, <2>2, <3>1 DEF Resting
    <3> QED
      BY <3>1, <3>2, <3>3 DEF NoisyInv
  <2> QED
    BY <1>3, <2>3, <2>4
<1>4. CASE pc = "ack"
  <2>1. Len(toHost) = 2 /\ c # Empty /\ toHost[2] = Reply(Expected(c))
    <3>1. 1 + 1 = Len(toHost) /\ c # Empty /\ toHost[1 + 1] = Reply(Expected(c)) /\ 1 + 1 = 2
      BY <1>4 DEF Promised
    <3> QED
      BY ONLY <3>1
  <2>2. Len(toHost') = 1 /\ toHost'[1] = Reply(Expected(c))
    <3>1. Len(toHost') = 1
      BY <1>2, <2>1
    <3>2. 1 \in 1 .. Len(toHost') /\ 1 + 1 = 2
      BY <3>1
    <3>3. toHost'[1] = toHost[1 + 1]
      BY <1>2, <3>2
    <3> QED
      BY <2>1, <3>1, <3>2, <3>3
  <2>3. toHost' = <<Reply(Expected(c))>>
    BY <1>2, <2>2, OneLong
  <2>4. host' = <<"reply", Expected(c)>> /\ pc' = "ack"
    BY <1>1, <1>4, <2>1 DEF Expected
  <2>5. host'[1] = "reply" /\ host'[2] = Expected(c)
    BY <2>4
  <2>6. Waiting(host[2])'
    BY <1>1, <2>3, <2>4, <2>5 DEF Waiting
  <2> QED
    BY <2>4, <2>5, <2>6 DEF NoisyInv
<1> QED
  BY <1>3, <1>4 DEF Promised

LEMMA AskingHears ==
  ASSUME TypedInv, NoisyInv, NEW c \in Cmds, host[1] = "ack", host[2] = c, HearAck
  PROVE  NoisyInv'
<1>1. /\ Asking(c) /\ toHost # <<>> /\ toHost \in Seq(HostChars) /\ toHost' = Tail(toHost)
      /\ UNCHANGED stub /\ UNCHANGED times /\ TypeOK
  BY DEF HearAck, Heard, NoisyInv, TypedInv, TypeOK
<1>2. pc' = "data" => digits' = <<>>
  BY <1>1 DEF NoisyInv, stub
<1>3. CASE ~IsAnswer(Head(toHost))
  <2>1. toStub' = toStub /\ host' = host
    BY <1>3 DEF HearAck, IsAnswer
  <2>2. Asking(c)'
    BY <1>1, <1>3, <2>1, AskingLess
  <2> QED
    BY <1>2, <2>1, <2>2, StillAsking
<1>4. CASE IsAnswer(Head(toHost))
  <2>1. ~NoAnswer(toHost)
    BY <1>1, <1>4, QuietHeard
  <2>2. CASE Refused
    <3>1. PICK k \in 1 .. Len(toHost) : OneAnswer(toHost, k, Minus)
      BY <2>2 DEF Refused
    <3>2. k = 1 /\ Head(toHost) = Minus /\ NoAnswer(Tail(toHost))
      BY <1>1, <1>4, <3>1, AnswerHeard
    <3>3. Sends(Packet(c)) /\ host' = host
      BY <3>2, Names DEF HearAck
    <3>4. UnderWay(c)'
      BY <1>1, <2>2, <3>3, AskingSends DEF Asking, UnderWay, Refused
    <3>5. Asking(c)'
      BY <1>1, <3>2, <3>4 DEF Asking
    <3> QED
      BY <1>2, <3>3, <3>5, StillAsking
  <2>3. CASE Done(c)
    <3>1. PICK k \in 1 .. Len(toHost) :
            OneAnswer(toHost, k, Plus) /\ Promised(pc, c, toHost, k)
      BY <2>3 DEF Done
    <3>2. k = 1 /\ Head(toHost) = Plus
      BY <1>1, <1>4, <3>1, AnswerHeard
    <3> QED
      BY <2>3, <3>1, <3>2, AskingDone DEF Done
  <2> QED
    BY <1>1, <2>1, <2>2, <2>3 DEF Asking
<1> QED
  BY <1>3, <1>4

\* While the host waits for its '+'.
LEMMA AskingStep ==
  ASSUME TypedInv, TypeOK', NoisyInv, Next, ~forged', host[1] = "ack"
  PROVE  NoisyInv'
<1>1. PICK c \in Cmds : c = host[2]
  BY DEF TypedInv
<1>2. Asking(c) /\ (pc = "data" => digits = <<>>)
  BY <1>1 DEF NoisyInv
<1>3. CASE Trap
  <2>1. Asking(c)' /\ host' = host /\ pc' # "data"
    BY <1>2, <1>3, AskingTrap DEF Trap
  <2> QED
    BY <1>1, <2>1, StillAsking
<1>4. CASE Reads
  <2>1. Asking(c)' /\ host' = host /\ (pc' = "data" => digits' = <<>>)
    BY <1>2, <1>4, AskingReads, ReadsStep
  <2> QED
    BY <1>1, <2>1, StillAsking
<1>5. CASE Refuse
  <2>1. Asking(c)' /\ host' = host /\ pc' # "data"
    BY <1>2, <1>5, AskingRefuse, RefuseStep
  <2> QED
    BY <1>1, <2>1, StillAsking
<1>6. CASE \E d \in Cmds : Execute(d)
  <2>1. Asking(c)' /\ host' = host /\ pc' # "data"
    BY <1>2, <1>6, AskingExecutes, ExecutesStep
  <2> QED
    BY <1>1, <2>1, StillAsking
<1>7. CASE HearAck
  BY <1>1, <1>7, AskingHears
<1>8. CASE Timeout
  <2>1. Asking(c)' /\ host' = host /\ pc' = pc /\ digits' = digits
    BY <1>1, <1>2, <1>8, AskingTimeout DEF stub
  <2> QED
    BY <1>1, <1>2, <2>1, StillAsking
<1>9. CASE DisturbStub
  <2>1. Asking(c)' /\ host' = host /\ pc' = pc /\ digits' = digits
    BY <1>2, <1>9, AskingDisturbStub DEF DisturbStub, stub
  <2> QED
    BY <1>1, <1>2, <2>1, StillAsking
<1>10. CASE DisturbHost
  <2>1. Asking(c)' /\ host' = host /\ pc' = pc /\ digits' = digits
    BY <1>2, <1>10, AskingDisturbHost DEF DisturbHost, stub
  <2> QED
    BY <1>1, <1>2, <2>1, StillAsking
<1>11. ~HearReply /\ \A d \in Cmds : ~SendCommand(d)
  BY DEF HearReply, SendCommand
<1> QED
  BY <1>3, <1>4, <1>5, <1>6, <1>7, <1>8, <1>9, <1>10, <1>11
     DEF Next, StubReads, HostReads, Reads

-----------------------------------------------------------------------------
(* While the host waits for a reply, and while it asks for nothing.        *)

\* The host goes on waiting for a reply.
LEMMA StillWaiting ==
  ASSUME host[1] = "reply", host' = host, Waiting(host[2])', pc' # "data"
  PROVE  NoisyInv'
<1>1. host'[1] = "reply" /\ host'[1] # "ack" /\ host'[1] # "idle"
  OBVIOUS
<1> QED
  BY <1>1 DEF NoisyInv

\* The host rests.
LEMMA StillResting ==
  ASSUME host'[1] = "idle", Resting', pc' = "data" => digits' = <<>>
  PROVE  NoisyInv'
<1>1. host'[1] # "reply" /\ host'[1] # "ack"
  OBVIOUS
<1> QED
  BY <1>1 DEF NoisyInv

\* A sequence of one character is empty when it is read or lost.
LEMMA OneRead ==
  ASSUME NEW S, NEW s \in Seq(S), Len(s) = 1
  PROVE  s # <<>> /\ Tail(s) = <<>> /\ \A ch \in S : Len(<<ch>> \o Tail(s)) = 1 /\
                                                     (<<ch>> \o Tail(s))[1] = ch
<1>1. s = <<s[1]>>
  BY OneLong
<1>2. s # <<>> /\ Tail(s) = <<>>
  BY <1>1, Grow
<1>3. ASSUME NEW ch \in S PROVE Len(<<ch>> \o Tail(s)) = 1 /\ (<<ch>> \o Tail(s))[1] = ch
  BY <1>2, OneDamaged
<1> QED
  BY <1>2, <1>3

\* One character that is no last digit, lost or damaged, stays one at most.
LEMMA OneDisturbed ==
  ASSUME TypeOK, Len(toStub) = 1, DisturbStub
  PROVE  /\ toHost' = toHost /\ UNCHANGED <<host, stub, times>>
         /\ toStub' = <<>> \/ (Len(toStub') = 1 /\ ~IsLo(toStub'[1]))
<1>1. toStub \in Seq(Chars)
  BY DEF TypeOK
<1>2. Tail(toStub) = <<>>
  BY <1>1, OneRead
<1>3. \A ch \in Damaged : /\ Len(<<ch>> \o Tail(toStub)) = 1
                          /\ (<<ch>> \o Tail(toStub))[1] = ch /\ ~IsLo(ch)
  BY <1>1, OneRead, NoDigit
<1> QED
  BY <1>2, <1>3 DEF DisturbStub

LEMMA WaitingStep ==
  ASSUME TypedInv, NoisyInv, Next, ~forged', host[1] = "reply"
  PROVE  NoisyInv'
<1>1. Waiting(host[2]) /\ TypeOK /\ ~HearAck /\ \A c \in Cmds : ~SendCommand(c)
  BY DEF NoisyInv, TypedInv, HearAck, SendCommand
<1>2. CASE /\ toStub = <<>> /\ toHost = <<>>
           /\ pc \in {"ack", "sync"} \/ (pc = "run" /\ host[2] = Stop)
  <2>1. ~StubReads /\ ~HearReply /\ ~DisturbStub /\ ~DisturbHost
    BY <1>2, NothingToRead DEF HearReply, Heard, DisturbStub, DisturbHost
  <2>2. CASE Trap
    <3>1. pc = "run" /\ host[2] = Stop
      BY <1>2, <2>2 DEF Trap
    <3>2. /\ pc' = "ack" /\ toHost' = Append(<<>>, Reply(Stop)) /\ toStub' = <<>>
          /\ host' = host /\ times' = times
      BY <1>2, <2>2 DEF Trap
    <3>3. toHost' = <<Reply(Stop)>>
      BY <3>2, Grow
    <3>4. Waiting(host[2])'
      BY <1>1, <3>1, <3>2, <3>3 DEF Waiting
    <3> QED
      BY <3>2, <3>4, StillWaiting
  <2>3. CASE Timeout
    <3>1. /\ host[2] # Stop /\ toStub' = <<>> \o <<Minus>> /\ host' = <<"idle", host[2]>>
          /\ toHost' = <<>> /\ pc' = pc
      BY <1>2, <2>3 DEF Timeout, Sends, stub
    <3>2. toStub' = <<Minus>> /\ Len(<<Minus>>) = 1 /\ ~IsLo(<<Minus>>[1])
      BY <3>1, Grow DEF IsLo, Minus
    <3>3. pc' \in {"ack", "sync"}
      BY <1>2, <3>1
    <3>4. Resting'
      BY <3>1, <3>2, <3>3 DEF Resting
    <3> QED
      BY <3>1, <3>3, <3>4, StillResting
  <2> QED
    BY <1>1, <2>1, <2>2, <2>3 DEF Next, HostReads
<1>3. CASE toStub = <<>> /\ toHost \in {<<Junk>>, <<Reply(host[2])>>} /\ pc = "ack"
  <2>1. /\ toHost # <<>> /\ Tail(toHost) = <<>> /\ Head(toHost) \in {Junk, Reply(host[2])}
        /\ <<Junk>> \o <<>> = <<Junk>>
    <3>1. \A ch : <<ch>> # <<>> /\ Tail(<<ch>>) = <<>> /\ Head(<<ch>>) = ch
      BY Grow
    <3>2. Junk \in HostChars
      BY DEF HostChars
    <3>3. <<Junk>> \in Seq(HostChars)
      BY <3>2
    <3> QED
      BY <1>3, <3>1, <3>3, ConcatEmptySeq
  <2>2. ~StubReads /\ ~Trap /\ ~Timeout /\ ~DisturbStub
    BY <1>3, <2>1, NothingToRead DEF Trap, Timeout, Quiet, DisturbStub
  <2>3. CASE HearReply
    <3>1. /\ toHost' = <<>> /\ pc' = "ack" /\ times' = times
          /\ \/ toStub' = <<>> \o <<Plus>> /\ host' = <<"idle", host[2]>>
             \/ toStub' = <<>> \o <<Minus>> /\ host' = host
      BY <1>3, <2>1, <2>3, Names DEF HearReply, Sends, stub
    <3>2. \A ch \in {Plus, Minus} : /\ <<>> \o <<ch>> = <<ch>>
                                    /\ Len(<<ch>>) = 1 /\ ~IsLo(<<ch>>[1])
      BY Grow DEF IsLo, Plus, Minus
    <3>3. CASE toStub' = <<>> \o <<Plus>> /\ host' = <<"idle", host[2]>>
      <4>1. Len(toStub') = 1 /\ ~IsLo(toStub'[1])
        BY <3>2, <3>3
      <4>2. Resting'
        BY <3>1, <4>1 DEF Resting
      <4> QED
        BY <3>1, <3>3, <4>2, StillResting
    <3>4. CASE toStub' = <<>> \o <<Minus>> /\ host' = host
      <4>1. Len(toStub') = 1 /\ ~IsLo(toStub'[1])
        BY <3>2, <3>4
      <4>2. Waiting(host[2])'
        BY <1>1, <3>1, <4>1 DEF Waiting
      <4> QED
        BY <3>1, <3>4, <4>2, StillWaiting
    <3> QED
      BY <3>1, <3>3, <3>4
  <2>4. CASE DisturbHost
    <3>1. /\ toHost' = <<>> \/ toHost' = <<Junk>>
          /\ toStub' = <<>> /\ pc' = "ack" /\ host' = host /\ times' = times
      BY <1>3, <2>1, <2>4, NothingForged DEF DisturbHost, stub
    <3>2. Waiting(host[2])'
      BY <1>1, <3>1 DEF Waiting
    <3> QED
      BY <3>1, <3>2, StillWaiting
  <2> QED
    BY <1>1, <2>2, <2>3, <2>4 DEF Next, HostReads
<1>4. CASE Len(toStub) = 1 /\ ~IsLo(toStub[1]) /\ toHost = <<>> /\ pc = "ack"
  <2>1. toStub # <<>> /\ Tail(toStub) = <<>>
    BY <1>1, <1>4, OneRead DEF TypeOK
  <2>2. ~Trap /\ ~HearReply /\ ~Timeout /\ ~DisturbHost
    BY <1>4, <2>1 DEF Trap, HearReply, Heard, Timeout, Quiet, DisturbHost
  <2>3. CASE StubReads
    <3>1. RecvAck
      BY <1>4, <2>3 DEF StubReads, Sync, Collect, FirstDigit, Refuse, Execute, Arrived
    <3>2. toStub' = <<>> /\ pc' = "sync" /\ toHost' = <<>> /\ host' = host /\ times' = times
      BY <1>4, <2>1, <3>1 DEF RecvAck
    <3>3. Waiting(host[2])'
      BY <1>1, <3>2 DEF Waiting
    <3> QED
      BY <3>2, <3>3, StillWaiting
  <2>4. CASE DisturbStub
    <3>1. /\ toHost' = <<>> /\ host' = host /\ pc' = "ack" /\ times' = times
          /\ toStub' = <<>> \/ (Len(toStub') = 1 /\ ~IsLo(toStub'[1]))
      BY <1>1, <1>4, <2>4, OneDisturbed DEF stub
    <3>2. Waiting(host[2])'
      BY <1>1, <3>1 DEF Waiting
    <3> QED
      BY <3>1, <3>2, StillWaiting
  <2> QED
    BY <1>1, <2>2, <2>3, <2>4 DEF Next, HostReads
<1> QED
  BY <1>1, <1>2, <1>3, <1>4 DEF Waiting

LEMMA RestingStep ==
  ASSUME TypedInv, NoisyInv, Next, host[1] = "idle"
  PROVE  NoisyInv'
<1>1. /\ Resting /\ TypeOK /\ toHost = <<>> /\ (pc = "data" => digits = <<>>)
      /\ ~HearAck /\ ~HearReply /\ ~Timeout /\ ~DisturbHost /\ ~Trap
  BY DEF NoisyInv, Resting, TypedInv, HearAck, HearReply, Timeout, DisturbHost, Trap
<1>2. CASE \E c \in Cmds : SendCommand(c)
  <2>1. PICK c \in Cmds : SendCommand(c)
    BY <1>2
  <2>2. /\ host' = <<"ack", c>> /\ Sends(Packet(c)) /\ UNCHANGED stub /\ toHost' = <<>>
        /\ pc' = pc /\ digits' = digits
    BY <1>1, <2>1 DEF SendCommand, stub
  <2>3. Len(toStub) < Distance /\ LoLast(toStub, c)
    <3>1. CASE toStub = <<>> /\ pc \in {"ack", "sync", "data"}
      <4>1. Len(toStub) = 0 /\ Distance \in 1 .. 5
        BY <1>1, <3>1, DistanceIs
      <4> QED
        BY <4>1 DEF LoLast
    <3>2. CASE Len(toStub) = 1 /\ ~IsLo(toStub[1]) /\ pc \in {"ack", "sync"}
      <4>1. Distance \in 4 .. 5
        BY <1>1, <3>2, DistanceIs
      <4> QED
        BY <3>2, <4>1 DEF LoLast
    <3> QED
      BY <1>1, <3>1, <3>2 DEF Resting
  <2>4. UnderWay(c)'
    BY <1>1, <2>2, <2>3, AskingSends
  <2>5. NoAnswer(toHost')
    <3>1. Len(toHost') = 0
      BY <2>2
    <3> QED
      BY <3>1 DEF NoAnswer
  <2>6. host'[1] = "ack" /\ host'[2] = c
    BY <2>2
  <2>7. Asking(host[2])'
    BY <2>4, <2>5, <2>6 DEF Asking
  <2> QED
    BY <1>1, <2>2, <2>6, <2>7 DEF NoisyInv
<1>3. CASE StubReads
  <2>1. toStub # <<>>
    BY <1>3, NothingToRead
  <2>2. Len(toStub) = 1 /\ pc \in {"ack", "sync"}
    BY <1>1, <2>1 DEF Resting
  <2>3. Tail(toStub) = <<>>
    BY <1>1, <2>2, OneRead DEF TypeOK
  <2>4. RecvAck \/ Sync
    BY <1>3, <2>2 DEF StubReads, Collect, FirstDigit, Refuse, Execute, Arrived
  <2>5. /\ toStub' = <<>> /\ toHost' = <<>> /\ host' = host /\ pc' \in {"sync", "data"}
        /\ pc' = "data" => digits' = <<>>
    BY <1>1, <2>3, <2>4 DEF RecvAck, Sync
  <2>6. Resting'
    BY <2>5 DEF Resting
  <2> QED
    BY <2>5, <2>6, StillResting
<1>4. CASE DisturbStub
  <2>1. toStub # <<>>
    BY <1>4 DEF DisturbStub
  <2>2. Len(toStub) = 1 /\ pc \in {"ack", "sync"}
    BY <1>1, <2>1 DEF Resting
  <2>3. /\ toHost' = <<>> /\ host' = host /\ pc' = pc
        /\ toStub' = <<>> \/ (Len(toStub') = 1 /\ ~IsLo(toStub'[1]))
    BY <1>1, <1>4, <2>2, OneDisturbed DEF stub
  <2>4. Resting'
    BY <2>2, <2>3 DEF Resting
  <2> QED
    BY <2>2, <2>3, <2>4, StillResting
<1> QED
  BY <1>1, <1>2, <1>3, <1>4 DEF Next, HostReads

-----------------------------------------------------------------------------
(* The line with all its noise.                                            *)

\* Forged or not, the host asks on a quiet line, and the two are in step: the stub
\* reads the whole packet or a part of it, and has nothing left to mix it with.
LEMMA FreshStep ==
  ASSUME TypedInv, LinkInv, NEW c \in Cmds, SendCommand(c), Quiet
  PROVE  NoisyInv'
<1>1. /\ host' = <<"ack", c>> /\ Sends(Packet(c)) /\ UNCHANGED stub /\ toHost' = <<>>
      /\ toStub = <<>> /\ pc' = pc /\ digits' = digits
  BY DEF SendCommand, Quiet, stub
<1>2. TypeOK /\ (pc = "data" => digits = <<>>)
  BY DEF TypedInv, LinkInv
<1>3. Len(toStub) < Distance /\ LoLast(toStub, c)
  <2>1. Len(toStub) = 0 /\ Distance \in 1 .. 5
    BY <1>1, <1>2, DistanceIs
  <2> QED
    BY <2>1 DEF LoLast
<1>4. UnderWay(c)'
  BY <1>1, <1>2, <1>3, AskingSends
<1>5. NoAnswer(toHost')
  <2>1. Len(toHost') = 0
    BY <1>1
  <2> QED
    BY <2>1 DEF NoAnswer
<1>6. host'[1] = "ack" /\ host'[2] = c
  BY <1>1
<1>7. Asking(host[2])'
  BY <1>4, <1>5, <1>6 DEF Asking
<1> QED
  BY <1>1, <1>2, <1>6, <1>7 DEF NoisyInv

\* The digits are read after the data.
LEMMA DigitsLast ==
  ASSUME pc = "data" => digits = <<>>, Next
  PROVE  pc' = "data" => digits' = <<>>
<1>1. CASE StubReads
  BY <1>1 DEF StubReads, RecvAck, Sync, Collect, FirstDigit, Refuse, Execute, AfterExecute, Arrived
<1>2. CASE Trap
  BY <1>2 DEF Trap
<1>3. CASE UNCHANGED stub
  BY <1>3 DEF stub
<1>4. StubReads \/ Trap \/ UNCHANGED stub
  BY DEF Next, SendCommand, HostReads, HearAck, HearReply, Timeout, DisturbStub, DisturbHost
<1> QED
  BY <1>1, <1>2, <1>3, <1>4

LEMMA InitLink == Init => LinkInv
<1> SUFFICES ASSUME Init PROVE LinkInv
  OBVIOUS
<1>1. host[1] = "reply" /\ host[2] = Stop /\ pc = "run"
  BY DEF Init
<1>2. Waiting(host[2])
  BY <1>1 DEF Init, Waiting
<1> QED
  BY <1>1, <1>2 DEF LinkInv, NoisyInv

LEMMA StepLink == TypedInv /\ LinkInv /\ [Next]_linkVars => TypedInv' /\ LinkInv'
<1> SUFFICES ASSUME TypedInv, LinkInv, [Next]_linkVars PROVE TypedInv' /\ LinkInv'
  OBVIOUS
<1>1. TypedInv' /\ TypeOK'
  BY StepTyped DEF TypedInv
<1>2. CASE UNCHANGED linkVars
  BY <1>1, <1>2 DEF linkVars, LinkInv, NoisyInv, Asking, UnderWay, Distance, Refused, Done,
                    Waiting, Resting
<1>3. CASE Next
  <2>1. pc' = "data" => digits' = <<>>
    BY <1>3, DigitsLast DEF LinkInv
  <2>2. ASSUME ~forged' PROVE NoisyInv'
    <3>1. CASE ~forged
      BY <1>1, <1>3, <2>2, <3>1, AskingStep, WaitingStep, RestingStep
         DEF LinkInv, TypedInv, TypeOK
    <3>2. CASE forged
      <4>1. \E c \in Cmds : SendCommand(c) /\ Quiet
        BY <1>3, <2>2, <3>2
           DEF Next, Trap, StubReads, RecvAck, Sync, Collect, FirstDigit, Refuse, Execute,
               SendCommand, HostReads, HearAck, HearReply, Timeout, DisturbStub, DisturbHost
      <4> QED
        BY <4>1, FreshStep
    <3> QED
      BY <3>1, <3>2
  <2> QED
    BY <1>1, <2>1, <2>2 DEF LinkInv
<1> QED
  BY <1>2, <1>3

\* Whatever is lost or damaged, a '+' that noise did not forge tells the truth: the
\* host waits for the reply only of a command that was executed; and what a forged
\* acknowledgement brings out of step is in step again once the line has been quiet.
THEOREM AcknowledgedCorrect == Spec => []AcknowledgedIsDone
<1>1. LinkInv => AcknowledgedIsDone
  BY DEF LinkInv, NoisyInv, Waiting, AcknowledgedIsDone
<1> QED
  BY <1>1, InitTyped, InitLink, StepLink, PTL DEF Spec

\* Whatever is lost or damaged, unless it is damaged into an acknowledgement: the
\* packet the host takes for the answer answers its command, not an earlier one.
THEOREM ReplyCorrect == Spec => []ReplyAnswersCommand
<1>1. LinkInv => ReplyAnswersCommand
  <2> SUFFICES ASSUME Waiting(host[2]), Heard, Head(toHost)[1] = "reply"
               PROVE  Head(toHost)[2] = host[2]
    BY DEF LinkInv, NoisyInv, ReplyAnswersCommand
  <2>1. toHost \in {<<Junk>>, <<Reply(host[2])>>}
    BY DEF Waiting, Heard
  <2>2. Head(toHost) \in {Junk, Reply(host[2])}
    BY <2>1, Grow
  <2> QED
    BY <2>2, Names
<1> QED
  BY <1>1, InitTyped, InitLink, StepLink, PTL DEF Spec

\* Whatever is lost or damaged, unless it is damaged into an acknowledgement: the
\* stub executes no command but the one the host is asking for; nothing is put
\* together from parts of two packets or left over from an earlier one.
THEOREM AskedCorrect == Spec => OnlyWhatIsAsked
<1>1. ASSUME TypedInv, TypeOK', NoisyInv, NEW c \in Cmds, Execute(c)
      PROVE  host[2] = c
  <2>1. Distance = 1 /\ toStub # <<>> /\ toStub \in Seq(Chars) /\ pc = "sum"
    BY <1>1, ExecutesStep DEF Execute, Arrived, TypedInv, TypeOK
  <2>2. host[1] = "ack" /\ host[2] \in Cmds
    BY <1>1, <2>1 DEF NoisyInv, Waiting, Resting, TypedInv, TypeOK
  <2>3. Asking(host[2])
    BY <1>1, <2>2 DEF NoisyInv
  <2>4. PICK d \in Cmds : d = host[2]
    BY <2>2
  <2> QED
    BY <1>1, <2>3, <2>4, AskingExecutes
<1>2. TypedInv /\ LinkInv /\ [Next]_linkVars =>
        [\A c \in Cmds : Execute(c) /\ ~forged => host[2] = c]_linkVars
  <2> SUFFICES ASSUME TypedInv, LinkInv, [Next]_linkVars,
                      NEW c \in Cmds, Execute(c), ~forged
               PROVE  host[2] = c
    OBVIOUS
  <2>1. TypeOK' /\ NoisyInv
    BY StepTyped DEF TypedInv, LinkInv
  <2> QED
    BY <1>1, <2>1
<1> QED
  BY <1>2, InitTyped, InitLink, StepLink, PTL DEF Spec, OnlyWhatIsAsked
=============================================================================
