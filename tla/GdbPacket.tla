------------------------------ MODULE GdbPacket ------------------------------
(***************************************************************************)
(* What the gdb stub makes of a packet: the parsing of gdb_main(), the     *)
(* number and hex conversions below it, and its memory accesses.           *)
(*                                                                         *)
(* pkt_buf is one buffer for a whole session: a packet overwrites only as  *)
(* many characters as it has, and most replies are put together in it, so  *)
(* what stands behind a packet's last character is left from others.       *)
(* GdbLink models how packets arrive, GdbTrap what happens around them;    *)
(* here a packet has arrived, and its characters matter.  Characters are   *)
(* their ASCII codes.                                                      *)
(***************************************************************************)
EXTENDS Integers, Sequences, Functions, SequencesExt

CONSTANTS Packets,       \* packets the host may send
          Fills,         \* characters the stack holds where pkt_buf will be
          BufSize,       \* sizeof(pkt_buf), 256
          DataMax,       \* sizeof(data) in gdb_mem_read, gdb_mem_write, 64
          RegNum,        \* registers; of one byte here, of four in the code
          Cells,         \* addresses in use, all mapped
          Vectors,       \* the traps that enter the stub
          KernelBegin, KernelEnd,
          Modulus,       \* 2^32
          Unset          \* bytes the stack holds where data[] will be

Bytes == 0..255

\* A size_t below zero is far behind the buffer.
ASSUME GdbPacketAssumption ==
  /\ BufSize \in Nat /\ DataMax \in Nat /\ RegNum \in Nat \ {0}
  /\ BufSize >= 4 /\ 2 * DataMax <= BufSize /\ 2 * RegNum <= BufSize
  /\ Modulus \in Nat /\ 2 * BufSize < Modulus
  /\ \A p \in Packets : p \in Seq(Bytes) /\ Len(p) < BufSize
  /\ Fills \cup Unset \subseteq Bytes
  /\ Cells \subseteq 0..(Modulus - 1)
  /\ {KernelBegin, KernelEnd} \subseteq Int /\ KernelBegin..KernelEnd \subseteq Cells

VARIABLES pkt_buf, pkt_len,
          state,              \* "run", "wait", "serve", "hung"
          sig,                \* the signal of this session
          mem, regs,
          reply               \* the answer, once there is one

vars == <<pkt_buf, pkt_len, state, sig, mem, regs, reply>>

At(i) == IF i \in 1..BufSize THEN pkt_buf[i] ELSE 0

Plus   == 43
Comma  == 44
Minus  == 45
Colon  == 58
Equals == 61
Escape == 125      \* }
X      == {88, 120}

-----------------------------------------------------------------------------
(* Numbers and bytes.                                                      *)

\* gdb_get_val() in base 16: the value of a digit, None of anything else.
None == -1
gdb_get_val(c) == CASE c \in 48..57  -> c - 48
                    [] c \in 97..102 -> c - 87
                    [] c \in 65..70  -> c - 55
                    [] OTHER         -> None
gdb_get_digit(v) == IF v < 10 THEN v + 48 ELSE v + 87
IsDigit(c)       == gdb_get_val(c) # None

\* Behind a sign, and behind 0x if the len characters go on after it.
AfterSign(ptr) == IF At(ptr) \in {Plus, Minus} THEN ptr + 1 ELSE ptr
AfterPrefix(ptr, len) ==
  LET p == AfterSign(ptr)
  IN  IF p - ptr + 2 < len /\ At(p) = 48 /\ At(p + 1) \in X THEN p + 2 ELSE p

\* Where the digits at p end, at the latest at stop, and the value of n of them.
DigitsEnd(p, stop) ==
  LET digit(i) == i < stop /\ IsDigit(At(i))
  IN  CHOOSE e \in p..(p + BufSize) : ~digit(e) /\ \A i \in p..(e - 1) : digit(i)
DigitsValue(p, n) ==
  LET value[k \in 0..n] ==
        IF k = 0 THEN 0 ELSE (value[k - 1] * 16 + gdb_get_val(At(p + k - 1))) % Modulus
  IN  value[n]

\* gdb_strtol(ptr, len, 16, &next): the number at ptr as an unsigned word, and
\* where it ends, 0 (NULL) when there is no digit.
gdb_strtol(ptr, len) ==
  LET first == AfterPrefix(ptr, len)
      next  == DigitsEnd(first, ptr + len)
      value == DigitsValue(first, next - first)
  IN  IF len < 1 \/ next = first THEN [next |-> 0, value |-> 0]
      ELSE [next  |-> next,
            value |-> (IF At(ptr) = Minus THEN -value ELSE value) % Modulus]

\* token_remaining_buf, in the unsigned arithmetic of size_t.
Remaining(ptr) == (pkt_len - (ptr - 1)) % Modulus

\* token_expect_integer_arg and token_expect_seperator; 0 goes to error.
Integer(ptr)    == IF ptr = 0 THEN [next |-> 0, value |-> 0]
                   ELSE gdb_strtol(ptr, Remaining(ptr))
Separator(n, c) == IF n.next = 0 \/ At(n.next) # c THEN 0 ELSE n.next + 1

\* gdb_enc_hex().
Hex(bytes) == [i \in 1..(2 * Len(bytes)) |->
                 LET b == bytes[(i + 1) \div 2]
                 IN  gdb_get_digit(IF i % 2 = 1 THEN b \div 16 ELSE b % 16)]

\* The n bytes gdb_dec_hex() decodes at ptr, up to the first that holds junk.
DecodedHex(ptr, n) ==
  LET good(k) == IsDigit(At(ptr + 2*k - 2)) /\ IsDigit(At(ptr + 2*k - 1))
      count   == CHOOSE c \in 0..n : /\ \A k \in 1..c : good(k)
                                     /\ c = n \/ ~good(c + 1)
  IN  [k \in 1..count |-> gdb_get_val(At(ptr + 2*k - 2)) * 16
                           + gdb_get_val(At(ptr + 2*k - 1))]

flip(c) == IF (c \div 32) % 2 = 1 THEN c - 32 ELSE c + 32      \* c ^ 0x20

\* Where the k-th byte after the first of a binary field stands.
Offset(ptr, k) ==
  LET offset[j \in 0..k] ==
        IF j = 0 THEN 0
        ELSE offset[j - 1] + (IF At(ptr + offset[j - 1]) = Escape THEN 2 ELSE 1)
  IN  offset[k]

\* The bytes of a binary field of len characters, or more than n of them when
\* they do not fit or the last is an escape.
DecodedBin(ptr, len, n) ==
  LET count == CHOOSE c \in 0..(n + 1) : /\ c = n + 1 \/ ~(Offset(ptr, c) < len)
                                         /\ \A k \in 0..(c - 1) : Offset(ptr, k) < len
      byte(i) == IF At(i) = Escape THEN flip(At(i + 1)) ELSE At(i)
  IN  IF count = n + 1 \/ Offset(ptr, count) > len THEN [k \in 1..(n + 1) |-> 0]
      ELSE [k \in 1..count |-> byte(ptr + Offset(ptr, k - 1))]

-----------------------------------------------------------------------------
(* A session: the signal packet, packets, replies.                         *)

Put(buf, chars) == [i \in 1..BufSize |-> IF i <= Len(chars) THEN chars[i] ELSE buf[i]]
OK       == <<79, 75>>
Error    == <<69, 48, 48>>
Signal   == <<83>> \o Hex(<<sig>>)
Nothing  == <<>>

gdb_get_sig(vec) == CASE vec \in {0, 7}                     -> 8
                      [] vec \in {1, 3}                     -> 5
                      [] vec \in {4, 5}                     -> 16
                      [] vec = 6                            -> 4
                      [] vec \in 9..14                      -> 11
                      [] OTHER                              -> 7

\* A reply put together in pkt_buf, and one that is not ("OK", "").
Send(chars) == reply' = chars /\ pkt_buf' = Put(pkt_buf, chars)
Say(chars)  == reply' = chars /\ UNCHANGED pkt_buf
Fail        == Send(Error) /\ UNCHANGED <<mem, regs>>

\* gdb_main() is entered; its pkt_buf is whatever the stack holds.
Trap(vec) ==
  /\ state = "run"
  /\ state' = "wait" /\ sig' = gdb_get_sig(vec)
  /\ reply' = <<83>> \o Hex(<<gdb_get_sig(vec)>>)
  /\ \E f \in Fills : pkt_buf' = Put([i \in 1..BufSize |-> f], reply')
  /\ UNCHANGED <<pkt_len, mem, regs>>

\* gdb_recv_packet(); an empty packet is passed over.
Receive(p) ==
  /\ state = "wait"
  /\ pkt_buf' = Put(pkt_buf, p) /\ pkt_len' = Len(p)
  /\ state' = IF Len(p) = 0 THEN "wait" ELSE "serve"
  /\ reply' = Nothing
  /\ UNCHANGED <<sig, mem, regs>>

\* gdb_recv_packet() gives up on the line (GdbLink has the reasons).
GiveUp == /\ state = "wait" /\ state' = "run"
          /\ UNCHANGED <<pkt_buf, pkt_len, sig, mem, regs, reply>>

Letter(c) == state = "serve" /\ pkt_buf[1] = c
Answered  == state' = "wait" /\ UNCHANGED <<pkt_len, sig>>

RegBytes == [r \in 1..RegNum |-> regs[r - 1]]

ReadRegisters == /\ Letter(103)                                          \* g
                 /\ Send(Hex(RegBytes))
                 /\ UNCHANGED <<mem, regs>> /\ Answered

\* Decoded in place: what stands before the junk is in regs[] already, and of
\* the byte with the junk the high digit, when that is one.
InPlace(old, ptr, n) ==
  LET got == DecodedHex(ptr, n)
      hi  == gdb_get_val(At(ptr + 2 * Len(got)))
  IN  [k \in 1..n |-> IF k <= Len(got) THEN got[k]
                      ELSE IF k = Len(got) + 1 /\ hi # None THEN hi * 16 ELSE old[k]]

\* Mutant: gdb_dec_hex() takes a buffer longer than the data.
LongerFits(ptr, n) == Remaining(ptr) >= 2 * n

\* gdb_dec_hex()'s first condition.
HexFits(ptr, n) == Remaining(ptr) = 2 * n

Outcome(done) == IF done THEN Say(OK) ELSE Send(Error)

WriteRegisters ==                                                        \* G
  /\ Letter(71)
  /\ IF ~HexFits(2, RegNum) THEN Fail
     ELSE LET new == InPlace(RegBytes, 2, RegNum)
          IN  /\ regs' = [r \in 0..(RegNum - 1) |-> new[r + 1]]
              /\ Outcome(Len(DecodedHex(2, RegNum)) = RegNum)
              /\ UNCHANGED mem
  /\ Answered

ReadRegister ==                                                          \* p
  /\ Letter(112)
  /\ LET n == Integer(2)
     IN  IF n.next = 0 \/ n.value >= RegNum THEN Fail
         ELSE Send(Hex(<<regs[n.value]>>)) /\ UNCHANGED <<mem, regs>>
  /\ Answered

WriteRegister ==                                                         \* P
  /\ Letter(80)
  /\ LET n == Integer(2)
         ptr == Separator(n, Equals)
     IN  IF ptr = 0 \/ n.value >= RegNum \/ ~HexFits(ptr, 1) THEN Fail
         ELSE /\ regs' = [regs EXCEPT ![n.value] = InPlace(<<@>>, ptr, 1)[1]]
              /\ Outcome(Len(DecodedHex(ptr, 1)) = 1)
              /\ UNCHANGED mem
  /\ Answered

\* Mutant: the length is not compared with the size of data[].
AnyLength(length) == TRUE

\* The first condition of gdb_mem_read() and gdb_mem_write().
DataFits(length) == length <= DataMax

\* A page that is not mapped: a fault inside the stub, which halts (GdbTrap).
ReadMemory ==                                                            \* m
  /\ Letter(109)
  /\ LET addr   == Integer(2)
         length == Integer(Separator(addr, Comma))
         from(k) == (addr.value + k - 1) % Modulus
     IN  IF length.next = 0 \/ ~DataFits(length.value) THEN Fail /\ Answered
         ELSE IF \A k \in 1..length.value : from(k) \in Cells
         THEN /\ Send(Hex([k \in 1..length.value |-> mem[from(k)]]))
              /\ UNCHANGED <<mem, regs>> /\ Answered
         ELSE /\ state' = "hung"
              /\ UNCHANGED <<pkt_buf, pkt_len, sig, mem, regs, reply>>

\* gdb_sys_mem_writeb() refuses what is not behind kernel_begin and up to
\* kernel_end.
Refused(a) == a <= KernelBegin \/ a > KernelEnd

\* Mutant: gdb_mem_write() passes a refusal over.
WriteSilently(addr, bytes) ==
  /\ mem' = [a \in Cells |-> IF a - addr + 1 \in DOMAIN bytes /\ ~Refused(a)
                             THEN bytes[a - addr + 1] ELSE mem[a]]
  /\ Say(OK) /\ UNCHANGED regs

\* The bytes are written one by one until one is refused.
WriteBytes(addr, bytes) ==
  LET written == {k \in DOMAIN bytes : \A j \in 1..k : ~Refused(addr + j - 1)}
  IN  /\ mem' = [a \in Cells |-> IF a - addr + 1 \in written
                                 THEN bytes[a - addr + 1] ELSE mem[a]]
      /\ Outcome(written = DOMAIN bytes)
      /\ UNCHANGED regs

WriteMemory ==                                                           \* M
  /\ Letter(77)
  /\ LET addr   == Integer(2)
         length == Integer(Separator(addr, Comma))
         ptr    == Separator(length, Colon)
         n      == length.value
     IN  IF ptr = 0 \/ ~DataFits(n) \/ ~HexFits(ptr, n) THEN Fail
         ELSE IF Len(DecodedHex(ptr, n)) < n THEN Fail
         ELSE WriteBytes(addr.value, DecodedHex(ptr, n))
  /\ Answered

\* Too few characters are no error: the rest of data[] is written as it is.
WriteBinary ==                                                           \* X
  /\ Letter(88)
  /\ LET addr   == Integer(2)
         length == Integer(Separator(addr, Comma))
         ptr    == Separator(length, Colon)
         n      == length.value
         got    == DecodedBin(ptr, Remaining(ptr), n)
     IN  IF ptr = 0 \/ ~DataFits(n) THEN Fail
         ELSE IF Len(got) > n THEN Fail
         ELSE \E u \in Unset : WriteBytes(addr.value,
                [k \in 1..n |-> IF k <= Len(got) THEN got[k] ELSE u])
  /\ Answered

LastSignal == /\ Letter(63)                                              \* ?
              /\ Send(Signal)
              /\ UNCHANGED <<mem, regs>> /\ Answered

Unsupported == /\ state = "serve"
               /\ pkt_buf[1] \notin {103, 71, 112, 80, 109, 77, 88, 99, 115, 63}
               /\ Say(Nothing)
               /\ UNCHANGED <<mem, regs>> /\ Answered

Leave == /\ Letter(99) \/ Letter(115)                                    \* c, s
         /\ state' = "run"
         /\ UNCHANGED <<pkt_buf, pkt_len, sig, mem, regs, reply>>

Serve == ReadRegisters \/ WriteRegisters \/ ReadRegister \/ WriteRegister
         \/ ReadMemory \/ WriteMemory \/ WriteBinary \/ LastSignal
         \/ Unsupported \/ Leave

Init == /\ state = "run" /\ sig = 0 /\ reply = Nothing
        /\ \E f \in Fills : pkt_buf = [i \in 1..BufSize |-> f]
        /\ pkt_len = 0
        /\ mem = [a \in Cells |-> 0] /\ regs = [r \in 0..(RegNum - 1) |-> 0]

Next == Serve \/ GiveUp \/ (\E v \in Vectors : Trap(v)) \/ (\E p \in Packets : Receive(p))

Spec == Init /\ [][Next]_vars

-----------------------------------------------------------------------------
TypeOK == /\ pkt_buf \in [1..BufSize -> Bytes] /\ pkt_len \in 0..BufSize
          /\ state \in {"run", "wait", "serve", "hung"}
          /\ mem \in [Cells -> Bytes] /\ regs \in [0..(RegNum - 1) -> Bytes]
          /\ reply \in Seq(Bytes) /\ Len(reply) <= 2 * Max({DataMax, RegNum, 2})

(* What a packet asks for, from its own characters alone.                  *)

Digit(c)  == \E v \in 0..15 : c = gdb_get_digit(v) \/ (c = v + 55 /\ v > 9)
Worth(c)  == CHOOSE v \in 0..15 : c = gdb_get_digit(v) \/ (c = v + 55 /\ v > 9)
Unsigned(s) == s # <<>> /\ \A i \in DOMAIN s : Digit(s[i])
Amount(s)   == LET sum[n \in 0..Len(s)] == IF n = 0 THEN 0
                                           ELSE sum[n - 1] * 16 + Worth(s[n])
               IN  sum[Len(s)]
Bare(s)     == IF Len(s) > 2 /\ s[1] = 48 /\ s[2] \in X THEN SubSeq(s, 3, Len(s)) ELSE s
Number(s)   == s # <<>> /\ Unsigned(Bare(IF s[1] \in {Plus, Minus} THEN Tail(s) ELSE s))
Value(s)    == (IF s[1] = Minus THEN -Amount(Bare(Tail(s)))
                ELSE Amount(Bare(IF s[1] = Plus THEN Tail(s) ELSE s))) % Modulus

asked      == SubSeq(pkt_buf, 1, pkt_len)
Part(i, j) == SubSeq(asked, i, j)

\* Reads and writes of memory, and writes of a register, that are well formed.
\* What follows the number of a read would not go on with it.
Reads  == {w \in [c : DOMAIN asked, e : DOMAIN asked] :
             /\ asked[w.c] = Comma
             /\ Number(Part(2, w.c - 1)) /\ Number(Part(w.c + 1, w.e))
             /\ w.e < Len(asked) => ~Digit(asked[w.e + 1]) /\ asked[w.e + 1] \notin X}
Writes == {w \in [c : DOMAIN asked, e : DOMAIN asked] :
             /\ asked[w.c] = Comma /\ asked[w.e] = Colon
             /\ Number(Part(2, w.c - 1)) /\ Number(Part(w.c + 1, w.e - 1))}
Pokes  == {e \in DOMAIN asked : asked[e] = Equals /\ Number(Part(2, e - 1))}

Start(w)      == Value(Part(2, w.c - 1))
Count(w)      == Value(Part(w.c + 1, w.e - 1))
Data(e)       == Part(e + 1, Len(asked))
Stored(w)     == [k \in 1..Count(w) |-> mem'[Start(w) + k - 1]]
Writable(w)   == \A k \in 1..Count(w) : ~Refused(Start(w) + k - 1)
IsHexOf(d, n) == Len(d) = 2 * n /\ \A i \in DOMAIN d : Digit(d[i])
HexRead(d)    == [k \in 1..(Len(d) \div 2) |-> Worth(d[2*k - 1]) * 16 + Worth(d[2*k])]

\* The characters of d are the first n bytes, each as it is or behind a }.
IsBinaryOf(d, bytes, n) ==
  \E end \in [0..n -> 0..Len(d)] :
    /\ end[0] = 0 /\ end[n] = Len(d)
    /\ \A k \in 1..n :
         \/ end[k] = end[k - 1] + 1 /\ d[end[k]] = bytes[k] /\ bytes[k] # Escape
         \/ end[k] = end[k - 1] + 2 /\ d[end[k] - 1] = Escape /\ d[end[k]] = flip(bytes[k])

Served == state = "serve" /\ state' = "wait"

\* A byte that changes is in the range of a write and let through by the bounds.
MemoryAsAsked == \A a \in Cells : mem'[a] # mem[a] =>
  /\ asked[1] \in {77, 88} /\ ~Refused(a)
  /\ \E w \in Writes :
       /\ Count(w) <= DataMax /\ a - Start(w) \in 0..(Count(w) - 1)
       /\ asked[1] = 77 => IsHexOf(Data(w.e), Count(w))

\* Registers change all at once, or the one before the '='.
RegistersAsAsked == regs' # regs =>
  \/ asked[1] = 71 /\ Len(asked) = 1 + 2 * RegNum
  \/ /\ asked[1] = 80
     /\ \E e \in Pokes : /\ Len(Data(e)) = 2
                         /\ \A r \in DOMAIN regs :
                              regs'[r] # regs[r] => r = Value(Part(2, e - 1))

\* Whatever stands in pkt_buf behind it, a packet changes only what its own
\* characters name: an address in its range that the bounds let through, the
\* register before its '=', and nothing at all when a field is missing.
WritesAsAsked == [][
    /\ mem' # mem \/ regs' # regs => Served
    /\ MemoryAsAsked /\ RegistersAsAsked
  ]_vars

ReadAsAsked == \A w \in Reads :
  LET count == Value(Part(w.c + 1, w.e))
  IN  reply' = IF count > DataMax THEN Error
               ELSE Hex([k \in 1..count |-> mem[(Start(w) + k - 1) % Modulus]])

HexAsAsked == \A w \in Writes :
  IF IsHexOf(Data(w.e), Count(w)) /\ Count(w) <= DataMax /\ Writable(w)
  THEN reply' = OK /\ Stored(w) = HexRead(Data(w.e))
  ELSE reply' = Error

BinaryAsAsked == \A w \in Writes :
  reply' = OK <=> /\ Count(w) <= DataMax /\ Writable(w)
                  /\ \E n \in 0..Count(w) : IsBinaryOf(Data(w.e), Stored(w), n)

PokeAsAsked == \A e \in Pokes :
  LET r == Value(Part(2, e - 1))
  IN  IF r < RegNum /\ IsHexOf(Data(e), 1)
      THEN reply' = OK /\ <<regs'[r]>> = HexRead(Data(e))
      ELSE reply' = Error

\* A well-formed packet gets the reply it asks for: a read the bytes as they
\* are, a write OK, once exactly its data is in place, or the error when a byte
\* is refused or the length is more than a reply or data[] takes.
RepliesAsAsked == [][Served =>
    /\ asked[1] = 109 => ReadAsAsked
    /\ asked[1] = 77 => HexAsAsked
    /\ asked[1] = 88 => BinaryAsAsked
    /\ asked[1] = 80 => PokeAsAsked
  ]_vars

\* A read without its separator goes to error (gdbstub.c:651, 661).
ReadNeedsSeparator == [][
    Served /\ asked[1] = 109 /\ Comma \notin ToSet(asked) => reply' = Error
  ]_vars
===============================================================================
