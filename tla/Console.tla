-------------------------------- MODULE Console --------------------------------
(***************************************************************************)
(* printf() and tprintf() of libc/stdio/printf.c on the terminal, with the *)
(* copy of tprintf()'s text that tputchar() sends down the serial line;    *)
(* printf() is the same code with print() for tprint().                    *)
(*                                                                         *)
(* A format is a sequence of characters and a call's arguments the words   *)
(* its caller pushed (i386: int, long and pointers one word, long long and *)
(* double two), so that a conversion that takes the wrong number of words  *)
(* finds what another argument left there.                                 *)
(***************************************************************************)
EXTENDS Terminal

CONSTANTS Characters, \* the values of a char but 0, which ends a string
          Calls,     \* calls of tprintf(): records of fmt, args, and pieces
          Quiet,     \* calls of printf(), which abort() and puts() make
          Strings,   \* the strings an argument may point to, by address
          Modulus    \* values of one word; 2^32 in the program

NUL    == "\\0"
Sign   == "sign"     \* the "-" before a number
Glyphs == Characters \cup {Sign}

Digits == <<"0", "1", "2", "3", "4", "5", "6", "7", "8", "9",
            "a", "b", "c", "d", "e", "f">>
Capital(d) == CASE d = "a" -> "A" [] d = "b" -> "B" [] d = "c" -> "C"
                [] d = "d" -> "D" [] d = "e" -> "E" [] d = "f" -> "F" [] OTHER -> d
Capitals == [i \in DOMAIN Digits |-> Capital(Digits[i])]

\* A word on the stack: of which argument, which of its words, and its value as a
\* signed number.
Argument == [type : {"int", "ll", "double", "str"}, word : {1, 2}, value : Int]

-----------------------------------------------------------------------------
(* Numbers.                                                                *)

\* Mutant: a value equal to the base gets one digit.
ShortConvert(value, base, digits) ==
  LET numeral[v \in Nat] == LET last == <<digits[1 + (v % base)]>>
                            IN  IF v <= base THEN last ELSE numeral[v \div base] \o last
  IN  numeral[value]

\* The last digit, behind the numeral of the rest.
convert_integer(value, base, digits) ==
  LET numeral[v \in Nat] == LET last == <<digits[1 + (v % base)]>>
                            IN  IF v < base THEN last ELSE numeral[v \div base] \o last
  IN  numeral[value]

\* %p is not among the conversions with base 16.
Base(conv) == CASE conv \in {"x", "X"} -> 16 [] conv = "o" -> 8 [] OTHER -> 10
DigitsOf(conv) == IF conv = "X" THEN Capitals ELSE Digits

Words(m) == IF m \in {<<"l", "l">>, <<"j">>} THEN 2 ELSE 1

\* What an unsigned conversion counts to: a ptrdiff_t has its sign extended to
\* the two words of value.
Values(m) == IF Words(m) = 2 \/ m = <<"t">> THEN Modulus * Modulus ELSE Modulus

\* A signed value prints its sign and its magnitude, an unsigned one wraps.
Numeral(conv, value, modifier) ==
  IF conv \in {"d", "i"}
  THEN (IF value < 0 THEN <<Sign>> ELSE <<>>) \o
       convert_integer(IF value < 0 THEN -value ELSE value, 10, Digits)
  ELSE convert_integer(value % Values(modifier), Base(conv), DigitsOf(conv))

-----------------------------------------------------------------------------
(* Directives.                                                             *)

length_modifiers == {<<"h", "h">>, <<"h">>, <<>>, <<"l">>, <<"l", "l">>,
                     <<"L">>, <<"j">>, <<"z">>, <<"t">>}
Conversions == {"d", "i", "o", "u", "x", "X", "p", "c", "s"}

\* Signed size_t and long double are not.
Implemented(m, c) == \/ c \in {"d", "i"} /\ m \notin {<<"L">>, <<"z">>}
                     \/ c \in {"o", "u", "x", "X", "p"} /\ m # <<"L">>
                     \/ c \in {"c", "s"}

\* The type va_arg() is told, and its words.
TypeOf(m, c)  == IF c = "s" THEN "str"
                 ELSE IF c # "c" /\ Words(m) = 2 THEN "ll"
                 ELSE "int"
WordsOf(type) == IF type \in {"ll", "double"} THEN 2 ELSE 1

CharAt(f, p)      == IF p <= Len(f) THEN f[p] ELSE NUL
StandsAt(f, p, s) == \A n \in DOMAIN s : CharAt(f, p + n - 1) = s[n]

-----------------------------------------------------------------------------
(* What a call means.  Its format is a sequence of pieces: characters,     *)
(* %%, directives, and a single % where no directive stands.  Each has the *)
(* words its caller pushes for it and the text it stands for.              *)

\* The first n of the sequences s, one behind the other.
Joined(s, n) == LET upto[k \in 0..Len(s)] == IF k = 0 THEN <<>> ELSE upto[k - 1] \o s[k]
                IN  upto[n]

\* What of a text is not the sign of a number.
Unsigned(t) == Joined([n \in DOMAIN t |-> IF t[n] = Sign THEN <<>> ELSE <<t[n]>>], Len(t))

\* What the digits t mean, and that they are the shortest for v.
Denoted(t, base, digits) ==
  LET place(c) == CHOOSE i \in 0..(base - 1) : digits[i + 1] = c
      upto[k \in 0..Len(t)] == IF k = 0 THEN 0 ELSE base * upto[k - 1] + place(t[k])
  IN  upto[Len(t)]

IsNumeral(t, v, base, digits) ==
  /\ t # <<>> /\ \A n \in DOMAIN t : \E i \in 1..base : t[n] = digits[i]
  /\ t[1] = digits[1] => Len(t) = 1
  /\ Denoted(t, base, digits) = v

\* A %c keeps the low bits of its int, as many as tell the characters apart.
LowChar(v) == Digits[1 + (v % 16)]

\* An unsigned conversion prints a negative value as the one it wraps to.  This is
\* not C throughout: %t wraps at two words, and %h and %hh, signed or not, print
\* their int as a whole.
IsText(t, c, v, m) ==
  CASE c = "s" -> t = Strings[v]
    [] c = "c" -> t = <<LowChar(v)>>
    [] c \in {"d", "i"} /\ v < 0 -> /\ t # <<>> /\ Head(t) = Sign
                                    /\ IsNumeral(Tail(t), -v, 10, Digits)
    [] c \in {"d", "i"} /\ v >= 0 -> IsNumeral(t, v, 10, Digits)
    [] OTHER -> IsNumeral(t, v % Values(m), Base(c), DigitsOf(c))

Pushed(type, v) == [n \in 1..WordsOf(type) |-> [type |-> type, word |-> n, value |-> v]]

Literal(p) == Len(p.chars) = 1 /\ p.chars # <<"%">> /\ p.text = p.chars /\ p.args = <<>>
Percent(p) == p.chars = <<"%", "%">> /\ p.text = <<"%">> /\ p.args = <<>>
Single(p)  == p.chars = <<"%">> /\ p.text = <<"%">>
Directs(p, m, c) ==
  /\ p.chars = <<"%">> \o m \o <<c>> /\ Implemented(m, c)
  /\ LET v == p.args[1].value
     IN  p.args = Pushed(TypeOf(m, c), v) /\ IsText(p.text, c, v, m)

CharsOf(r) == [i \in DOMAIN r.pieces |-> r.pieces[i].chars]
ArgsOf(r)  == [i \in DOMAIN r.pieces |-> r.pieces[i].args]
TextOf(r)  == [i \in DOMAIN r.pieces |-> r.pieces[i].text]
Bad(r, i)  == \E k \in 1..i : Single(r.pieces[k])

\* A single % is no %%, and the first no directive that is implemented; behind
\* it directives are a % and characters, whatever is pushed for them.
IsPiece(r, i) ==
  LET p == r.pieces[i]
      q == Len(Joined(CharsOf(r), i)) + 1
  IN  \/ Literal(p) \/ Percent(p)
      \/ ~Bad(r, i - 1) /\ \E m \in length_modifiers, c \in Conversions : Directs(p, m, c)
      \/ /\ Single(p) /\ CharAt(r.fmt, q) # "%"
         /\ Bad(r, i - 1) \/ \A m \in length_modifiers, c \in Conversions :
                                Implemented(m, c) => ~StandsAt(r.fmt, q, m \o <<c>>)

\* A caller pushes what its format takes, and text is of characters.
ASSUME ConsoleAssumption ==
  /\ Modulus \in Nat \ {0}
  /\ {Pad, Sign, NUL} \cap Characters = {}
  /\ \A i \in DOMAIN Digits : {Digits[i], Capitals[i]} \subseteq Characters
  /\ Strings \in Seq(Seq(Characters))
  /\ \A r \in Calls \cup Quiet :
       /\ r.pieces \in Seq([chars : Seq(Characters), args : Seq(Argument), text : Seq(Glyphs)])
       /\ r.fmt = Joined(CharsOf(r), Len(r.pieces))
       /\ r.args = Joined(ArgsOf(r), Len(r.pieces))
       /\ \A i \in DOMAIN r.pieces : IsPiece(r, i)
       /\ \A n \in DOMAIN r.args : r.args[n].type = "str" => r.args[n].value \in DOMAIN Strings

-----------------------------------------------------------------------------
VARIABLES call,      \* "none", "tprintf" or "printf"
          request,   \* the call's fmt, args and pieces
          pos,       \* format
          argp,      \* parameters: words taken
          rejected,  \* rejected_bad_specifier
          todo,      \* characters the current print has still to write
          said,      \* history: the text shown since the call began
          heard,     \* history: the text sent down the line since
          misread,   \* history: a va_arg found something else than its type
          paper, at  \* history: the last Height lines typed on paper, position

vars == <<screen, call, request, pos, argp, rejected, todo, said, heard,
          misread, paper, at>>
history == <<said, heard, paper, at>>

BlankLine == [x \in 0..(Width - 1) |-> Ink(Blank)]
NoRequest == [fmt |-> <<>>, args |-> <<>>, pieces |-> <<>>]

Init == /\ terminal_initialize
        /\ call = "none" /\ request = NoRequest
        /\ pos = 1 /\ argp = 0 /\ rejected = FALSE /\ todo = <<>>
        /\ said = <<>> /\ heard = <<>> /\ misread = FALSE
        /\ paper = <<BlankLine>> /\ at = 0

-----------------------------------------------------------------------------
(* The format.                                                             *)

fmt     == request.fmt
Char(p) == CharAt(fmt, p)

\* The longest modifier that stands at p.
Modifier(p) ==
  LET here == {m \in length_modifiers : StandsAt(fmt, p, m)}
  IN  CHOOSE m \in here : \A k \in here : Len(k) <= Len(m)

Conversion(p) == Char(p + Len(Modifier(p)))
Understood(p) == Implemented(Modifier(p), Conversion(p))
Taken(p)      == TypeOf(Modifier(p), Conversion(p))

\* print_c: from p to the next % after p.
\* Mutant: the run may be empty.
StuckRun(p) == CHOOSE e \in p..(Len(fmt) + 1) :
                 /\ Char(e) \in {"%", NUL}
                 /\ \A q \in p..(e - 1) : Char(q) # "%"

RunEnd(p) == CHOOSE e \in (p + 1)..(Len(fmt) + 1) :
               /\ Char(e) \in {"%", NUL}
               /\ \A q \in (p + 1)..(e - 1) : Char(q) # "%"

Between == call # "none" /\ todo = <<>> /\ pos <= Len(fmt)

PrintRun(p) == /\ todo' = SubSeq(fmt, p, RunEnd(p) - 1)
               /\ pos' = RunEnd(p)
               /\ UNCHANGED <<screen, call, request, argp, misread, history>>

Text == Between /\ Char(pos) # "%" /\ PrintRun(pos) /\ UNCHANGED rejected

Directive == Between /\ Char(pos) = "%"

PercentSign == /\ Directive /\ Char(pos + 1) = "%"
               /\ PrintRun(pos + 1)
               /\ UNCHANGED rejected

\* Mutant: what follows a directive that was not understood is converted.
RejectOne == /\ Directive /\ Char(pos + 1) # "%"
             /\ ~Understood(pos + 1)
             /\ PrintRun(pos)
             /\ UNCHANGED rejected

\* The first directive that is not understood and all after it are printed as
\* they stand, and take no argument.
Reject == /\ Directive /\ Char(pos + 1) # "%"
          /\ rejected \/ ~Understood(pos + 1)
          /\ PrintRun(pos)
          /\ rejected' = TRUE

Finds(type) == /\ argp + WordsOf(type) <= Len(request.args)
               /\ \A n \in 1..WordsOf(type) :
                     /\ request.args[argp + n].type = type
                     /\ request.args[argp + n].word = n

Convert ==
  /\ Directive /\ ~rejected /\ Char(pos + 1) # "%" /\ Understood(pos + 1)
  /\ LET type == Taken(pos + 1)
         conv == Conversion(pos + 1)
     IN  /\ IF ~Finds(type) THEN todo' = <<>>
            ELSE LET value == request.args[argp + 1].value
                 IN  todo' = CASE conv = "s" -> Strings[value]
                               [] conv = "c" -> <<LowChar(value)>>
                               [] OTHER -> Numeral(conv, value, Modifier(pos + 1))
         /\ argp' = argp + WordsOf(type)
         /\ misread' = (misread \/ ~Finds(type))
  /\ pos' = pos + 2 + Len(Modifier(pos + 1))
  /\ cursor' = IF todo' = <<>> THEN <<column, row>> ELSE cursor
  /\ UNCHANGED <<row, column, cells, call, request, rejected, history>>

-----------------------------------------------------------------------------
(* Paper that never ends, of which the last Height lines are kept: what a  *)
(* reader expects of the text.                                             *)

Feed(lines) == IF Len(lines) < Height THEN Append(lines, BlankLine)
               ELSE Append(Tail(lines), BlankLine)
Type(lines, c, from, to) ==
  [lines EXCEPT ![Len(lines)] =
     [x \in DOMAIN @ |-> IF x \in from..(to - 1) THEN Ink(c) ELSE @[x]]]

OnPaper(c) ==
  LET full  == at = Width
      lines == IF full THEN Feed(paper) ELSE paper
      from  == IF full THEN 0 ELSE at
      stop  == (from \div TabLength + 1) * TabLength
  IN CASE c = Newline -> paper' = Feed(paper) /\ at' = 0
       [] c = Return  -> at' = 0 /\ UNCHANGED paper
       [] c = Tab     -> paper' = Type(lines, Blank, from, stop) /\ at' = stop
       [] OTHER       -> paper' = Type(lines, c, from, from + 1) /\ at' = from + 1

-----------------------------------------------------------------------------
\* tputchar() sends tprintf()'s characters on; the sign of a number is printed
\* with putchar(), which does not.
Sent(c) == IF call = "tprintf" /\ c # Sign THEN <<c>> ELSE <<>>

\* The next character of print() or tprint(); after the last one the cursor
\* follows.
WriteChar ==
  /\ todo # <<>>
  /\ LET c == Head(todo)
     IN  /\ IF c = Tab
            THEN /\ todo' = [n \in 1..Padding |-> Pad] \o Tail(todo)
                 /\ UNCHANGED screen
            ELSE /\ todo' = Tail(todo)
                 /\ terminal_putchar(c)
                 /\ IF todo' = <<>> THEN terminal_updatecurser ELSE UNCHANGED cursor
         /\ IF c = Pad THEN UNCHANGED history
            ELSE /\ said' = Append(said, c)
                 /\ heard' = heard \o Sent(c)
                 /\ OnPaper(c)
  /\ UNCHANGED <<call, request, pos, argp, rejected, misread>>

Begin(name, r) ==
  /\ call = "none"
  /\ call' = name /\ request' = r
  /\ UNCHANGED <<screen, pos, argp, rejected, todo, misread, history>>

tprintf(r) == Begin("tprintf", r)
printf(r)  == Begin("printf", r)

\* The return; the locals are gone.
Finish == /\ call # "none" /\ todo = <<>> /\ pos > Len(fmt)
          /\ call' = "none" /\ request' = NoRequest
          /\ pos' = 1 /\ argp' = 0 /\ rejected' = FALSE
          /\ said' = <<>> /\ heard' = <<>>
          /\ UNCHANGED <<screen, todo, misread, paper, at>>

Work == Text \/ PercentSign \/ Reject \/ Convert \/ WriteChar \/ Finish

Next == Work \/ (\E r \in Calls : tprintf(r)) \/ (\E r \in Quiet : printf(r))

\* The functions wait for nobody: a call that can go on goes on.
Spec == Init /\ [][Next]_vars /\ WF_vars(Work)

-----------------------------------------------------------------------------
\* The next character goes into the buffer: rows stay below Height, and a column
\* of Width is left before anything is written (tty.c:95).
TypeOK == /\ ScreenType
          /\ call \in {"none", "tprintf", "printf"}
          /\ request \in Calls \cup Quiet \cup {NoRequest}
          /\ pos \in 1..(Len(fmt) + 1)
          /\ argp \in Nat /\ rejected \in BOOLEAN /\ misread \in BOOLEAN

PaperRow(y) == IF y < Len(paper) THEN paper[y + 1] ELSE BlankLine

\* Through wraps, tabs at the edge and scrolling the screen shows the last lines
\* of the text, the next character goes where it would on paper, and between
\* calls the cursor stands there.
ScreenShowsTail ==
  /\ todo = <<>> \/ Head(todo) # Pad =>
       /\ row = Len(paper) - 1 /\ column = at
       /\ \A y \in 0..(Height - 1), x \in 0..(Width - 1) :
            cells[Index(x, y)] = PaperRow(y)[x]
  /\ call = "none" => cursor = <<column, row>>

\* Every va_arg finds an argument of its type where its caller pushed one, also
\* after directives that are not implemented and take none.
ArgumentsMatch == ~misread

\* A call that returns has printed its format with every argument in its place,
\* each number by its shortest numeral, and from the first directive that is not
\* implemented on the format itself; the serial line got the same without signs.
PrintsWhatIsMeant ==
  call # "none" /\ todo = <<>> /\ pos > Len(fmt) =>
    /\ said = Joined(TextOf(request), Len(request.pieces))
    /\ heard = IF call = "tprintf" THEN Unsigned(said) ELSE <<>>

\* Whatever the format, a call comes to its end.
CallsReturn == call # "none" ~> call = "none"
================================================================================
