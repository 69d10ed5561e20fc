------------------------------- MODULE MCConsole -------------------------------
(* Calls for Console: formats of up to three pieces, each with the words its   *)
(* caller pushes and the text it stands for.                                   *)
EXTENDS Console, SequencesExt

Piece(chars, args, text) == [chars |-> chars, args |-> args, text |-> text]
Takes(chars, type, v, text) == <<Piece(chars, Pushed(type, v), text)>>
Plainly(c) == Piece(<<c>>, <<>>, <<c>>)

\* A directive that is not implemented: a single %, and characters.
NotDone(chars, args) ==
  <<Piece(<<"%">>, args, <<"%">>)>> \o [n \in DOMAIN chars |-> Plainly(chars[n])]

A       == <<Plainly("a")>>
NL      == <<Plainly(Newline)>>
PerCent == <<Piece(<<"%", "%">>, <<>>, <<"%">>)>>
Minus   == Takes(<<"%", "d">>, "int", -4, <<Sign, "4">>)
Str     == Takes(<<"%", "s">>, "str", 1, <<"b", "-", "c">>)
Empty   == Takes(<<"%", "s">>, "str", 2, <<>>)
Chr     == Takes(<<"%", "c">>, "int", -2, <<"e">>)
Float   == NotDone(<<"f">>, Pushed("double", 0))
SizeD   == NotDone(<<"z", "d">>, Pushed("int", 3))
AtEnd   == NotDone(<<>>, <<>>)

\* A piece of what follows a directive that is not implemented.
Raw(ps) == NotDone(Tail(ps[1].chars), ps[1].args)

Plain   == {A, NL, <<Plainly(Tab)>>, <<Plainly(Return)>>}
Numbers == {Minus,
            Takes(<<"%", "l", "l", "d">>, "ll", 10, <<"1", "0">>),
            Takes(<<"%", "l", "x">>, "int", -1, <<"f">>),
            Takes(<<"%", "h", "h", "o">>, "int", -8, <<"1", "0">>),
            Takes(<<"%", "t", "x">>, "int", -1, <<"f", "f">>),
            Takes(<<"%", "z", "p">>, "int", -4, <<"1", "2">>),
            Takes(<<"%", "j", "X">>, "ll", -2, <<"F", "E">>)}

MCCharacters == Range(Digits) \cup Range(Capitals) \cup
                {Newline, Return, Tab, "-", "%", "h", "j", "l", "o", "p", "s", "t", "x", "X", "z"}
MCStrings == <<<<"b", "-", "c">>, <<>>>>

CallOf(pieces) == [fmt    |-> FlattenSeq([i \in DOMAIN pieces |-> pieces[i].chars]),
                   args   |-> FlattenSeq([i \in DOMAIN pieces |-> pieces[i].args]),
                   pieces |-> pieces]

\* On every screen: text, edges and a number.  Sequences that a wrong count of
\* words or a directive not understood would throw out of step come besides.
Layout == Plain \cup {Minus} \cup {A \o p : p \in Plain} \cup {p \o A : p \in Plain}
Steps  == {p \o Str \o Minus : p \in Numbers} \cup
          {p \o Raw(Str) \o Raw(Minus) : p \in {Float, SizeD}} \cup
          {Float \o PerCent \o Raw(Str), Str \o SizeD \o Raw(Str), Str \o AtEnd, Empty,
           Empty \o Empty \o Chr, Chr \o Float \o AtEnd, PerCent \o AtEnd}
MCCalls == {CallOf(ps) : ps \in Layout \cup Steps}
MCQuiet == {CallOf(ps) : ps \in {A \o NL, Str \o NL, Minus}}
================================================================================
