----------------------------- MODULE MCGdbPacket -----------------------------
(* Packets for GdbPacket: commands, each cut short at every place, and the    *)
(* odd ones.                                                                  *)
EXTENDS GdbPacket

Code == [c \in {"m", "M", "X", "p", "P", "g", "G", "c", "s", "k", "?"} |->
           CASE c = "m" -> 109 [] c = "M" -> 77 [] c = "X" -> 88 [] c = "p" -> 112
             [] c = "P" -> 80 [] c = "g" -> 103 [] c = "G" -> 71 [] c = "c" -> 99
             [] c = "s" -> 115 [] c = "k" -> 107 [] c = "?" -> 63]
D(n) == <<gdb_get_digit(n)>>

Memory(c, addr, len, data) ==
  <<Code[c]>> \o addr \o <<Comma>> \o len \o (IF c = "m" THEN <<>> ELSE <<Colon>> \o data)
Poke(n, data) == <<Code["P"]>> \o n \o <<Equals>> \o data

Whole == {Memory("m", D(0), D(1), <<>>), Memory("M", D(1), D(1), D(2) \o D(10)),
          Memory("X", D(2), D(1), <<Escape, 10>>), Poke(D(1), D(1) \o D(0)),
          <<Code["p"]>> \o D(1)}
Odd   == {Memory("m", D(1), D(2), <<>>), Memory("m", D(0), D(3), <<>>),
          Memory("m", <<Plus>> \o D(2), D(1) \o <<90>>, <<>>),
          Memory("m", <<48, 120>> \o D(1), <<48, 120>> \o D(1), <<>>),
          Memory("m", D(0), <<48, 120, 90>>, <<>>),
          Memory("m", <<Minus>> \o D(1), D(1), <<>>),
          Memory("M", D(2), D(2), D(2) \o D(10) \o D(2) \o <<65>>),
          Memory("M", D(1), D(1), D(0) \o D(1) \o D(1)),
          Memory("M", D(1), D(1), D(0) \o <<90>>),
          Memory("X", D(1), D(2), <<Escape, 90>>), Memory("X", D(1), D(1), <<Escape>>),
          Memory("X", D(0), D(1), <<90>>), Memory("X", D(1), D(1), <<90, 90>>),
          Poke(D(2), D(1) \o D(0)), Poke(D(0), D(1) \o <<90>>), <<Code["p"]>> \o D(2),
          <<Code["g"]>>, <<Code["G"]>> \o D(1) \o D(0) \o D(1) \o D(0),
          <<Code["c"]>>, <<Code["s"]>>, <<Code["?"]>>, <<Code["k"]>>}
MCPackets == Odd \cup UNION {Prefixes(p) : p \in Whole}
===============================================================================
