---------------------------- MODULE MCMemoryInit ----------------------------
(* TLC instances of MemoryInit: the memory maps.                            *)
EXTENDS MemoryInit

MCBlk == [n \in 0 .. MAX_ORDER - 1 |-> 2 ^ n]

Avail(b, e) == [type |-> 1, base |-> b, len |-> e - b]
Resv(b, e)  == [type |-> 2, base |-> b, len |-> e - b]

Top == NFrames * PAGE

\* All of RAM available, with firmware ROM at the very end of the 32-bit space
\* (its end wraps to zero) and device windows at the end of RAM
\* and beyond it.
Plain == <<Avail(0, Top), Resv(ADDR - 2, ADDR), Resv(Top, Top + 3),
           Resv(Top + 4, Top + 7)>>

\* A reserved region inside RAM, listed in order or first, page-aligned or not.
Split(b, e)    == <<Avail(0, b), Resv(b, e), Avail(e, Top)>>
Shuffled(b, e) == <<Resv(b, e), Avail(e, Top + 1), Avail(0, b)>>

MCMaps == {NoMap, Plain} \cup
          {Split(b, b + l) : b \in {15, 16, 19, 24, 41, 90}, l \in {1, 2, 3, 5}} \cup
          {Shuffled(b, b + l) : b \in {17, 30}, l \in {1, 4, 7}} \cup
          {<<Avail(0, 20), Avail(26, Top)>>}

MCBigMaps == {Plain}
=============================================================================
