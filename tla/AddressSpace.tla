---------------------------- MODULE AddressSpace ----------------------------
(***************************************************************************)
(* What page.c promises its callers: a kernel address space in which       *)
(* giving a page a frame changes the translation of that page and of no    *)
(* other, and in which a table, once it is installed, is reachable at its  *)
(* place in the window and decides the pages of its range.                 *)
(***************************************************************************)
EXTENDS Integers

CONSTANTS Pages,           \* virtual pages
          Window(_),       \* the window page of a directory index
          Dir(_),          \* the directory index of a page
          Indices,         \* the indices callers install tables at
          TableFrames,     \* frames given to tables
          Given            \* frames callers map pages to

VARIABLES map,   \* the translation of every page
          tabs   \* the indices with a table

asVars == <<map, tabs>>

\* Installing a table changes its window page and the pages of its range only.
NewTable(i, f) ==
  /\ i \in Indices \ tabs
  /\ tabs' = tabs \cup {i}
  /\ map'[Window(i)] = f
  /\ \A v \in Pages : Dir(v) # i /\ v # Window(i) => map'[v] = map[v]
  /\ DOMAIN map' = Pages

\* Mapping a page changes that page only.
NewPage(v, f) ==
  /\ Dir(v) \in tabs
  /\ map' = [map EXCEPT ![v] = f]
  /\ UNCHANGED tabs

Next == \/ \E i \in Indices, f \in TableFrames : NewTable(i, f)
        \/ \E v \in Pages, f \in Given : NewPage(v, f)

Spec == DOMAIN map = Pages /\ tabs = {} /\ [][Next]_asVars
=============================================================================
