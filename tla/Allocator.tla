------------------------------ MODULE Allocator ------------------------------
(***************************************************************************)
(* What malloc and free promise to their callers: memory that nobody else  *)
(* has, as long as no request is larger than the heap can ever serve.      *)
(***************************************************************************)
EXTENDS Integers

CONSTANTS
  Memory,   \* the units of memory the heap may ever get
  Requests, \* the sizes that are asked for
  Limit     \* the largest one that the heap serves

VARIABLES
  held, \* what callers have: <<address, size>>
  void  \* a request was too large, and nothing is promised any more

Units(a) == a[1] .. a[1] + a[2] - 1

Allocate(addr, size) ==
  /\ size <= Limit
  /\ Units(<<addr, size>>) \subseteq Memory
  /\ \A a \in held : Units(a) \cap Units(<<addr, size>>) = {}
  /\ held' = held \cup {<<addr, size>>}
  /\ UNCHANGED void

Release(a) ==
  /\ a \in held
  /\ held' = held \ {a}
  /\ UNCHANGED void

Exceed(size) == size > Limit /\ void' = TRUE

Init == held = {} /\ void = FALSE

Next ==
  /\ ~void
  /\ \/ \E addr \in Memory, size \in Requests : Allocate(addr, size)
     \/ \E a \in held : Release(a)
     \/ \E size \in Requests : Exceed(size)

Spec == Init /\ [][Next]_<<held, void>>
=============================================================================
