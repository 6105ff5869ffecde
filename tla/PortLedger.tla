----------------------------- MODULE PortLedger -----------------------------
(***************************************************************************)
(* What the pool of port pairs promises, with no list, container or thread *)
(* in it: where each pair is, and how it may move.  A pair in use returns  *)
(* to the free list before anybody else gets it, and a lost one never      *)
(* comes back.                                                             *)
(***************************************************************************)
CONSTANTS Pair, Holder    \* Holder: the records a pair can be kept in

VARIABLE owner            \* pair -> where it is

Free == <<"free">>
Returning == <<"returning">>
Lost == <<"lost">>
Held(h) == <<"held", h>>
HeldStates == {Held(h) : h \in Holder}

Init == owner = [p \in Pair |-> Free]

Move(from, to) ==
  \/ to = from
  \/ from = Free /\ to \in HeldStates \cup {Lost}
  \/ from \in HeldStates /\ to \in {Returning, Lost}
  \/ from = Returning /\ to = Free

Next == /\ owner' \in [Pair -> HeldStates \cup {Free, Returning, Lost}]
        /\ \A p \in Pair : Move(owner[p], owner'[p])

Spec == Init /\ [][Next]_owner
=============================================================================
