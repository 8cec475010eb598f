----------------------------- MODULE AddressBook -----------------------------
(***************************************************************************)
(* What deposit addresses promise: a user's address on a network is given  *)
(* once and for ever, it is nobody else's, and it is written down before   *)
(* anybody is told it.                                                     *)
(***************************************************************************)
CONSTANTS User, Network, NoAddress

VARIABLES
  book,   \* who owns which address
  told    \* <<user, network, address>> a client was answered with

vars == <<book, told>>

Owners == User \X Network

Init ==
  /\ book = [o \in Owners |-> NoAddress]
  /\ told = {}

\* An address of nobody becomes the address of somebody who has none.
Assign(o) ==
  /\ book[o] = NoAddress
  /\ book'[o] # NoAddress
  /\ \A p \in Owners \ {o} : book'[p] = book[p] /\ book[p] # book'[o]
  /\ UNCHANGED told

Tell(o) ==
  /\ book[o] # NoAddress
  /\ told' = told \cup {<<o, book[o]>>}
  /\ UNCHANGED book

Next == \E o \in Owners : Assign(o) \/ Tell(o)

Spec == Init /\ [][Next]_vars
=============================================================================
