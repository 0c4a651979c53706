---------------------------- MODULE AddressPool ----------------------------
(***************************************************************************)
(* What the table ip_addresses promises: an address has at most one owner, *)
(* it is given to an owner only while it has none and its new owner owns   *)
(* no other, it is taken back only by a release somebody has begun when it *)
(* was his, and only while the program does not serve are all addresses    *)
(* taken back at once.  Abstract specification of the pool;                *)
(* SystemRefinement shows that the program implements it whatever fails.   *)
(*                                                                         *)
(* It does not promise that the address still belongs to whoever began the *)
(* release: it is taken from its owner of that moment.                     *)
(***************************************************************************)
EXTENDS FiniteSets

CONSTANTS Addresses, Owners, None

VARIABLES
  owner,      \* owner of every address, or None
  releases,   \* pairs <<owner, address>>: releases that have been begun
  open        \* whether the program serves

poolVars == <<owner, releases, open>>

Init ==
  /\ owner = [a \in Addresses |-> None]
  /\ releases = {}
  /\ open = FALSE

Give(a, o) ==
  /\ open
  /\ owner[a] = None
  /\ \A b \in Addresses : owner[b] # o
  /\ owner' = [owner EXCEPT ![a] = o]
  /\ UNCHANGED <<releases, open>>

BeginRelease(a, o) ==
  /\ open
  /\ owner[a] = o
  /\ releases' = releases \cup {<<o, a>>}
  /\ UNCHANGED <<owner, open>>

\* A release goes through, or is given up; another one of the same pair may
\* still be under way.
EndRelease(a, o) ==
  /\ open
  /\ <<o, a>> \in releases
  /\ releases' \in {releases, releases \ {<<o, a>>}}
  /\ owner' \in {owner, [owner EXCEPT ![a] = None]}
  /\ UNCHANGED open

\* The program begins to serve, or ends; the releases end with it.
Open == ~open /\ open' = TRUE /\ UNCHANGED <<owner, releases>>

Close == open /\ open' = FALSE /\ releases' = {} /\ UNCHANGED owner

Rebuild == ~open /\ owner' = [a \in Addresses |-> None] /\ UNCHANGED <<releases, open>>

Next ==
  \/ \E a \in Addresses, o \in Owners : Give(a, o) \/ BeginRelease(a, o) \/ EndRelease(a, o)
  \/ Open \/ Close \/ Rebuild

Spec == Init /\ [][Next]_poolVars
=============================================================================
