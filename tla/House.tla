------------------------------- MODULE House -------------------------------
(***************************************************************************)
(* An agent looks for a house with its own keys: rentAnywhere              *)
(* (buy-house.mjs) or findShelter (shelter.mjs).  Both ask one landlord    *)
(* after the other and keep the first house they get; both take whatever   *)
(* goes wrong for a refusal.  A landlord may have opened the house all the *)
(* same: a payment is a signed authorization, which the gateway settles    *)
(* when it likes, and a listed job is paid before its answer is read.      *)
(*                                                                         *)
(* The purse is the agent's Base wallet, in units of half a cent.  Every   *)
(* x402 payment signs an authorization on it.                              *)
(***************************************************************************)
EXTENDS Integers, Sequences

CONSTANTS
  Hows,     \* the searches modelled, of {"anywhere", "shelter"}
  Orders,   \* the lists of rails a caller may pass
  Rent,     \* what the gateway takes for a house
  Funds     \* the USDC of the purse at the start

ASSUME HouseAssumption ==
  /\ Hows \subseteq {"anywhere", "shelter"}
  /\ Orders \subseteq Seq({"modal", "nosana", "other"})
  /\ Rent \in Nat /\ Funds \in Nat

VARIABLES
  usdc,      \* the purse
  signed,    \* the authorizations that are signed and not settled: what for, how much
  how,       \* which of the two searches this is
  todo,      \* the rails not asked yet
  attempts,  \* attempts: whether the n-th rail asked gave a house
  found,     \* the attempt whose house is returned, or 0
  search,    \* "asking", "done" or "threw"
  bought     \* the attempts for which a landlord opened a house

purse == <<usdc, signed>>
hunt == <<how, todo, attempts, found, search, bought>>

----------------------------------------------------------------------------
HouseInit ==
  /\ usdc = Funds /\ signed = {}
  /\ how \in Hows
  /\ todo \in Orders
  /\ attempts = <<>> /\ found = 0 /\ search = "asking" /\ bought = {}

Attempt == Len(attempts) + 1
Asking(rails) == search = "asking" /\ todo # <<>> /\ Head(todo) \in rails

\* Only rentAnywhere asks the gateway for a rail it does not know.
AsksGateway == Asking(IF how = "anywhere" THEN {"modal", "other"} ELSE {"modal"})

Authorize(what, amount) == signed' = signed \cup {[for |-> what, amount |-> amount]}

Declined ==
  /\ attempts' = Append(attempts, FALSE)
  /\ todo' = Tail(todo)
  /\ UNCHANGED <<how, found, search>>

Accepted ==
  /\ attempts' = Append(attempts, TRUE)
  /\ found' = Attempt /\ search' = "done"
  /\ UNCHANGED <<how, todo>>

\* The promise of rentAnywhere is rejected: the attempts so far are not returned.
Threw == search' = "threw" /\ UNCHANGED <<how, todo, attempts, found>>

Opens == bought' = bought \cup {Attempt}
OpensNone == UNCHANGED bought

\* Over the cap, no key, no client, no renter, an unknown rail, or a refusal
\* before anything is signed.
Refused ==
  /\ Asking({"modal", "nosana", "other"})
  /\ Declined /\ OpensNone
  /\ UNCHANGED purse

\* payingFetch, which buyHouse calls outside its try: a payment library that
\* does not load, or a key that is not one.
PayerThrows ==
  /\ AsksGateway /\ how = "anywhere"
  /\ Threw /\ OpensNone
  /\ UNCHANGED purse

\* buyHouse, rentModal: one paid request to the gateway.  It throws, is not a
\* success, or is a success without a house in it.
GatewayFails ==
  /\ AsksGateway
  /\ Authorize(<<"house", Attempt>>, Rent)
  /\ Opens \/ OpensNone
  /\ Declined
  /\ UNCHANGED usdc

\* The body of the answer, which buyHouse reads outside its try as well.
GatewayUnreadable ==
  /\ AsksGateway
  /\ Authorize(<<"house", Attempt>>, Rent)
  /\ Opens
  /\ IF how = "anywhere" THEN Threw ELSE Declined
  /\ UNCHANGED usdc

GatewayOpens ==
  /\ AsksGateway
  /\ Authorize(<<"house", Attempt>>, Rent)
  /\ Opens /\ Accepted
  /\ UNCHANGED usdc

\* buyHouseOnNosana, or the renter findShelter is given: the listing pays; the
\* call, its answer or the import after it may still fail.
MarketFails ==
  /\ Asking({"nosana"})
  /\ Opens \/ OpensNone
  /\ Declined
  /\ UNCHANGED purse

MarketOpens ==
  /\ Asking({"nosana"})
  /\ Opens /\ Accepted
  /\ UNCHANGED purse

\* Every landlord declined: a refusal, or an exception that carries the list.
Homeless ==
  /\ search = "asking" /\ todo = <<>>
  /\ search' = "done"
  /\ UNCHANGED <<purse, how, todo, attempts, found, bought>>

Hunt ==
  \/ Refused \/ PayerThrows \/ GatewayFails \/ GatewayUnreadable \/ GatewayOpens
  \/ MarketFails \/ MarketOpens \/ Homeless

----------------------------------------------------------------------------
\* The gateway settles an authorization, sooner or later or never.
Settle(a) ==
  /\ a.amount <= usdc
  /\ usdc' = usdc - a.amount
  /\ signed' = signed \ {a}
  /\ UNCHANGED hunt

=============================================================================
