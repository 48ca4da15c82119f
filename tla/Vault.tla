-------------------------------- MODULE Vault --------------------------------
(***************************************************************************)
(* What a pool promises to those who hold its LP tokens, without curve,    *)
(* accounts, fees or clock: two holdings and the shares in them.  Pool     *)
(* implements it (ImplementsVault there, and PoolProofs).                  *)
(*                                                                         *)
(* - Whatever the price, trading never exhausts a holding, and a pool      *)
(*   without shares never issues any again.                                *)
(* - The way out stays open in every phase, and takes no more of either    *)
(*   holding than the share that leaves.                                   *)
(* - A paused pool does nothing else, but for gifts.                       *)
(***************************************************************************)
EXTENDS Integers

CONSTANT Mints

VARIABLES
    phase,      \* "unborn" before Initialize, then "open" or "paused"
    shares,     \* the LP tokens outstanding
    holdings    \* the balance of each reserve

vars == <<phase, shares, holdings>>

Init ==
    /\ phase = "unborn"
    /\ shares = 0
    /\ holdings \in [Mints -> Nat]

Holds(h) == \A m \in Mints : h[m] > 0

Grows == \A m \in Mints : holdings'[m] >= holdings[m]

\* A holding may fall, but not to nothing.
StaysFunded == \A m \in Mints : holdings[m] > 0 => holdings'[m] > 0

\* The accounts that are to become the reserves, still in somebody's hands.
Prepare ==
    /\ phase = "unborn"
    /\ UNCHANGED <<phase, shares>>

Found ==
    /\ phase = "unborn" /\ phase' = "open"
    /\ shares' \in Nat
    /\ Holds(holdings')

Pause == phase = "open" /\ phase' = "paused" /\ UNCHANGED <<shares, holdings>>

Unpause == phase = "paused" /\ phase' = "open" /\ UNCHANGED <<shares, holdings>>

\* Tokens out of nowhere; nobody gets a share for them.
Gift ==
    /\ phase # "unborn"
    /\ Grows
    /\ UNCHANGED <<phase, shares>>

Trade ==
    /\ phase = "open"
    /\ StaysFunded
    /\ UNCHANGED <<phase, shares>>

Join ==
    /\ phase = "open"
    /\ shares' >= shares /\ (shares = 0 => shares' = 0)
    /\ Grows
    /\ UNCHANGED phase

\* For one token, at a price.
Leave ==
    /\ phase = "open"
    /\ shares' <= shares
    /\ StaysFunded
    /\ UNCHANGED phase

\* For both tokens, in proportion, or for nothing: the shares that stay lose
\* nothing.
Redeem ==
    /\ phase # "unborn"
    /\ shares > 0 /\ shares' <= shares
    /\ \A m \in Mints : holdings'[m] * shares >= holdings[m] * shares'
    /\ UNCHANGED phase

Next ==
    /\ Prepare \/ Found \/ Pause \/ Unpause \/ Gift \/ Trade \/ Join \/ Leave \/ Redeem
    /\ shares' \in Nat
    /\ holdings' \in [Mints -> Nat]

Spec == Init /\ [][Next]_vars

\* A share is always a share in something.
SharesAreFunded == phase # "unborn" /\ shares > 0 => Holds(holdings)

=============================================================================
