---------------------------- MODULE TokenLedger ----------------------------
(***************************************************************************)
(* The SPL token accounts of a pool, as far as processor/token.rs uses     *)
(* them.  The token program itself is not part of the repository: what     *)
(* Transfer, MintTo and Burn do is modelled from how they are called.      *)
(*                                                                         *)
(* A ledger is a record.  A cross-program call takes the ledger left by    *)
(* the calls before it and returns the next one; ok becomes and stays      *)
(* FALSE when a call fails, which makes the whole instruction fail.        *)
(***************************************************************************)
EXTENDS CheckedMath, Accounts

CONSTANTS
    owner,          \* the key that signs for each of them
    PoolMint,       \* the mint of the pool's LP token
    Authority       \* the pool's program address, which owns the reserves

VARIABLE ledger

Ledgers == [ amount : [TokenAccounts -> U64],
             supply : U64,              \* of PoolMint
             open   : SUBSET TokenAccounts,
             ok     : {TRUE} ]

Failed(l) == [l EXCEPT !.ok = FALSE]

Transfer(l, signer, source, destination, amount) ==
    IF /\ l.ok
       /\ {source, destination} \subseteq l.open
       /\ mint[source] = mint[destination]
       /\ owner[source] = signer
       /\ amount <= l.amount[source]
       /\ source # destination => l.amount[destination] + amount \in U64
    THEN IF source = destination THEN l
         ELSE [l EXCEPT !.amount[source] = @ - amount,
                        !.amount[destination] = @ + amount]
    ELSE Failed(l)

transfer_as_swap(l, source, destination, amount) ==
    Transfer(l, Authority, source, destination, amount)

transfer_as_user(l, user, source, destination, amount) ==
    Transfer(l, user, source, destination, amount)

mint_to(l, destination, amount) ==
    IF /\ l.ok
       /\ destination \in l.open
       /\ mint[destination] = PoolMint
       /\ {l.supply + amount, l.amount[destination] + amount} \subseteq U64
    THEN [l EXCEPT !.amount[destination] = @ + amount, !.supply = @ + amount]
    ELSE Failed(l)

burn(l, user, account, amount) ==
    IF /\ l.ok
       /\ account \in l.open
       /\ mint[account] = PoolMint
       /\ owner[account] = user
       /\ amount <= l.amount[account] /\ amount <= l.supply
    THEN [l EXCEPT !.amount[account] = @ - amount, !.supply = @ - amount]
    ELSE Failed(l)

=============================================================================
