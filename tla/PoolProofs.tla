----------------------------- MODULE PoolProofs -----------------------------
(***************************************************************************)
(* Theorems about Pool, for all values of its constants: all widths, any   *)
(* number of users and accounts, any amounts, amplification coefficients   *)
(* and ramps.                                                              *)
(*                                                                         *)
(* None of them needs to know what the Newton loops return: the handlers   *)
(* use it only through checked operations.                                 *)
(***************************************************************************)
EXTENDS Pool, AdminProofs, MathProofs

(***************************************************************************)
(* Token calls.  What a call that succeeds leaves behind, and that the     *)
(* calls before it succeeded, too.                                         *)
(***************************************************************************)
AnyLedger == [ amount : [TokenAccounts -> U64],
               supply : U64,
               open   : SUBSET TokenAccounts,
               ok     : BOOLEAN ]

\* l is the ledger before, and r the one after calls that together take at
\* most n from source: they fail, or nobody else has less than before.
Pays(l, r, source, n) ==
    r.ok =>
        /\ l.ok
        /\ r.supply = l.supply /\ r.open = l.open
        /\ \A a \in TokenAccounts : a # source => r.amount[a] >= l.amount[a]
        /\ r.amount[source] >= l.amount[source] - n

LEMMA TransferEffect ==
    ASSUME NEW l \in AnyLedger, NEW signer,
           NEW source \in TokenAccounts, NEW destination \in TokenAccounts, NEW n \in Nat
    PROVE  /\ Transfer(l, signer, source, destination, n) \in AnyLedger
           /\ Pays(l, Transfer(l, signer, source, destination, n), source, n)
           /\ Transfer(l, signer, source, destination, n).ok =>
                owner[source] = signer /\ destination \in l.open
<1> DEFINE r == Transfer(l, signer, source, destination, n)
<1> SUFFICES /\ r \in AnyLedger
             /\ r.ok =>
                  /\ l.ok
                  /\ r.supply = l.supply /\ r.open = l.open
                  /\ owner[source] = signer /\ destination \in l.open
                  /\ \A a \in TokenAccounts : a # source => r.amount[a] >= l.amount[a]
                  /\ r.amount[source] >= l.amount[source] - n
  BY DEF Pays
<1> USE DEF AnyLedger, U64
<1>1. CASE r = Failed(l)
  BY <1>1 DEF Failed
<1>2. CASE r # Failed(l)
  <2>1. l.ok /\ owner[source] = signer /\ destination \in l.open /\ n <= l.amount[source]
        /\ (source # destination => l.amount[destination] + n \in U64)
    BY <1>2 DEF Transfer
  <2>2. CASE source = destination
    <3>1. r = l
      BY <1>2, <2>1, <2>2 DEF Transfer
    <3> QED
      BY <2>1, <3>1, WidthAssumption
  <2>3. CASE source # destination
    <3>1. r = [l EXCEPT !.amount[source] = @ - n, !.amount[destination] = @ + n]
      BY <1>2, <2>3 DEF Transfer
    <3> DEFINE f == l.amount
               g == [f EXCEPT ![source] = @ - n, ![destination] = @ + n]
    <3>2. f \in [TokenAccounts -> U64] /\ f[source] - n \in U64
      BY <2>1, WidthAssumption
    <3>3. r = [amount |-> g, supply |-> l.supply, open |-> l.open, ok |-> TRUE]
      BY <2>1, <2>3, <3>1
    <3>4. /\ g \in [TokenAccounts -> U64]
          /\ g[source] = f[source] - n
          /\ g[destination] = f[destination] + n
          /\ \A a \in TokenAccounts \ {source, destination} : g[a] = f[a]
      BY <2>1, <2>3, <3>2
    <3> HIDE DEF g
    <3>5. r \in AnyLedger
      BY <3>3, <3>4
    <3> QED
      BY <2>1, <2>3, <3>2, <3>3, <3>4, <3>5, WidthAssumption
  <2> QED
    BY <2>2, <2>3
<1> QED
  BY <1>1, <1>2

LEMMA MintEffect ==
    ASSUME NEW l \in AnyLedger, NEW destination \in TokenAccounts, NEW n \in Nat,
           NEW r, r = mint_to(l, destination, n), r.ok
    PROVE  /\ l.ok /\ r \in AnyLedger
           /\ r.supply = l.supply + n
           /\ \A a \in TokenAccounts : r.amount[a] >= l.amount[a]
<1> USE DEF AnyLedger, U64
<1>1. l.ok /\ l.supply + n \in U64 /\ l.amount[destination] + n \in U64
  BY DEF mint_to, Failed
<1> DEFINE g == [l.amount EXCEPT ![destination] = @ + n]
           s == l.supply + n
<1>2. r = [amount |-> g, supply |-> s, open |-> l.open, ok |-> TRUE]
  <2>1. r = [l EXCEPT !.amount[destination] = @ + n, !.supply = @ + n]
    BY DEF mint_to, Failed
  <2> QED
    BY <1>1, <2>1
<1>3. g \in [TokenAccounts -> U64] /\ \A a \in TokenAccounts : g[a] >= l.amount[a]
  BY <1>1, WidthAssumption
<1>4. s \in U64
  BY <1>1
<1> HIDE DEF g, s
<1>5. r \in AnyLedger
  BY <1>2, <1>3, <1>4
<1> QED
  BY <1>1, <1>2, <1>3, <1>5 DEF s

\* r is the ledger after n LP tokens of account are burned, or the burn fails.
Burns(l, r, account, n) ==
    r.ok =>
        /\ l.ok /\ r \in AnyLedger
        /\ n <= l.supply /\ r.supply = l.supply - n
        /\ mint[account] = PoolMint
        /\ \A a \in TokenAccounts : a # account => r.amount[a] = l.amount[a]

LEMMA BurnEffect ==
    ASSUME NEW l \in AnyLedger, NEW user, NEW account \in TokenAccounts, NEW n \in Nat
    PROVE  Burns(l, burn(l, user, account, n), account, n)
<1> DEFINE r == burn(l, user, account, n)
<1> SUFFICES ASSUME r.ok
             PROVE  /\ l.ok /\ r \in AnyLedger
                    /\ n <= l.supply /\ r.supply = l.supply - n
                    /\ mint[account] = PoolMint
                    /\ \A a \in TokenAccounts : a # account => r.amount[a] = l.amount[a]
  BY DEF Burns
<1> USE DEF AnyLedger, U64
<1>1. /\ l.ok /\ mint[account] = PoolMint
      /\ n <= l.supply /\ n <= l.amount[account]
      /\ r = [l EXCEPT !.amount[account] = @ - n, !.supply = @ - n]
  BY DEF burn, Failed
<1>2. l.supply - n \in U64 /\ l.amount[account] - n \in U64
  BY <1>1, WidthAssumption
<1> QED
  BY <1>1, <1>2

(***************************************************************************)
(* What the curve and the fees let a handler pay out.                      *)
(***************************************************************************)

(***************************************************************************)
(* When the curve gives up.                                                *)
(***************************************************************************)
LEMMA MulDivNone ==
    ASSUME NEW b, NEW c
    PROVE  MulDiv192(None, b, c) = None
<1>1. Mul192(None, b) = None
  BY DEF Mul192, CheckedMul, None
<1> QED
  BY <1>1 DEF MulDiv192, CheckedDiv, None

\* N_COINS times a reserve has to fit a u64.
LEMMA OverflowHasNoD ==
    ASSUME NEW amp, NEW a \in Nat, NEW b \in Nat,
           compute_d(amp, a, b) # None
    PROVE  N_COINS * a <= U64_MAX /\ N_COINS * b <= U64_MAX
<1> DEFINE sum == Add64(a, b)
           a_coins == Mul64(a, N_COINS)
           b_coins == Mul64(b, N_COINS)
<1>1. PICK v : compute_d(amp, a, b) =
                 IF sum = 0 THEN 0
                 ELSE IF sum = None \/ a_coins = None \/ b_coins = None THEN None ELSE v
  BY Zenon DEF compute_d
<1>2. CASE sum = 0
  BY <1>2, WidthAssumption DEF Add64, CheckedAdd, None, N_COINS
<1>3. CASE a_coins # None /\ b_coins # None
  BY <1>3, WidthAssumption DEF Mul64, CheckedMul, None, N_COINS
<1> HIDE DEF sum, a_coins, b_coins
<1> QED
  BY <1>1, <1>2, <1>3

LEMMA NoYWithoutD ==
    ASSUME NEW amp, NEW x
    PROVE  compute_y(amp, x, None) = None
<1> DEFINE ann == Mul64(amp, N_COINS)
           part == MulDiv192(None, None, Mul64(x, N_COINS))
           c   == MulDiv192(part, None, Mul64(ann, N_COINS))
           b   == Add192(CheckedDiv(None, ann), x)
<1>1. PICK v : compute_y(amp, x, None) = IF c = None \/ b = None THEN None ELSE v
  BY Zenon DEF compute_y
<1>2. part = None
  BY MulDivNone
<1>3. c = None
  BY <1>2, MulDivNone
<1> HIDE DEF c, b
<1> QED
  BY <1>1, <1>3

LEMMA NoDOfNothing ==
    ASSUME NEW amp, NEW b
    PROVE  compute_d(amp, None, b) = None
<1> DEFINE sum == Add64(None, b)
<1>1. PICK w, v : compute_d(amp, None, b) =
                    IF sum = 0 THEN 0 ELSE IF sum = None \/ w THEN None ELSE v
  BY Zenon DEF compute_d
<1>2. sum = None
  BY DEF Add64, CheckedAdd, None
<1> HIDE DEF sum
<1> QED
  BY <1>1, <1>2 DEF None

\* LP tokens are minted for the growth of D, less a fee.
LEMMA MintNeedsCurve ==
    ASSUME NEW amp, NEW deposit, NEW old, NEW supply, NEW f,
           compute_mint_amount_for_deposit(amp, deposit, old, supply, f) # None
    PROVE  compute_d(amp, old[1], old[2]) # None /\ f.trade_fee_denominator # 0
<1> DEFINE d_0 == compute_d(amp, old[1], old[2])
           new == [i \in 1..2 |-> Add64(old[i], deposit[i])]
           d_1 == compute_d(amp, new[1], new[2])
           ideal == [i \in 1..2 |-> ToU64(MulDiv192(d_1, old[i], d_0))]
           Off(i) == IF ideal[i] > new[i] THEN ideal[i] - new[i] ELSE new[i] - ideal[i]
           Fee(i) == IF ideal[i] = None THEN None ELSE normalized_trade_fee(f, Off(i))
           charged == [i \in 1..2 |-> CheckedSub(new[i], Fee(i))]
           d_2 == compute_d(amp, charged[1], charged[2])
           growth == CheckedSub(d_2, d_0)
           n == ToU64(MulDiv192(supply, growth, d_0))
<1>1. d_0 # None /\ n # None
  BY Zenon DEF compute_mint_amount_for_deposit, MintedForGrowth
<1>2. growth # None
  <2>1. MulDiv192(supply, growth, d_0) # None
    BY <1>1, ToU64Bounds DEF U64, None
  <2>2. Mul192(supply, growth) # None
    BY <2>1, CheckedDivBounds DEF MulDiv192, None
  <2> HIDE DEF growth
  <2> QED
    BY <2>2, CheckedMulBounds DEF Mul192, None
<1>3. d_2 # None
  BY <1>2, CheckedSubBounds DEF None
<1>4. charged[1] # None
  BY <1>3, NoDOfNothing
<1>5. Fee(1) # None
  <2>1. charged[1] = CheckedSub(new[1], Fee(1))
    OBVIOUS
  <2> HIDE DEF Fee, charged
  <2> QED
    BY <1>4, <2>1, CheckedSubBounds DEF None
<1>6. normalized_trade_fee(f, Off(1)) # None
  BY <1>5, Zenon
<1> DEFINE off == Off(1)
           adjusted == mul_div(f.trade_fee_numerator, N_COINS, 4 * (N_COINS - 1))
<1>7. mul_div(off, adjusted, f.trade_fee_denominator) # None
  BY <1>6, Zenon DEF normalized_trade_fee
<1> HIDE DEF off, adjusted
<1>8. f.trade_fee_denominator \in Nat \ {0}
  BY <1>7, MulDivBounds
<1> QED
  BY <1>1, <1>8

\* A swap leaves at least the one unit that swap_to keeps back.
LEMMA SwapLeavesOne ==
    ASSUME NEW amp, NEW n, NEW x, NEW y, NEW f, NEW r, r = swap_to(amp, n, x, y, f), r.ok
    PROVE  /\ compute_d(amp, x, y) # None
           /\ f.trade_fee_denominator # 0 /\ f.admin_trade_fee_denominator # 0
           /\ y \in Nat /\ r.amount_swapped \in Nat /\ r.admin_fee \in Nat
           /\ f.admin_trade_fee_numerator <= f.admin_trade_fee_denominator =>
                r.amount_swapped + r.admin_fee + 1 <= y
<1> DEFINE new  == compute_y(amp, Add64(x, n), compute_d(amp, x, y))
           gone == CheckedSub(y, new)
           dy   == CheckedSub(gone, 1)
           fee  == trade_fee(f, dy)
           adm  == admin_trade_fee(f, fee)
           out  == CheckedSub(dy, fee)
           left == CheckedSub(y, out)
           rest == CheckedSub(left, adm)
<1>1. r.amount_swapped = out /\ r.admin_fee = adm /\ rest # None
  <2>1. r = Exchanged(dy, n, x, y, f)
    BY Zenon DEF swap_to
  <2> DEFINE found == rest # None
  <2>2. r = [ ok |-> found, new_source_amount |-> Add64(x, n),
              new_destination_amount |-> rest, amount_swapped |-> out,
              admin_fee |-> adm, fee |-> fee ]
    BY <2>1, Zenon DEF Exchanged
  <2> HIDE DEF found, rest, out, adm, fee
  <2>3. r.ok = found /\ r.amount_swapped = out /\ r.admin_fee = adm
    BY <2>2
  <2> QED
    BY <2>3, Zenon DEF found
<1> HIDE DEF new
<1>2. left # None /\ adm \in Nat /\ out # None
  BY <1>1, CheckedSubBounds DEF None
<1>3. /\ y \in Nat /\ out \in Nat
      /\ dy \in Nat /\ fee \in Nat /\ out = dy - fee
  BY <1>2, CheckedSubBounds DEF None, Option
<1>4. gone \in Nat /\ dy = gone - 1 /\ gone <= y
  BY <1>3, CheckedSubBounds DEF None, Option
<1>5. f.admin_trade_fee_numerator <= f.admin_trade_fee_denominator => adm <= fee
  BY <1>2, FeeBounds DEF None, admin_trade_fee
<1>6. compute_d(amp, x, y) # None
  <2>1. new # None
    BY <1>4, CheckedSubBounds DEF None
  <2> QED
    BY <2>1, NoYWithoutD DEF new
<1>7. f.trade_fee_denominator # 0 /\ f.admin_trade_fee_denominator # 0
  <2>1. fee # None /\ adm # None
    BY <1>2, <1>3 DEF None
  <2>2. fee = mul_div_imbalanced(dy, f.trade_fee_numerator, f.trade_fee_denominator)
    BY DEF trade_fee
  <2>3. adm = mul_div_imbalanced(fee, f.admin_trade_fee_numerator,
                                 f.admin_trade_fee_denominator)
    BY DEF admin_trade_fee
  <2> HIDE DEF dy, fee, adm
  <2> QED
    BY <2>1, <2>2, <2>3, MulDivBounds
<1> HIDE DEF gone, dy, fee, adm, out, left, rest
<1> QED
  BY <1>1, <1>2, <1>3, <1>4, <1>5, <1>6, <1>7

\* So does a one-sided withdrawal, whose two parts are at most the reserve.
LEMMA WithdrawOneLeavesOne ==
    ASSUME NEW amp, NEW n, NEW supply, NEW base, NEW quote, NEW f,
           NEW r, r = compute_withdraw_one(amp, n, supply, base, quote, f), r.ok
    PROVE  /\ compute_d(amp, base, quote) # None
           /\ f.trade_fee_denominator # 0
           /\ base \in Nat /\ r.dy \in Nat /\ r.fee \in Nat
           /\ r.dy + 1 <= base
           /\ r.dy + r.fee <= base
<1> DEFINE d_0 == compute_d(amp, base, quote)
           d_1 == CheckedSub(d_0, MulDiv192(n, d_0, supply))
<1>1. r = WithdrawOneDown(amp, base, quote, d_0, d_1, compute_y(amp, quote, d_1), f)
  BY Zenon DEF compute_withdraw_one
<1> HIDE DEF d_0, d_1
<1> DEFINE new_y     == compute_y(amp, quote, d_1)
           expected  == CheckedSub(ToU64(MulDiv192(base, d_1, d_0)), new_y)
           other     == CheckedSub(quote, ToU64(MulDiv192(quote, d_1, d_0)))
           new_base  == CheckedSub(base, normalized_trade_fee(f, expected))
           new_quote == CheckedSub(quote, normalized_trade_fee(f, other))
           gone      == CheckedSub(new_base, compute_y(amp, new_quote, d_1))
           dy        == CheckedSub(gone, 1)
           dy_0      == CheckedSub(base, new_y)
           fee       == CheckedSub(dy_0, dy)
<1>2. r.dy = dy /\ r.fee = fee /\ fee # None
  <2> DEFINE found == fee # None
  <2>1. r = [dy |-> dy, fee |-> fee, ok |-> found]
    BY <1>1, Zenon DEF WithdrawOneDown, PaidOut
  <2> HIDE DEF dy, fee, found
  <2>2. r.dy = dy /\ r.fee = fee /\ r.ok = found
    BY <2>1
  <2>3. found
    BY <2>2
  <2> QED
    BY <2>2, <2>3 DEF found
<1>3. /\ dy_0 \in Nat /\ dy \in Nat /\ fee \in Nat /\ fee = dy_0 - dy
      /\ dy_0 # None /\ dy # None
  BY <1>2, CheckedSubBounds DEF Option, None
<1>4. base \in Nat /\ dy_0 <= base
  BY <1>3, CheckedSubBounds DEF Option, None
<1>5. /\ dy = gone - 1
      /\ gone \in Nat /\ gone # None
  BY <1>3, CheckedSubBounds DEF Option, None
<1>6. gone <= new_base /\ new_base \in Nat /\ new_base # None
  BY <1>5, CheckedSubBounds DEF Option, None
<1>7. new_base <= base
  BY <1>6, CheckedSubBounds DEF Option, None
<1>8. d_0 # None
  <2>1. new_y # None
    BY <1>3, CheckedSubBounds DEF None
  <2>2. d_1 # None
    BY <2>1, NoYWithoutD DEF new_y
  <2> QED
    BY <2>2, CheckedSubBounds DEF None, d_1
<1>9. f.trade_fee_denominator # 0
  <2> DEFINE adjusted == mul_div(f.trade_fee_numerator, N_COINS, 4 * (N_COINS - 1))
  <2>1. normalized_trade_fee(f, expected) # None
    <3> HIDE DEF expected
    <3> QED
      BY <1>6, CheckedSubBounds DEF None
  <2>2. mul_div(expected, adjusted, f.trade_fee_denominator) # None
    BY <2>1, Zenon DEF normalized_trade_fee
  <2> HIDE DEF expected, adjusted
  <2> QED
    BY <2>2, MulDivBounds
<1> HIDE DEF new_y, expected, other, new_base, new_quote, gone, dy, dy_0, fee
<1> QED
  BY <1>2, <1>3, <1>4, <1>5, <1>6, <1>7, <1>8, <1>9 DEF d_0

\* A holder of n of supply LP tokens gets at most n / supply of a reserve,
\* the admin's part included.
LEMMA ShareRoundsDown ==
    ASSUME NEW n, NEW supply, NEW reserve, NEW f,
           NEW r, r = token_rate(n, supply, reserve, f), r.ok
    PROVE  /\ n \in Nat /\ reserve \in Nat /\ supply \in Nat \ {0}
           /\ f.withdraw_fee_denominator # 0 /\ f.admin_withdraw_fee_denominator # 0
           /\ r.amount \in Nat /\ r.admin_fee \in Nat
           /\ f.admin_withdraw_fee_numerator <= f.admin_withdraw_fee_denominator =>
                (r.amount + r.admin_fee) * supply <= n * reserve
<1> DEFINE p      == CheckedMul(n, reserve, U128_MAX)
           q      == CheckedDiv(p, supply)
           amount == ToU64(q)
           fee    == withdraw_fee(f, amount)
           adm    == admin_withdraw_fee(f, fee)
           payout == CheckedSub(amount, fee)
<1>1. r.amount = payout /\ r.admin_fee = adm /\ payout # None /\ adm # None
  BY DEF token_rate
<1>2. payout = amount - fee /\ amount \in Nat /\ fee \in Nat /\ fee <= amount
      /\ amount # None
  BY <1>1, CheckedSubBounds DEF None
<1>3. adm \in Nat
      /\ (f.admin_withdraw_fee_numerator <= f.admin_withdraw_fee_denominator => adm <= fee)
  BY <1>1, FeeBounds DEF admin_withdraw_fee
<1>4. amount = q /\ q # None
  BY <1>2, ToU64Bounds DEF None
<1>5. q = p \div supply /\ p \in Nat /\ supply \in Nat \ {0} /\ p # None
  BY <1>4, CheckedDivBounds DEF None
<1>6. n \in Nat /\ reserve \in Nat /\ p = n * reserve
  BY <1>5, CheckedMulBounds
<1>7. q * supply <= p
  BY <1>5, NatQuotient
<1>9. f.withdraw_fee_denominator # 0 /\ f.admin_withdraw_fee_denominator # 0
  <2>1. fee # None
    BY <1>2 DEF None
  <2>2. fee = mul_div_imbalanced(amount, f.withdraw_fee_numerator, f.withdraw_fee_denominator)
    BY DEF withdraw_fee
  <2>3. adm = mul_div_imbalanced(fee, f.admin_withdraw_fee_numerator,
                                 f.admin_withdraw_fee_denominator)
    BY DEF admin_withdraw_fee
  <2> HIDE DEF amount, fee, adm
  <2> QED
    BY <1>1, <2>1, <2>2, <2>3, MulDivBounds
<1> HIDE DEF p, q, amount, fee, adm, payout
<1>8. payout + adm <= q =>
        (payout + adm) * supply <= q * supply
  BY <1>1, <1>2, <1>3, <1>4, <1>5
<1> QED
  BY <1>1, <1>2, <1>3, <1>4, <1>5, <1>6, <1>7, <1>8, <1>9

\* Without LP tokens a deposit is worth none.
LEMMA NothingForTheFirst ==
    ASSUME NEW amp, NEW deposit, NEW old, NEW f,
           NEW n, n = compute_mint_amount_for_deposit(amp, deposit, old, 0, f)
    PROVE  n \in {None, 0}
<1>1. PICK x, y : n = None \/ n = ToU64(MulDiv192(0, x, y))
  <2> DEFINE d_0 == compute_d(amp, old[1], old[2])
             new == [i \in 1..2 |-> Add64(old[i], deposit[i])]
             d_1 == compute_d(amp, new[1], new[2])
             ideal == [i \in 1..2 |-> ToU64(MulDiv192(d_1, old[i], d_0))]
             Fee(i) == IF ideal[i] = None THEN None
                       ELSE normalized_trade_fee(f,
                                IF ideal[i] > new[i] THEN ideal[i] - new[i]
                                                     ELSE new[i] - ideal[i])
             charged == [i \in 1..2 |-> CheckedSub(new[i], Fee(i))]
             d_2 == compute_d(amp, charged[1], charged[2])
  <2>1. n = None \/ n = ToU64(MulDiv192(0, CheckedSub(d_2, d_0), d_0))
    BY Zenon DEF compute_mint_amount_for_deposit, MintedForGrowth
  <2> HIDE DEF d_0, d_2
  <2> QED
    BY <2>1, Zenon
<1> DEFINE p == CheckedMul(0, x, U192_MAX)
           q == CheckedDiv(p, y)
<1>2. n = None \/ n = ToU64(q)
  BY <1>1, Zenon DEF MulDiv192, Mul192
<1>3. p = None \/ p = 0
  BY CheckedMulBounds DEF None
<1>4. q = None \/ (p # None /\ y \in Nat \ {0} /\ q = p \div y)
  BY CheckedDivBounds DEF None
<1> HIDE DEF p
<1>5. q = None \/ q = 0
  BY <1>3, <1>4
<1> HIDE DEF q
<1> QED
  BY <1>2, <1>5, ToU64Bounds DEF None

(***************************************************************************)
(* The handlers, on a typed ledger.  From Initialize on the reserves are   *)
(* token accounts of the right mints and belong to the program's address:  *)
(* no user can sign for them.                                              *)
(***************************************************************************)
ReservesAreOurs ==
    is_initialized =>
        \A m \in Mints : mint[reserves[m]] = m /\ owner[reserves[m]] = Authority

PoolInv ==
    /\ ledger \in Ledgers /\ ReservesAreOurs
    /\ ~is_initialized => Supply = 0

\* The two transfers that pay out of a reserve.
LEMMA PayoutEffect ==
    ASSUME NEW l \in AnyLedger, NEW source \in TokenAccounts,
           NEW destination \in TokenAccounts, NEW fee_account \in TokenAccounts,
           NEW x \in Nat, NEW y \in Nat,
           NEW k, k = transfer_as_swap(l, source, destination, x),
           NEW r, r = transfer_as_swap(k, source, fee_account, y)
    PROVE  /\ r \in AnyLedger /\ Pays(l, r, source, x + y)
           /\ r.ok => fee_account \in l.open
<1>1. k \in AnyLedger /\ Pays(l, k, source, x)
  BY TransferEffect DEF transfer_as_swap
<1>2. r \in AnyLedger /\ Pays(k, r, source, y) /\ (r.ok => fee_account \in k.open)
  BY <1>1, TransferEffect DEF transfer_as_swap
<1>3. \A a \in TokenAccounts :
        l.amount[a] \in Int /\ k.amount[a] \in Int /\ r.amount[a] \in Int
  BY <1>1, <1>2, WidthAssumption DEF AnyLedger, U64
<1> QED
  BY <1>1, <1>2, <1>3 DEF Pays

LEMMA LedgerTyped ==
    ASSUME PoolInv
    PROVE  ledger \in AnyLedger /\ \A m \in Mints : Reserve(m) \in Nat
<1>1. ledger \in AnyLedger
  BY DEF PoolInv, Ledgers, AnyLedger
<1> QED
  BY <1>1, PoolAssumption, WidthAssumption DEF AnyLedger, Reserve, U64

\* Accounts that are not reserves: those of users and those of the LP mint.
LEMMA NotAReserve ==
    ASSUME PoolInv, is_initialized, NEW a \in TokenAccounts,
           owner[a] \in Users \/ mint[a] = PoolMint
    PROVE  \A m \in Mints : a # reserves[m]
  BY PoolAssumption DEF PoolInv, ReservesAreOurs

\* With these fees no handler pays out more than it takes from the user's share.
FeesBelow100(f) ==
    /\ f.admin_trade_fee_numerator < f.admin_trade_fee_denominator
    /\ f.admin_withdraw_fee_numerator <= f.admin_withdraw_fee_denominator
    /\ f \in Fees

\* What a deposit needs, and what a swap or a one-sided withdrawal needs.
CanJoin  == Tradable /\ OnTheCurve(Backing) /\ fees.trade_fee_denominator # 0
CanTrade == CanJoin /\ fees.admin_trade_fee_denominator # 0

\* r is a ledger after a handler that pays no token without its fee.
PaidWithFees(r) ==
    \A m \in Mints : admin_fees[m] \notin ledger.open => r.amount[reserves[m]] >= Reserve(m)

LEMMA ReservesOnCurve ==
    ASSUME PoolInv, NEW m \in Mints,
           compute_d(amp_factor, Reserve(m), Reserve(Other(m))) # None
    PROVE  OnTheCurve(Backing)
<1>1. /\ TokenA \in Mints /\ TokenB \in Mints /\ m \in {TokenA, TokenB}
      /\ Other(TokenA) = TokenB /\ Other(TokenB) = TokenA
  BY AdminAssumption DEF Mints, Other
<1>2. Reserve(TokenA) \in Nat /\ Reserve(TokenB) \in Nat
  BY <1>1, LedgerTyped
<1>3. N_COINS * Reserve(TokenA) <= U64_MAX /\ N_COINS * Reserve(TokenB) <= U64_MAX
  BY <1>1, <1>2, OverflowHasNoD
<1> QED
  BY <1>3 DEF OnTheCurve, Backing

LEMMA SwapEffect ==
    ASSUME PoolInv, admin_fees \in [Mints -> TokenAccounts],
           NEW user \in Users, NEW from \in Mints, NEW source \in TokenAccounts,
           NEW destination \in TokenAccounts, NEW n \in Nat, NEW min,
           NEW r, r = process_swap(user, from, source, destination, n, min), r.ok
    PROVE  /\ CanTrade /\ PaidWithFees(r)
           /\ r \in AnyLedger
           /\ r.supply = Supply
           /\ FeesBelow100(fees) =>
                \A m \in Mints : Reserve(m) > 0 => r.amount[reserves[m]] > 0
<1> DEFINE to == Other(from)
           result == swap_to(amp_factor, n, Reserve(from), Reserve(to), fees)
           l1 == transfer_as_user(ledger, user, source, reserves[from], n)
           l2 == transfer_as_swap(l1, reserves[to], destination, result.amount_swapped)
           l3 == transfer_as_swap(l2, reserves[to], admin_fees[to], result.admin_fee)
<1>1. ledger \in AnyLedger
  BY LedgerTyped
<1>2. Tradable /\ result.ok /\ r = l3
  <2>1. ~Failed(ledger).ok
    BY <1>1 DEF AnyLedger, Failed
  <2> HIDE DEF l3, result
  <2> QED
    BY <2>1 DEF process_swap, l3, result
<1>3. to \in Mints /\ to # from /\ \A m \in Mints : m = to \/ m = from
  BY AdminAssumption DEF Other, Mints
<1>4. /\ \A m \in Mints : reserves[m] \in TokenAccounts /\ admin_fees[m] \in TokenAccounts
      /\ reserves[to] \in TokenAccounts /\ reserves[from] \in TokenAccounts
      /\ admin_fees[to] \in TokenAccounts
      /\ reserves[to] # reserves[from]
  BY <1>3, PoolAssumption DEF Mints
<1>5. /\ result.amount_swapped \in Nat /\ result.admin_fee \in Nat
      /\ fees.admin_trade_fee_numerator <= fees.admin_trade_fee_denominator =>
           result.amount_swapped + result.admin_fee + 1 <= Reserve(to)
  BY <1>2, SwapLeavesOne
<1>10. CanTrade
  <2>1. /\ compute_d(amp_factor, Reserve(from), Reserve(to)) # None
        /\ fees.trade_fee_denominator # 0 /\ fees.admin_trade_fee_denominator # 0
    BY <1>2, SwapLeavesOne
  <2> QED
    BY <1>2, <2>1, ReservesOnCurve DEF CanTrade, CanJoin
<1> HIDE DEF result, to
<1>6. /\ l1 \in AnyLedger /\ Pays(ledger, l1, source, n)
      /\ l1.ok => owner[source] = user
  BY <1>1, <1>4, TransferEffect DEF transfer_as_user
<1> HIDE DEF l1
<1>7. /\ r \in AnyLedger
      /\ Pays(l1, r, reserves[to], result.amount_swapped + result.admin_fee)
      /\ l1.ok /\ admin_fees[to] \in l1.open
  <2>1. /\ l2 = transfer_as_swap(l1, reserves[to], destination, result.amount_swapped)
        /\ r = transfer_as_swap(l2, reserves[to], admin_fees[to], result.admin_fee)
    BY <1>2
  <2> HIDE DEF l2, l3
  <2>2. /\ r \in AnyLedger
        /\ Pays(l1, r, reserves[to], result.amount_swapped + result.admin_fee)
        /\ admin_fees[to] \in l1.open
    BY <1>4, <1>5, <1>6, <2>1, PayoutEffect
  <2> QED
    BY <2>2 DEF Pays
<1>8. \A m \in Mints : l1.amount[reserves[m]] >= Reserve(m)
  <2>1. is_initialized
    BY <1>2 DEF Tradable
  <2>2. \A m \in Mints : source # reserves[m]
    BY <1>6, <1>7, <2>1, NotAReserve
  <2> QED
    BY <1>4, <1>6, <1>7, <2>2 DEF Pays, Reserve
<1>9. ASSUME FeesBelow100(fees), NEW m \in Mints, Reserve(m) > 0
      PROVE  r.amount[reserves[m]] > 0
  <2>1. /\ l1.amount[reserves[m]] \in Nat /\ r.amount[reserves[m]] \in Nat
        /\ Reserve(m) \in Nat
    BY <1>4, <1>6, <1>7, LedgerTyped, WidthAssumption DEF AnyLedger, U64
  <2>2. fees.admin_trade_fee_numerator <= fees.admin_trade_fee_denominator
    BY <1>9, WidthAssumption DEF FeesBelow100, Fees, U64
  <2>3. CASE m = to
    BY <1>5, <1>7, <1>8, <2>1, <2>2, <2>3 DEF Pays
  <2>4. CASE m = from
    BY <1>3, <1>4, <1>7, <1>8, <1>9, <2>1, <2>4 DEF Pays
  <2> QED
    BY <1>3, <2>3, <2>4
<1>11. PaidWithFees(r)
  <2>1. admin_fees[to] \in ledger.open
    BY <1>6, <1>7 DEF Pays
  <2>2. /\ Reserve(from) \in Nat /\ l1.amount[reserves[from]] \in Nat
        /\ r.amount[reserves[from]] \in Nat
    BY <1>4, <1>6, <1>7, LedgerTyped, WidthAssumption DEF AnyLedger, U64
  <2>3. r.amount[reserves[from]] >= Reserve(from)
    BY <1>4, <1>7, <1>8, <2>2 DEF Pays
  <2> QED
    BY <1>3, <2>1, <2>3 DEF PaidWithFees
<1> QED
  BY <1>6, <1>7, <1>9, <1>10, <1>11 DEF Supply, Pays

LEMMA DepositEffect ==
    ASSUME PoolInv,
           NEW user \in Users, NEW sources \in [Mints -> TokenAccounts],
           NEW destination \in TokenAccounts, NEW amounts \in [Mints -> Nat], NEW min,
           NEW r, r = process_deposit(user, sources, destination, amounts, min), r.ok
    PROVE  /\ CanJoin
           /\ r \in AnyLedger
           /\ r.supply >= Supply
           /\ Supply = 0 => r.supply = 0
           /\ \A m \in Mints : r.amount[reserves[m]] >= Reserve(m)
<1> DEFINE deposit == <<amounts[TokenA], amounts[TokenB]>>
           old     == <<Reserve(TokenA), Reserve(TokenB)>>
           mint_amount ==
               compute_mint_amount_for_deposit(amp_factor, deposit, old, ledger.supply, fees)
           l1 == transfer_as_user(ledger, user, sources[TokenA], reserves[TokenA], deposit[1])
           l2 == transfer_as_user(l1, user, sources[TokenB], reserves[TokenB], deposit[2])
           l3 == mint_to(l2, destination, mint_amount)
<1>1. ledger \in AnyLedger
  BY LedgerTyped
<1>2. Tradable /\ mint_amount # None /\ r = l3
  <2>1. ~Failed(ledger).ok
    BY <1>1 DEF AnyLedger, Failed
  <2> HIDE DEF l3, mint_amount
  <2> QED
    BY <2>1 DEF process_deposit, l3, mint_amount
<1>3. /\ sources[TokenA] \in TokenAccounts /\ sources[TokenB] \in TokenAccounts
      /\ reserves[TokenA] \in TokenAccounts /\ reserves[TokenB] \in TokenAccounts
      /\ \A m \in Mints : reserves[m] \in TokenAccounts
      /\ deposit[1] \in Nat /\ deposit[2] \in Nat
  BY PoolAssumption DEF Mints
<1>4. mint_amount \in Nat /\ (ledger.supply = 0 => mint_amount = 0)
  <2>1. mint_amount \in Option
    BY ToU64Bounds, Zenon DEF compute_mint_amount_for_deposit, MintedForGrowth, Option
  <2>2. ledger.supply = 0 => mint_amount \in {None, 0}
    BY NothingForTheFirst
  <2> HIDE DEF mint_amount
  <2> QED
    BY <1>2, <2>1, <2>2 DEF Option
<1>11. CanJoin
  <2>1. /\ compute_d(amp_factor, old[1], old[2]) # None
        /\ fees.trade_fee_denominator # 0
    BY <1>2, MintNeedsCurve
  <2>2. TokenA \in Mints /\ Other(TokenA) = TokenB
    BY DEF Mints, Other
  <2>3. compute_d(amp_factor, Reserve(TokenA), Reserve(TokenB)) # None
    BY <2>1
  <2> HIDE DEF old
  <2>4. OnTheCurve(Backing)
    BY <2>2, <2>3, ReservesOnCurve
  <2> QED
    BY <1>2, <2>1, <2>4 DEF CanJoin
<1> HIDE DEF mint_amount, deposit
<1>5. /\ l1 \in AnyLedger /\ Pays(ledger, l1, sources[TokenA], deposit[1])
      /\ l1.ok => owner[sources[TokenA]] = user
  BY <1>1, <1>3, TransferEffect DEF transfer_as_user
<1> HIDE DEF l1
<1>6. /\ l2 \in AnyLedger /\ Pays(l1, l2, sources[TokenB], deposit[2])
      /\ l2.ok => owner[sources[TokenB]] = user
  BY <1>3, <1>5, TransferEffect DEF transfer_as_user
<1> HIDE DEF l2
<1>7. /\ r \in AnyLedger /\ l2.ok
      /\ r.supply = l2.supply + mint_amount
      /\ \A a \in TokenAccounts : r.amount[a] >= l2.amount[a]
  BY <1>2, <1>4, <1>6, MintEffect
<1>8. \A m \in Mints : sources[TokenA] # reserves[m] /\ sources[TokenB] # reserves[m]
  <2>1. is_initialized /\ owner[sources[TokenA]] \in Users /\ owner[sources[TokenB]] \in Users
    BY <1>2, <1>5, <1>6, <1>7 DEF Tradable, Pays
  <2> QED
    BY <1>3, <2>1, NotAReserve
<1>9. ledger.supply \in Nat /\ r.supply = ledger.supply + mint_amount
  BY <1>1, <1>5, <1>6, <1>7, WidthAssumption DEF Pays, AnyLedger, U64
<1>10. ASSUME NEW m \in Mints
       PROVE  r.amount[reserves[m]] >= Reserve(m)
  <2>1. /\ ledger.amount[reserves[m]] \in Int /\ l1.amount[reserves[m]] \in Int
        /\ l2.amount[reserves[m]] \in Int /\ r.amount[reserves[m]] \in Int
    BY <1>1, <1>3, <1>5, <1>6, <1>7, WidthAssumption DEF AnyLedger, U64
  <2>2. /\ l1.amount[reserves[m]] >= ledger.amount[reserves[m]]
        /\ l2.amount[reserves[m]] >= l1.amount[reserves[m]]
        /\ r.amount[reserves[m]] >= l2.amount[reserves[m]]
    BY <1>3, <1>5, <1>6, <1>7, <1>8 DEF Pays
  <2> QED
    BY <2>1, <2>2 DEF Reserve
<1>12. r.supply >= ledger.supply /\ (ledger.supply = 0 => r.supply = 0)
  BY <1>4, <1>9
<1> QED
  BY <1>7, <1>10, <1>11, <1>12 DEF Supply

\* r is a ledger after n LP tokens were paid out: of each reserve at most their
\* part, the admin's fee included.
SharesPaid(r, n) ==
    FeesBelow100(fees) \/ WithdrawFeesAreFractions =>
        \A m \in Mints :
            \E paid \in Nat : /\ paid * Supply <= n * Reserve(m)
                              /\ r.amount[reserves[m]] >= Reserve(m) - paid

LEMMA WithdrawEffect ==
    ASSUME PoolInv, admin_fees \in [Mints -> TokenAccounts],
           NEW user, NEW source \in TokenAccounts,
           NEW destinations \in [Mints -> TokenAccounts], NEW n \in Nat, NEW minimums,
           NEW r, r = process_withdraw(user, source, destinations, n, minimums), r.ok
    PROVE  /\ is_initialized /\ ~WithdrawFeeUndefined
           /\ r \in AnyLedger
           /\ n <= Supply /\ Supply # 0 /\ r.supply = Supply - n
           /\ SharesPaid(r, n) /\ PaidWithFees(r)
<1> DEFINE rate == [m \in Mints |-> token_rate(n, ledger.supply, Reserve(m), fees)]
           a1 == transfer_as_swap(ledger, reserves[TokenA], destinations[TokenA],
                                  rate[TokenA].amount)
           l1 == transfer_as_swap(a1, reserves[TokenA], admin_fees[TokenA],
                                  rate[TokenA].admin_fee)
           b1 == transfer_as_swap(l1, reserves[TokenB], destinations[TokenB],
                                  rate[TokenB].amount)
           l2 == transfer_as_swap(b1, reserves[TokenB], admin_fees[TokenB],
                                  rate[TokenB].admin_fee)
           l3 == burn(l2, user, source, n)
<1>1. ledger \in AnyLedger
  BY LedgerTyped
<1>2. /\ is_initialized /\ ledger.supply # 0 /\ (\A m \in Mints : rate[m].ok) /\ r = l3
  <2>1. ~Failed(ledger).ok
    BY <1>1 DEF AnyLedger, Failed
  <2>2. r = IF \/ ~is_initialized
               \/ ledger.supply = 0
               \/ \E m \in Mints : ~rate[m].ok \/ rate[m].amount < minimums[m]
            THEN Failed(ledger)
            ELSE l3
    BY Zenon DEF process_withdraw, handle_token_withdraw
  <2> HIDE DEF l3, rate
  <2> QED
    BY <2>1, <2>2
<1>3. /\ TokenA \in Mints /\ TokenB \in Mints
      /\ \A m \in Mints : (m = TokenA \/ m = TokenB) /\ reserves[m] \in TokenAccounts
      /\ destinations[TokenA] \in TokenAccounts /\ destinations[TokenB] \in TokenAccounts
      /\ admin_fees[TokenA] \in TokenAccounts /\ admin_fees[TokenB] \in TokenAccounts
      /\ reserves[TokenA] \in TokenAccounts /\ reserves[TokenB] \in TokenAccounts
      /\ reserves[TokenA] # reserves[TokenB]
  BY PoolAssumption DEF Mints
<1>4. ASSUME NEW m \in Mints
      PROVE  /\ ~WithdrawFeeUndefined
             /\ rate[m].amount \in Nat /\ rate[m].admin_fee \in Nat
             /\ fees.admin_withdraw_fee_numerator <= fees.admin_withdraw_fee_denominator =>
                  (rate[m].amount + rate[m].admin_fee) * ledger.supply <= n * Reserve(m)
  <2>1. rate[m] = token_rate(n, ledger.supply, Reserve(m), fees) /\ rate[m].ok
    BY <1>2
  <2> HIDE DEF rate
  <2> QED
    BY <2>1, ShareRoundsDown DEF WithdrawFeeUndefined
<1> HIDE DEF rate
<1> DEFINE paid(m) == rate[m].amount + rate[m].admin_fee
<1>5. /\ l1 \in AnyLedger /\ Pays(ledger, l1, reserves[TokenA], paid(TokenA))
      /\ l1.ok => admin_fees[TokenA] \in ledger.open
  <2> HIDE DEF a1
  <2> QED
    BY <1>1, <1>3, <1>4, PayoutEffect DEF a1
<1> HIDE DEF l1
<1>6. /\ l2 \in AnyLedger /\ Pays(l1, l2, reserves[TokenB], paid(TokenB))
      /\ l2.ok => admin_fees[TokenB] \in l1.open
  <2> HIDE DEF b1
  <2> QED
    BY <1>3, <1>4, <1>5, PayoutEffect DEF b1
<1> HIDE DEF l2
<1>7. /\ r \in AnyLedger /\ l2.ok
      /\ n <= l2.supply /\ r.supply = l2.supply - n
      /\ mint[source] = PoolMint
      /\ \A a \in TokenAccounts : a # source => r.amount[a] = l2.amount[a]
  <2>1. r = burn(l2, user, source, n)
    BY <1>2
  <2> HIDE DEF l3
  <2>2. Burns(l2, r, source, n)
    BY <1>6, <2>1, BurnEffect
  <2> QED
    BY <2>2 DEF Burns
<1>8. ASSUME NEW m \in Mints
      PROVE  r.amount[reserves[m]] >= Reserve(m) - paid(m)
  <2>1. source # reserves[m]
    BY <1>2, <1>7, NotAReserve
  <2>2. /\ ledger.amount[reserves[m]] \in Int /\ l1.amount[reserves[m]] \in Int
        /\ l2.amount[reserves[m]] \in Int /\ r.amount[reserves[m]] = l2.amount[reserves[m]]
        /\ paid(m) \in Nat
    BY <1>1, <1>3, <1>4, <1>5, <1>6, <1>7, <2>1, WidthAssumption DEF AnyLedger, U64
  <2>3. CASE m = TokenA
    BY <1>3, <1>5, <1>6, <1>7, <2>2, <2>3 DEF Pays, Reserve
  <2>4. CASE m = TokenB
    BY <1>3, <1>5, <1>6, <1>7, <2>2, <2>4 DEF Pays, Reserve
  <2> QED
    BY <1>3, <2>3, <2>4
<1>9. Supply = ledger.supply /\ l2.supply = Supply
  BY <1>5, <1>6, <1>7 DEF Pays, Supply
<1>10. FeesBelow100(fees) \/ WithdrawFeesAreFractions =>
         fees.admin_withdraw_fee_numerator <= fees.admin_withdraw_fee_denominator
  BY DEF FeesBelow100, WithdrawFeesAreFractions, Fraction
<1>11. ASSUME FeesBelow100(fees) \/ WithdrawFeesAreFractions, NEW m \in Mints
       PROVE  \E p \in Nat : p * Supply <= n * Reserve(m)
                             /\ r.amount[reserves[m]] >= Reserve(m) - p
  <2>1. paid(m) \in Nat /\ paid(m) * Supply <= n * Reserve(m)
    BY <1>4, <1>9, <1>10, <1>11
  <2> HIDE DEF paid
  <2> QED
    BY <1>8, <2>1
<1>12. \A m \in Mints : admin_fees[m] \in ledger.open
  BY <1>3, <1>5, <1>6, <1>7 DEF Pays
<1> QED
  BY <1>2, <1>3, <1>4, <1>7, <1>9, <1>11, <1>12 DEF SharesPaid, PaidWithFees

LEMMA WithdrawOneEffect ==
    ASSUME PoolInv, admin_fees \in [Mints -> TokenAccounts],
           NEW user, NEW base \in Mints, NEW source \in TokenAccounts,
           NEW destination \in TokenAccounts, NEW n \in Nat, NEW min,
           NEW r, r = process_withdraw_one(user, base, source, destination, n, min), r.ok
    PROVE  /\ CanTrade /\ ~WithdrawFeeUndefined /\ PaidWithFees(r)
           /\ r \in AnyLedger
           /\ n <= Supply /\ r.supply = Supply - n
           /\ FeesBelow100(fees) =>
                \A m \in Mints : Reserve(m) > 0 => r.amount[reserves[m]] > 0
<1> DEFINE result == compute_withdraw_one(amp_factor, n, ledger.supply,
                                          Reserve(base), Reserve(Other(base)), fees)
           rate == WithdrawOneRate(result)
           k1 == transfer_as_swap(ledger, reserves[base], destination, rate.amount)
           l1 == transfer_as_swap(k1, reserves[base], admin_fees[base], rate.admin_fee)
           l2 == burn(l1, user, source, n)
<1>1. ledger \in AnyLedger
  BY LedgerTyped
<1>2. Tradable /\ rate.ok /\ r = l2
  <2>1. ~Failed(ledger).ok
    BY <1>1 DEF AnyLedger, Failed
  <2>2. r = IF ~Tradable \/ ~rate.ok \/ rate.amount < min THEN Failed(ledger) ELSE l2
    BY Zenon DEF process_withdraw_one, handle_token_withdraw
  <2> HIDE DEF l2, rate
  <2> QED
    BY <2>1, <2>2
<1>3. /\ \A m \in Mints : reserves[m] \in TokenAccounts
      /\ \A m \in Mints : m # base => reserves[m] # reserves[base]
      /\ reserves[base] \in TokenAccounts /\ admin_fees[base] \in TokenAccounts
  BY PoolAssumption DEF Mints
<1>4. /\ CanTrade /\ ~WithdrawFeeUndefined
      /\ rate.amount \in Nat /\ rate.admin_fee \in Nat
      /\ FeesBelow100(fees) => rate.amount + rate.admin_fee + 1 <= Reserve(base)
  <2> DEFINE fee    == withdraw_fee(fees, result.dy)
             traded == admin_trade_fee(fees, result.fee)
             taken  == admin_withdraw_fee(fees, fee)
             payout == CheckedSub(result.dy, fee)
             adm    == Add64(traded, taken)
             fine   == result.ok /\ payout # None /\ adm # None
  <2>1. rate.amount = payout /\ rate.admin_fee = adm /\ fine
    <3>1. rate = [amount |-> payout, fee |-> fee, admin_fee |-> adm, ok |-> fine]
      BY Zenon DEF WithdrawOneRate
    <3> HIDE DEF rate, payout, fee, adm, fine
    <3> QED
      BY <1>2, <3>1
  <2>2. /\ result.dy \in Nat /\ result.fee \in Nat /\ Reserve(base) \in Nat
        /\ result.dy + 1 <= Reserve(base)
        /\ result.dy + result.fee <= Reserve(base)
        /\ compute_d(amp_factor, Reserve(base), Reserve(Other(base))) # None
        /\ fees.trade_fee_denominator # 0
    BY <2>1, WithdrawOneLeavesOne
  <2> HIDE DEF result
  <2>3. payout \in Nat /\ fee \in Nat /\ fee <= result.dy /\ payout = result.dy - fee
    BY <2>1, CheckedSubBounds DEF Option, None
  <2>4. adm \in Nat /\ traded \in Nat /\ taken \in Nat /\ adm = traded + taken
    BY <2>1, CheckedAddBounds DEF Add64, Option, None
  <2>5. FeesBelow100(fees) =>
          /\ taken <= fee
          /\ traded <= result.fee
          /\ result.fee > 0 => traded < result.fee
    <3>1. traded # None /\ taken # None
      BY <2>4 DEF None
    <3>2. FeesBelow100(fees) =>
            fees.admin_trade_fee_numerator <= fees.admin_trade_fee_denominator
      BY WidthAssumption DEF FeesBelow100, Fees, U64
    <3> QED
      BY <3>1, <3>2, FeeBounds DEF FeesBelow100, admin_trade_fee, admin_withdraw_fee
  <2>6. CanTrade /\ ~WithdrawFeeUndefined
    <3>1. fee # None /\ traded # None /\ taken # None
      BY <2>3, <2>4 DEF None
    <3>2. traded = mul_div_imbalanced(result.fee, fees.admin_trade_fee_numerator,
                                      fees.admin_trade_fee_denominator)
      BY DEF admin_trade_fee
    <3>3. fee = mul_div_imbalanced(result.dy, fees.withdraw_fee_numerator,
                                   fees.withdraw_fee_denominator)
      BY DEF withdraw_fee
    <3>4. taken = mul_div_imbalanced(fee, fees.admin_withdraw_fee_numerator,
                                     fees.admin_withdraw_fee_denominator)
      BY DEF admin_withdraw_fee
    <3> HIDE DEF fee, traded, taken
    <3>5. /\ fees.admin_trade_fee_denominator # 0
          /\ fees.withdraw_fee_denominator # 0 /\ fees.admin_withdraw_fee_denominator # 0
      BY <3>1, <3>2, <3>3, <3>4, MulDivBounds
    <3> QED
      BY <1>2, <2>2, <3>5, ReservesOnCurve DEF CanTrade, CanJoin, WithdrawFeeUndefined
  <2> HIDE DEF rate, fee, traded, taken, payout, adm
  <2> QED
    BY <2>1, <2>2, <2>3, <2>4, <2>5, <2>6
<1> HIDE DEF rate
<1> DEFINE paid == rate.amount + rate.admin_fee
<1>5. /\ l1 \in AnyLedger /\ Pays(ledger, l1, reserves[base], paid)
      /\ l1.ok => admin_fees[base] \in ledger.open
  <2> HIDE DEF k1
  <2> QED
    BY <1>1, <1>3, <1>4, PayoutEffect DEF k1
<1> HIDE DEF l1
<1>6. /\ r \in AnyLedger /\ l1.ok
      /\ n <= l1.supply /\ r.supply = l1.supply - n
      /\ mint[source] = PoolMint
      /\ \A a \in TokenAccounts : a # source => r.amount[a] = l1.amount[a]
  <2>1. r = burn(l1, user, source, n)
    BY <1>2
  <2> HIDE DEF l2
  <2>2. Burns(l1, r, source, n)
    BY <1>5, <2>1, BurnEffect
  <2> QED
    BY <2>2 DEF Burns
<1>7. ASSUME FeesBelow100(fees), NEW m \in Mints, Reserve(m) > 0
      PROVE  r.amount[reserves[m]] > 0
  <2>1. source # reserves[m]
    BY <1>2, <1>6, NotAReserve DEF Tradable
  <2>2. /\ ledger.amount[reserves[m]] \in Int /\ l1.amount[reserves[m]] \in Int
        /\ r.amount[reserves[m]] = l1.amount[reserves[m]]
    BY <1>1, <1>3, <1>5, <1>6, <2>1, WidthAssumption DEF AnyLedger, U64
  <2>3. CASE m = base
    BY <1>4, <1>5, <1>6, <1>7, <2>2, <2>3 DEF Pays, Reserve
  <2>4. CASE m # base
    BY <1>3, <1>5, <1>6, <1>7, <2>2, <2>4 DEF Pays, Reserve
  <2> QED
    BY <2>3, <2>4
<1>8. ASSUME NEW m \in Mints, admin_fees[m] \notin ledger.open
      PROVE  r.amount[reserves[m]] >= Reserve(m)
  <2>1. m # base
    BY <1>5, <1>6, <1>8
  <2>2. source # reserves[m]
    BY <1>2, <1>6, NotAReserve DEF Tradable
  <2> QED
    BY <1>3, <1>5, <1>6, <2>1, <2>2 DEF Pays, Reserve
<1> QED
  BY <1>4, <1>5, <1>6, <1>7, <1>8 DEF Pays, Supply, PaidWithFees

LEMMA InitializeEffect ==
    ASSUME ledger \in Ledgers, NEW amp, NEW destination \in TokenAccounts,
           NEW r, r = process_initialize(amp, destination), r.ok
    PROVE  /\ r \in AnyLedger
           /\ \A m \in Mints : /\ mint[reserves[m]] = m /\ owner[reserves[m]] = Authority
                               /\ r.amount[reserves[m]] > 0
<1> DEFINE mint_amount == ToU64(compute_d(amp, Reserve(TokenA), Reserve(TokenB)))
           minted == mint_to(ledger, destination, mint_amount)
<1>1. ledger \in AnyLedger
  BY DEF Ledgers, AnyLedger
<1>2. /\ \A m \in Mints : /\ mint[reserves[m]] = m /\ owner[reserves[m]] = Authority
                          /\ Reserve(m) # 0
      /\ mint_amount # None
      /\ r = minted
  <2>1. ~Failed(ledger).ok
    BY <1>1 DEF AnyLedger, Failed
  <2> HIDE DEF minted, mint_amount
  <2> QED
    BY <2>1 DEF process_initialize, minted, mint_amount
<1>3. mint_amount \in Nat
  BY <1>2, ToU64Bounds DEF Option
<1> HIDE DEF mint_amount
<1>4. r \in AnyLedger /\ \A a \in TokenAccounts : r.amount[a] >= ledger.amount[a]
  BY <1>1, <1>2, <1>3, MintEffect
<1>5. ASSUME NEW m \in Mints
      PROVE  r.amount[reserves[m]] > 0
  <2>1. /\ reserves[m] \in TokenAccounts
        /\ ledger.amount[reserves[m]] \in Nat /\ r.amount[reserves[m]] \in Nat
        /\ ledger.amount[reserves[m]] # 0
    BY <1>1, <1>2, <1>4, PoolAssumption, WidthAssumption DEF AnyLedger, U64, Reserve
  <2> QED
    BY <1>4, <2>1
<1> QED
  BY <1>2, <1>4, <1>5

(***************************************************************************)
(* The pool runs the admin instructions of Admin and no others: all that   *)
(* is proved of Admin holds of the pool.                                   *)
(***************************************************************************)

\* User instructions, donations, and accounts that are closed or opened leave
\* SwapInfo and the clock alone; an admin instruction does what Admin says.
THEOREM PoolImplementsAdmin == Spec => AdminSpec
<1>1. Init => AdminInit
  BY DEF Init
<1>2. [Next]_poolVars => [AdminNext]_adminVars
  <2> SUFFICES ASSUME [Next]_poolVars
               PROVE  AdminNext \/ UNCHANGED adminVars
    OBVIOUS
  <2>1. ASSUME NEW amp \in TargetAmps, NEW key \in Keys, NEW f \in FeeChoices,
               NEW accounts \in PairOf(FeeAccountsOf), NEW to, Initialize(amp, key, f, accounts, to)
        PROVE  AdminNext
    <3>1. accounts \in [Mints -> FeeAccounts]
      BY DEF PairOf, FeeAccountsOf
    <3>2. InitializeSwapInfo(amp, key, f, accounts)
      BY <2>1 DEF Initialize
    <3> QED
      BY <3>1, <3>2 DEF AdminNext
  <2>2. ASSUME NEW user \in Users, UserInstruction(user)
        PROVE  UNCHANGED adminVars
    BY <2>2 DEF UserInstruction, Swap, Deposit, Withdraw, WithdrawOne
  <2>3. CASE Administer
    BY <2>3 DEF Administer, AdminNext
  <2>4. CASE Environment
    BY <2>4 DEF Environment, Donate, Forfeit, CloseAccount, OpenAccount, AdminNext
  <2>5. CASE UNCHANGED poolVars
    BY <2>5 DEF poolVars
  <2> QED
    BY <2>1, <2>2, <2>3, <2>4, <2>5 DEF Next
<1> QED
  BY <1>1, <1>2, PTL DEF Spec, AdminSpec

\* The inductive invariant of the admin instructions holds of the pool, so the
\* fees, the fee accounts and the coefficient that the handlers read are typed.
THEOREM AdminInvariance == Spec => []IInv
  BY PoolImplementsAdmin, Invariance

(***************************************************************************)
(* What a step may do to the ledger of an initialized pool.                *)
(***************************************************************************)

StaysFunded ==
    FeesBelow100(fees) => \A m \in Mints : Reserve(m) > 0 => Reserve(m)' > 0

\* Tokens, or LP tokens, that somebody gives up for nothing.
Gifts == Supply' <= Supply /\ \A m \in Mints : Reserve(m)' >= Reserve(m)

Trades == CanTrade /\ Supply' = Supply /\ StaysFunded /\ PaidWithFees(ledger')

Joins ==
    /\ CanJoin
    /\ Supply' >= Supply /\ (Supply = 0 => Supply' = 0)
    /\ \A m \in Mints : Reserve(m)' >= Reserve(m)

\* A withdrawal of some LP tokens that pays out no more than their share.
PaysShares ==
    /\ Supply # 0 /\ ~WithdrawFeeUndefined
    /\ \E n \in Nat :
        n <= Supply /\ Supply' = Supply - n /\ SharesPaid(ledger', n)
    /\ PaidWithFees(ledger')

\* A one-sided withdrawal.
Leaves ==
    /\ CanTrade /\ ~WithdrawFeeUndefined
    /\ Supply' <= Supply
    /\ StaysFunded /\ PaidWithFees(ledger')

LEMMA Committed ==
    ASSUME NEW r \in AnyLedger, Commit(r)
    PROVE  ledger' \in Ledgers /\ ledger' = r
<1>1. r.ok = TRUE /\ ledger' = r
  BY DEF Commit, AnyLedger
<1> QED
  BY <1>1 DEF Ledgers, AnyLedger

LEMMA UserStep ==
    ASSUME IInv, PoolInv, NEW user \in Users, UserInstruction(user)
    PROVE  /\ ledger' \in Ledgers
           /\ is_initialized
           /\ Trades \/ Joins \/ PaysShares \/ Leaves
<1> DEFINE Mine(m) == AccountsOf(user, m)
<1>1. /\ admin_fees \in [Mints -> TokenAccounts]
      /\ \A m : Mine(m) \subseteq TokenAccounts /\ DestinationsOf(m) \subseteq TokenAccounts
      /\ Amounts \subseteq Nat
      /\ Supply \in Nat
  <2>1. ledger.supply \in Nat
    BY WidthAssumption DEF PoolInv, Ledgers, U64
  <2> QED
    BY <2>1, PoolAssumption, WidthAssumption
       DEF IInv, TypeOK, AccountsOf, DestinationsOf, U64, Supply
<1>2. ASSUME NEW from \in Mints, NEW n \in Amounts, NEW min \in Minimums,
             NEW source \in Mine(from), NEW to \in DestinationsOf(Other(from)),
             Swap(user, from, source, to, n, min)
      PROVE  ledger' \in Ledgers /\ is_initialized /\ Trades
  <2> DEFINE r == process_swap(user, from, source, to, n, min)
  <2>1. r.ok /\ ledger' = r /\ Commit(r)
    BY <1>2 DEF Swap, Commit
  <2>2. /\ CanTrade /\ r \in AnyLedger /\ r.supply = Supply /\ PaidWithFees(r)
        /\ FeesBelow100(fees) =>
             \A m \in Mints : Reserve(m) > 0 => r.amount[reserves[m]] > 0
    BY <1>1, <2>1, SwapEffect
  <2> HIDE DEF r
  <2> QED
    BY <2>1, <2>2, Committed
       DEF Trades, StaysFunded, CanTrade, CanJoin, Tradable, Supply, Reserve
<1>3. ASSUME NEW sources \in PairOf(Mine), NEW to \in DestinationsOf(PoolMint),
             NEW ns \in [Mints -> Amounts \cup {0}], NEW min \in Minimums,
             Deposit(user, sources, to, ns, min)
      PROVE  ledger' \in Ledgers /\ is_initialized /\ Joins
  <2> DEFINE r == process_deposit(user, sources, to, ns, min)
  <2>1. r.ok /\ ledger' = r /\ Commit(r)
    BY <1>3 DEF Deposit, Commit
  <2>2. sources \in [Mints -> TokenAccounts]
    BY <1>1 DEF PairOf
  <2>3. ns \in [Mints -> Nat]
    BY <1>1
  <2>4. /\ CanJoin /\ r \in AnyLedger
        /\ r.supply >= Supply
        /\ Supply = 0 => r.supply = 0
        /\ \A m \in Mints : r.amount[reserves[m]] >= Reserve(m)
    BY <1>1, <2>1, <2>2, <2>3, DepositEffect
  <2> HIDE DEF r
  <2> QED
    BY <2>1, <2>4, Committed DEF Joins, CanJoin, Tradable, Supply, Reserve
<1>4. ASSUME NEW source \in Mine(PoolMint), NEW tos \in PairOf(DestinationsOf),
             NEW n \in Amounts, NEW minimums,
             Withdraw(user, source, tos, n, minimums)
      PROVE  ledger' \in Ledgers /\ is_initialized /\ PaysShares
  <2> DEFINE r == process_withdraw(user, source, tos, n, minimums)
  <2>1. r.ok /\ ledger' = r /\ Commit(r)
    BY <1>4 DEF Withdraw, Commit
  <2>2. tos \in [Mints -> TokenAccounts] /\ n \in Nat /\ source \in TokenAccounts
    BY <1>1 DEF PairOf
  <2>3. /\ is_initialized /\ ~WithdrawFeeUndefined /\ r \in AnyLedger
        /\ n <= Supply /\ Supply # 0 /\ r.supply = Supply - n
        /\ SharesPaid(r, n) /\ PaidWithFees(r)
    BY <1>1, <2>1, <2>2, WithdrawEffect
  <2> HIDE DEF r
  <2> QED
    BY <2>1, <2>2, <2>3, Committed DEF PaysShares, Supply
<1>5. ASSUME NEW base \in Mints, NEW source \in Mine(PoolMint), NEW n \in Amounts,
             NEW min \in Minimums, NEW to \in DestinationsOf(base),
             WithdrawOne(user, base, source, to, n, min)
      PROVE  ledger' \in Ledgers /\ is_initialized /\ Leaves
  <2> DEFINE r == process_withdraw_one(user, base, source, to, n, min)
  <2>1. r.ok /\ ledger' = r /\ Commit(r)
    BY <1>5 DEF WithdrawOne, Commit
  <2>2. /\ CanTrade /\ ~WithdrawFeeUndefined /\ r \in AnyLedger /\ PaidWithFees(r)
        /\ n <= Supply /\ r.supply = Supply - n
        /\ FeesBelow100(fees) =>
             \A m \in Mints : Reserve(m) > 0 => r.amount[reserves[m]] > 0
    BY <1>1, <2>1, WithdrawOneEffect
  <2> HIDE DEF r
  <2>3. n \in Nat
    BY <1>1
  <2>4. Supply - n <= Supply
    BY <1>1, <2>3
  <2> QED
    BY <1>1, <2>1, <2>2, <2>3, <2>4, Committed
       DEF Leaves, StaysFunded, CanTrade, CanJoin, Tradable, Supply, Reserve
<1> QED
  BY <1>2, <1>3, <1>4, <1>5 DEF UserInstruction

LEMMA EnvironmentStep ==
    ASSUME PoolInv, Environment
    PROVE  /\ ledger' \in Ledgers
           /\ is_initialized => Gifts
           /\ ~is_initialized => Supply' = Supply
<1>0. /\ ledger \in AnyLedger /\ ledger.ok /\ Supply \in Nat
      /\ \A m \in Mints : reserves[m] \in TokenAccounts /\ Reserve(m) \in Nat
  <2>1. /\ ledger \in AnyLedger /\ ledger.ok
        /\ \A m \in Mints : reserves[m] \in TokenAccounts
    BY LedgerTyped, PoolAssumption DEF PoolInv, Ledgers
  <2> QED
    BY <2>1, WidthAssumption DEF AnyLedger, U64, Supply, Reserve
<1>1. CASE Tick /\ UNCHANGED ledger
  BY <1>0, <1>1, LedgerTyped DEF PoolInv, Gifts, Supply, Reserve
<1>2. ASSUME NEW m \in Mints, NEW n \in Donations, NEW user \in Users,
             NEW source \in AccountsOf(user, m), Donate(user, source, m, n)
      PROVE  /\ ledger' \in Ledgers
             /\ Supply' = Supply
             /\ is_initialized => Gifts
  <2> DEFINE r == transfer_as_user(ledger, user, source, reserves[m], n)
  <2>1. Commit(r) /\ r.ok
    BY <1>2 DEF Donate, Commit
  <2>2. n \in Nat /\ source \in TokenAccounts /\ reserves[m] \in TokenAccounts
    BY PoolAssumption, WidthAssumption DEF AccountsOf, U64
  <2>3. r \in AnyLedger /\ Pays(ledger, r, source, n) /\ owner[source] = user
    BY <1>0, <2>1, <2>2, TransferEffect DEF transfer_as_user
  <2> HIDE DEF r
  <2>4. is_initialized => \A o \in Mints : source # reserves[o]
    BY <2>2, <2>3, NotAReserve
  <2>5. ledger' \in Ledgers /\ ledger' = r
    BY <2>1, <2>3, Committed
  <2> QED
    BY <1>0, <2>1, <2>3, <2>4, <2>5 DEF Pays, Gifts, Supply, Reserve
<1>3. ASSUME NEW account \in Closable, CloseAccount(account) \/ OpenAccount(account)
      PROVE  /\ ledger' \in Ledgers
             /\ Supply' = Supply /\ \A m \in Mints : Reserve(m)' = Reserve(m)
  <2>1. PICK o \in SUBSET TokenAccounts : ledger' = [ledger EXCEPT !.open = o]
    <3>1. account \in TokenAccounts /\ ledger.open \in SUBSET TokenAccounts
      BY <1>0, PoolAssumption DEF AnyLedger
    <3> QED
      BY <1>3, <3>1 DEF CloseAccount, OpenAccount
  <2> QED
    BY <1>0, <2>1 DEF PoolInv, Ledgers, Supply, Reserve
<1>4. ASSUME NEW n \in Donations, NEW user \in Users,
             NEW source \in AccountsOf(user, PoolMint), Forfeit(user, source, n)
      PROVE  /\ ledger' \in Ledgers
             /\ is_initialized => Gifts
             /\ ~is_initialized => Supply' = Supply
  <2> DEFINE r == burn(ledger, user, source, n)
  <2>1. Commit(r) /\ r.ok
    BY <1>4 DEF Forfeit, Commit
  <2>2. n \in Nat /\ source \in TokenAccounts /\ mint[source] = PoolMint
    BY PoolAssumption, WidthAssumption DEF AccountsOf, U64
  <2>3. Burns(ledger, r, source, n)
    BY <1>0, <2>2, BurnEffect
  <2> HIDE DEF r
  <2>4. ledger' \in Ledgers /\ ledger' = r
    BY <2>1, <2>3, Committed DEF Burns
  <2>5. n <= Supply /\ Supply' = Supply - n
    BY <2>1, <2>3, <2>4 DEF Burns, Supply
  <2>6. is_initialized => \A m \in Mints : Reserve(m)' = Reserve(m)
    BY <2>1, <2>2, <2>3, <2>4, NotAReserve, PoolAssumption DEF Burns, Reserve
  <2>7. ~is_initialized => Supply = 0
    BY DEF PoolInv
  <2> QED
    BY <1>0, <2>2, <2>4, <2>5, <2>6, <2>7 DEF Gifts
<1> QED
  BY <1>0, <1>1, <1>2, <1>3, <1>4, LedgerTyped DEF Environment, Gifts

LEMMA InitPoolInv == Init => PoolInv
<1> SUFFICES ASSUME Init
             PROVE  PoolInv
  OBVIOUS
<1>1. ~is_initialized
  BY DEF Init, AdminInit
<1>2. ledger \in Ledgers /\ Supply = 0
  BY PoolAssumption, WidthAssumption DEF Init, Ledgers, U64, Supply
<1> QED
  BY <1>1, <1>2 DEF PoolInv, ReservesAreOurs

\* The induction step, and with it all that the properties below need to know
\* of a step.
LEMMA PoolStep ==
    ASSUME IInv, PoolInv, [Next]_poolVars
    PROVE  /\ PoolInv'
           /\ is_initialized =>
                /\ is_initialized'
                /\ \/ UNCHANGED is_paused /\ (Trades \/ Joins \/ PaysShares \/ Leaves \/ Gifts)
                   \/ UNCHANGED ledger
           /\ ~is_initialized /\ is_initialized' =>
                ~is_paused' /\ \A m \in Mints : Reserve(m)' > 0
           /\ ~is_initialized /\ ~is_initialized' => Supply' = Supply
<1>1. ASSUME NEW amp \in TargetAmps, NEW key \in Keys, NEW f \in FeeChoices,
             NEW accounts \in PairOf(FeeAccountsOf), NEW to \in DestinationsOf(PoolMint),
             Initialize(amp, key, f, accounts, to)
      PROVE  /\ ~is_initialized /\ is_initialized' /\ ~is_paused'
             /\ PoolInv' /\ \A m \in Mints : Reserve(m)' > 0
  <2> DEFINE r == process_initialize(amp, to)
  <2>1. ~is_initialized /\ is_initialized' /\ ~is_paused' /\ Commit(r) /\ r.ok
    BY <1>1 DEF Initialize, InitializeSwapInfo, Commit
  <2>2. ledger \in Ledgers /\ to \in TokenAccounts
    BY PoolAssumption DEF PoolInv, DestinationsOf
  <2>3. /\ r \in AnyLedger
        /\ \A m \in Mints : /\ mint[reserves[m]] = m /\ owner[reserves[m]] = Authority
                            /\ r.amount[reserves[m]] > 0
    BY <2>1, <2>2, InitializeEffect
  <2> HIDE DEF r
  <2> QED
    BY <2>1, <2>3, Committed DEF PoolInv, ReservesAreOurs, Reserve
<1>2. ASSUME UNCHANGED ledger
      PROVE  ledger' \in Ledgers /\ Supply' = Supply
  BY <1>2 DEF PoolInv, Supply
<1>3. ASSUME NEW user \in Users, UserInstruction(user)
      PROVE  /\ ledger' \in Ledgers /\ is_initialized /\ UNCHANGED <<is_initialized, is_paused>>
             /\ Trades \/ Joins \/ PaysShares \/ Leaves
  <2>1. UNCHANGED <<is_initialized, is_paused>>
    BY <1>3 DEF UserInstruction, Swap, Deposit, Withdraw, WithdrawOne, adminVars, swapInfoVars
  <2> QED
    BY <1>3, <2>1, UserStep
<1>4. ASSUME Administer
      PROVE  UNCHANGED <<ledger, is_initialized>>
  BY <1>4
     DEF Administer, AdminInstruction, RampA, StopRampA, Pause, Unpause, SetPaused,
         SetFeeAccount, ApplyNewAdmin, CommitNewAdmin, SetNewFees
<1>5. ASSUME Environment
      PROVE  /\ ledger' \in Ledgers /\ UNCHANGED <<is_initialized, is_paused>>
             /\ (is_initialized => Gifts) /\ (~is_initialized => Supply' = Supply)
  <2>1. UNCHANGED <<is_initialized, is_paused>>
    BY <1>5 DEF Environment, Tick, Donate, Forfeit, CloseAccount, OpenAccount, adminVars, swapInfoVars
  <2> QED
    BY <1>5, <2>1, EnvironmentStep
<1>6. CASE UNCHANGED poolVars
  BY <1>2, <1>6 DEF poolVars, adminVars, swapInfoVars, PoolInv, ReservesAreOurs
<1> QED
  <2>1. ASSUME ledger' \in Ledgers, UNCHANGED is_initialized,
               ~is_initialized => Supply' = Supply
        PROVE  PoolInv'
    BY <2>1 DEF PoolInv, ReservesAreOurs
  <2> QED
    BY <1>1, <1>2, <1>3, <1>4, <1>5, <1>6, <2>1 DEF Next

(***************************************************************************)
(* The theorems.                                                           *)
(***************************************************************************)

\* The ledger stays typed, every balance and the supply in a u64, whatever the
\* handlers compute; from Initialize on the reserves are accounts of the pool's
\* two mints that belong to the program's address.
THEOREM PoolInvariance == Spec => [](IInv /\ PoolInv)
<1>1. IInv /\ PoolInv /\ [Next]_poolVars => PoolInv'
  BY PoolStep
<1> QED
  BY <1>1, InitPoolInv, AdminInvariance, PTL DEF Spec

\* What is left to the LP tokens that remain after their share of at most
\* floor(n * reserve / supply) has been paid out.
LEMMA ShareKept ==
    ASSUME NEW s \in Nat, NEW n \in Nat, NEW v \in Nat, NEW w \in Nat, NEW paid \in Nat,
           n <= s, paid * s <= n * v, w >= v - paid
    PROVE  /\ w * s >= v * (s - n)
           /\ v > 0 /\ n < s => w > 0
<1>1. v - paid \in Int /\ s - n \in Nat
  OBVIOUS
<1>2. v * (s - n) = v * s - n * v
  OBVIOUS
<1>3. (v - paid) * s = v * s - paid * s
  OBVIOUS
<1>4. w * s >= (v - paid) * s
  <2>1. w - (v - paid) \in Nat
    OBVIOUS
  <2>2. (w - (v - paid)) * s \in Nat
    BY <2>1
  <2>3. (w - (v - paid)) * s = w * s - (v - paid) * s
    OBVIOUS
  <2> QED
    BY <2>2, <2>3
<1>5. w * s >= v * (s - n)
  BY <1>2, <1>3, <1>4
<1>6. ASSUME v > 0, n < s
      PROVE  w > 0
  <2>1. v * (s - n) > 0
    BY <1>6
  <2>2. w = 0 => w * s = 0
    OBVIOUS
  <2> QED
    BY <1>5, <2>1, <2>2
<1> QED
  BY <1>5, <1>6

LEMMA BackingTyped ==
    ASSUME PoolInv, PoolInv'
    PROVE  /\ Supply \in Nat /\ Supply' \in Nat
           /\ \A m \in Mints : Reserve(m) \in Nat /\ Reserve(m)' \in Nat
<1>1. /\ ledger.supply \in Nat /\ ledger'.supply \in Nat
      /\ \A m \in Mints : /\ ledger.amount[reserves[m]] \in Nat
                          /\ ledger'.amount[reserves[m]] \in Nat
  BY PoolAssumption, WidthAssumption DEF PoolInv, Ledgers, U64
<1> QED
  BY <1>1 DEF Supply, Reserve

\* A product does not fall when neither factor does.
LEMMA ProductGrows ==
    ASSUME NEW x \in Nat, NEW y \in Nat, NEW s \in Nat, NEW t \in Nat, y >= x, t <= s
    PROVE  y * s >= x * t
<1>1. y - x \in Nat /\ s - t \in Nat
  OBVIOUS
<1>2. (y - x) * s \in Nat /\ x * (s - t) \in Nat
  BY <1>1
<1>3. (y - x) * s = y * s - x * s /\ x * (s - t) = x * s - x * t
  OBVIOUS
<1>4. y * s \in Nat /\ x * s \in Nat /\ x * t \in Nat
  OBVIOUS
<1> QED
  BY <1>2, <1>3, <1>4

\* Proportional withdrawals, donations and steps without tokens take nothing
\* from the LP tokens that stay.
LEMMA BackingKept ==
    ASSUME PoolInv, PoolInv', PaysShares \/ Gifts \/ UNCHANGED ledger,
           FeesBelow100(fees) \/ WithdrawFeesAreFractions
    PROVE  SharesKeepBacking
<1> SUFFICES ASSUME NEW m \in Mints
             PROVE  Reserve(m)' * Supply >= Reserve(m) * Supply'
  BY DEF SharesKeepBacking
<1>1. /\ Supply \in Nat /\ Supply' \in Nat
      /\ Reserve(m) \in Nat /\ Reserve(m)' \in Nat
  BY BackingTyped
<1>2. CASE PaysShares
  <2>1. PICK n \in Nat : n <= Supply /\ Supply' = Supply - n /\ SharesPaid(ledger', n)
    BY <1>2 DEF PaysShares
  <2>2. PICK paid \in Nat : /\ paid * Supply <= n * Reserve(m)
                            /\ Reserve(m)' >= Reserve(m) - paid
    BY <2>1 DEF SharesPaid, Supply, Reserve
  <2> QED
    BY <1>1, <2>1, <2>2, ShareKept
<1>3. CASE Supply' <= Supply /\ Reserve(m)' >= Reserve(m)
  BY <1>1, <1>3, ProductGrows
<1>4. UNCHANGED ledger => Supply' <= Supply /\ Reserve(m)' >= Reserve(m)
  BY <1>1 DEF Supply, Reserve
<1> QED
  BY <1>2, <1>3, <1>4 DEF Gifts

\* While the pool is paused only proportional withdrawals change the reserves or
\* the supply, and they round down: no LP token loses backing in either token.
THEOREM PausedKeepsReserves == Spec => PausedKeepsBothReserves
<1>1. ASSUME IInv, PoolInv, PoolInv', [Next]_poolVars,
             is_initialized, is_paused, WithdrawFeesAreFractions
      PROVE  \A m \in Mints : Reserve(m)' * Supply >= Reserve(m) * Supply'
  <2>0. ~CanJoin /\ ~CanTrade
    BY <1>1 DEF CanTrade, CanJoin, Tradable
  <2>1. PaysShares \/ Gifts \/ UNCHANGED ledger
    BY <1>1, <2>0, PoolStep DEF Trades, Joins, Leaves
  <2> QED
    BY <1>1, <2>1, BackingKept DEF SharesKeepBacking
<1> QED
  BY <1>1, PoolInvariance, PTL DEF Spec, PausedKeepsBothReserves

\* A reserve over half of the largest u64 stops every instruction that uses the
\* curve: compute_d returns None, and so does whatever is computed from it.  All
\* that goes on are proportional withdrawals.
THEOREM OverflowKeepsReserves == Spec => OverflowKeepsBothReserves
<1>1. ASSUME IInv, PoolInv, PoolInv', [Next]_poolVars,
             is_initialized, ~OnTheCurve(Backing), WithdrawFeesAreFractions
      PROVE  SharesKeepBacking
  <2>1. PaysShares \/ Gifts \/ UNCHANGED ledger
    BY <1>1, PoolStep DEF Trades, Joins, Leaves, CanTrade, CanJoin
  <2> QED
    BY <1>1, <2>1, BackingKept
<1> QED
  BY <1>1, PoolInvariance, PTL DEF Spec, OverflowKeepsBothReserves

\* A fee with a zero denominator fails the instructions that charge it; it is
\* never taken for no fee.
THEOREM UndefinedFeesAreRefused == Spec => UndefinedFeesRefuse
<1> DEFINE Refuse == /\ TradeFeeUndefined /\ WithdrawFeesAreFractions /\ Supply' <= Supply =>
                          SharesKeepBacking
                     /\ fees.trade_fee_denominator = 0 => Supply' <= Supply
                     /\ WithdrawFeeUndefined /\ Supply' < Supply =>
                          \A m \in Mints : Reserve(m)' >= Reserve(m)
<1>1. ASSUME IInv, PoolInv, PoolInv', [Next]_poolVars, is_initialized
      PROVE  Refuse
  <2>1. Supply \in Nat /\ Supply' \in Nat
    BY <1>1, BackingTyped
  <2>2. CASE PaysShares \/ Gifts \/ UNCHANGED ledger
    <3>1. Supply' <= Supply
      BY <2>1, <2>2 DEF PaysShares, Gifts, Supply
    <3>2. WithdrawFeeUndefined /\ Supply' < Supply =>
              \A m \in Mints : Reserve(m)' >= Reserve(m)
      BY <2>1, <2>2 DEF PaysShares, Gifts, Supply
    <3>3. WithdrawFeesAreFractions => SharesKeepBacking
      BY <1>1, <2>2, BackingKept
    <3> QED
      BY <3>1, <3>2, <3>3
  <2>3. CASE Joins
    <3>1. fees.trade_fee_denominator # 0 /\ Supply' >= Supply
      BY <2>3 DEF Joins, CanJoin
    <3>2. Supply' <= Supply => Gifts
      BY <2>1, <2>3 DEF Joins, Gifts
    <3>3. WithdrawFeesAreFractions /\ Supply' <= Supply => SharesKeepBacking
      BY <1>1, <3>2, BackingKept
    <3>4. ~(Supply' < Supply)
      BY <2>1, <3>1
    <3> QED
      BY <3>1, <3>3, <3>4
  <2>4. CASE Trades \/ Leaves
    <3>1. ~TradeFeeUndefined /\ fees.trade_fee_denominator # 0
      BY <2>4 DEF Trades, Leaves, CanTrade, CanJoin, TradeFeeUndefined
    <3>2. ~(WithdrawFeeUndefined /\ Supply' < Supply)
      BY <2>1, <2>4 DEF Trades, Leaves
    <3> QED
      BY <3>1, <3>2
  <2> HIDE DEF Refuse
  <2> QED
    BY <1>1, <2>2, <2>3, <2>4, PoolStep
<1> QED
  BY <1>1, PoolInvariance, PTL DEF Spec, UndefinedFeesRefuse

\* No step issues an LP token of an initialized pool that has none left: a
\* deposit into it mints zero, and Initialize does not run twice.
THEOREM DeadStaysDead == Spec => DeadPoolStaysDead
<1>1. ASSUME IInv, PoolInv, PoolInv', [Next]_poolVars, is_initialized, Supply = 0
      PROVE  Supply' = 0
  <2>1. Supply \in Nat /\ Supply' \in Nat
    BY <1>1, BackingTyped
  <2>2. \/ Trades \/ Joins \/ PaysShares \/ Leaves \/ Gifts
        \/ UNCHANGED ledger
    BY <1>1, PoolStep
  <2> QED
    BY <1>1, <2>1, <2>2 DEF Trades, Joins, PaysShares, Leaves, Gifts, Supply
<1> QED
  BY <1>1, PoolInvariance, PTL DEF Spec, DeadPoolStaysDead

\* No handler pays a token out of a reserve without the transfer of its fee, of
\* zero tokens or more, and that fails where the fee account has been closed.
THEOREM ClosedFeeAccountBlocks == Spec => ClosedFeeAccountStopsPayouts
<1>1. ASSUME IInv, PoolInv, PoolInv', [Next]_poolVars, is_initialized
      PROVE  \A m \in Mints : admin_fees[m] \notin ledger.open => Reserve(m)' >= Reserve(m)
  <2> SUFFICES ASSUME NEW m \in Mints, admin_fees[m] \notin ledger.open
               PROVE  Reserve(m)' >= Reserve(m)
    OBVIOUS
  <2>1. CASE Trades \/ PaysShares \/ Leaves
    BY <2>1 DEF Trades, PaysShares, Leaves, PaidWithFees, Reserve
  <2>2. CASE Joins \/ Gifts
    BY <2>2 DEF Joins, Gifts
  <2>3. CASE UNCHANGED ledger
    BY <1>1, <2>3, BackingTyped DEF Reserve
  <2> QED
    BY <1>1, <2>1, <2>2, <2>3, PoolStep
<1> QED
  BY <1>1, PoolInvariance, PTL DEF Spec, ClosedFeeAccountStopsPayouts

\* With every admin share of a fee below 100%, as FeesBelow100 says, no handler
\* empties a reserve while LP tokens are outstanding: a swap or a one-sided
\* withdrawal leaves one of the token it pays out, and a withdrawal of less than
\* all LP tokens less than the whole reserve.
THEOREM ReservesLive ==
    ASSUME \A f \in FeeChoices : FeesBelow100(f)
    PROVE  Spec => []ReservesStayLive
<1>1. Init => ReservesStayLive
  BY DEF Init, AdminInit, ReservesStayLive
<1>2. ASSUME IInv, PoolInv, PoolInv', [Next]_poolVars, ReservesStayLive,
             is_initialized', Supply' > 0, NEW m \in Mints
      PROVE  Reserve(m)' > 0
  <2>1. /\ Supply \in Nat /\ Supply' \in Nat
        /\ Reserve(m) \in Nat /\ Reserve(m)' \in Nat
    BY <1>2, BackingTyped
  <2>2. FeesBelow100(fees)
    BY <1>2 DEF IInv, TypeOK
  <2>3. CASE is_initialized /\ (PaysShares \/ Gifts \/ UNCHANGED ledger)
    <3>1. Supply > 0
      BY <1>2, <2>1, <2>3 DEF PaysShares, Gifts, Supply
    <3>2. Reserve(m) > 0
      BY <1>2, <2>3, <3>1 DEF ReservesStayLive
    <3>3. Reserve(m)' * Supply >= Reserve(m) * Supply'
      BY <1>2, <2>2, <2>3, BackingKept DEF SharesKeepBacking
    <3>4. Reserve(m) * Supply' > 0 /\ (Reserve(m)' = 0 => Reserve(m)' * Supply = 0)
      BY <1>2, <2>1, <3>2
    <3> QED
      BY <2>1, <3>3, <3>4
  <2>4. CASE is_initialized /\ (Trades \/ Joins \/ Leaves)
    <3>1. Supply > 0
      BY <1>2, <2>1, <2>4 DEF Trades, Joins, Leaves
    <3>2. Reserve(m) > 0
      BY <1>2, <2>4, <3>1 DEF ReservesStayLive
    <3> QED
      BY <2>1, <2>2, <2>4, <3>2 DEF Trades, Joins, Leaves, StaysFunded
  <2>5. CASE ~is_initialized
    BY <1>2, <2>5, PoolStep
  <2> QED
    BY <1>2, <2>3, <2>4, <2>5, PoolStep
<1>3. IInv /\ PoolInv /\ PoolInv' /\ [Next]_poolVars /\ ReservesStayLive => ReservesStayLive'
  BY <1>2 DEF ReservesStayLive
<1> QED
  BY <1>1, <1>3, PoolInvariance, PTL DEF Spec

(***************************************************************************)
(* The pool implements Vault.                                              *)
(***************************************************************************)
LEMMA VaultStep ==
    ASSUME \A f \in FeeChoices : FeesBelow100(f),
           IInv, PoolInv, PoolInv', [Next]_poolVars
    PROVE  [V!Next]_(V!vars)
<1> DEFINE phase    == IF ~is_initialized THEN "unborn"
                       ELSE IF is_paused THEN "paused" ELSE "open"
           holdings == [m \in Mints |-> Reserve(m)]
<1>1. /\ Supply \in Nat /\ Supply' \in Nat
      /\ \A m \in Mints : Reserve(m) \in Nat /\ Reserve(m)' \in Nat
      /\ holdings' \in [Mints -> Nat]
      /\ \A m \in Mints : holdings[m] = Reserve(m) /\ holdings'[m] = Reserve(m)'
  BY BackingTyped
<1>2. FeesBelow100(fees)
  BY DEF IInv, TypeOK
<1>3. CASE ~is_initialized /\ ~is_initialized'
  <2>1. phase = "unborn" /\ UNCHANGED <<phase, Supply>>
    BY <1>3, PoolStep
  <2> QED
    BY <1>1, <2>1 DEF V!Next, V!Prepare
<1>4. CASE ~is_initialized /\ is_initialized'
  <2>1. phase = "unborn" /\ phase' = "open" /\ \A m \in Mints : holdings'[m] > 0
    BY <1>1, <1>4, PoolStep
  <2> QED
    BY <1>1, <2>1 DEF V!Next, V!Found, V!Holds
<1>5. CASE is_initialized /\ UNCHANGED ledger
  <2>1. is_initialized' /\ UNCHANGED <<Supply, holdings>>
    BY <1>5, PoolStep DEF Supply, Reserve
  <2>2. phase \in {"open", "paused"} /\ phase' \in {"open", "paused"}
    BY <1>5, <2>1
  <2> QED
    BY <1>1, <2>1, <2>2 DEF V!Next, V!Pause, V!Unpause, V!vars
<1>6. ASSUME is_initialized, is_initialized', UNCHANGED is_paused
      PROVE  /\ phase # "unborn" /\ UNCHANGED phase
             /\ ~is_paused => phase = "open"
  BY <1>6
<1>7. CASE is_initialized /\ is_initialized' /\ UNCHANGED is_paused /\ Gifts
  <2>1. CASE Supply' = Supply
    BY <1>1, <1>6, <1>7, <2>1 DEF Gifts, V!Next, V!Gift, V!Grows
  <2>2. CASE Supply' # Supply
    <3>1. Supply > 0 /\ Supply' <= Supply
      BY <1>1, <1>7, <2>2 DEF Gifts
    <3>2. \A m \in Mints : holdings'[m] * Supply >= holdings[m] * Supply'
      BY <1>1, <1>2, <1>7, BackingKept DEF SharesKeepBacking
    <3> QED
      BY <1>1, <1>6, <1>7, <3>1, <3>2 DEF V!Next, V!Redeem
  <2> QED
    BY <2>1, <2>2
<1>8. CASE is_initialized /\ is_initialized' /\ UNCHANGED is_paused /\ PaysShares
  <2>1. Supply > 0 /\ Supply' <= Supply
    BY <1>1, <1>8 DEF PaysShares
  <2>2. \A m \in Mints : holdings'[m] * Supply >= holdings[m] * Supply'
    BY <1>1, <1>2, <1>8, BackingKept DEF SharesKeepBacking
  <2> QED
    BY <1>1, <1>6, <1>8, <2>1, <2>2 DEF V!Next, V!Redeem
<1>9. CASE is_initialized /\ is_initialized' /\ UNCHANGED is_paused /\ (Trades \/ Joins \/ Leaves)
  <2>1. ~is_paused
    BY <1>9 DEF Trades, Joins, Leaves, CanTrade, CanJoin, Tradable
  <2>2. CASE Trades
    BY <1>1, <1>2, <1>6, <1>9, <2>1, <2>2 DEF Trades, StaysFunded, V!Next, V!Trade, V!StaysFunded
  <2>3. CASE Joins
    BY <1>1, <1>6, <1>9, <2>1, <2>3 DEF Joins, V!Next, V!Join, V!Grows
  <2>4. CASE Leaves
    BY <1>1, <1>2, <1>6, <1>9, <2>1, <2>4 DEF Leaves, StaysFunded, V!Next, V!Leave, V!StaysFunded
  <2> QED
    BY <1>9, <2>2, <2>3, <2>4
<1> QED
  BY <1>3, <1>4, <1>5, <1>7, <1>8, <1>9, PoolStep

\* Under admin fees below 100% of their fee, every step of the pool (a user or
\* admin instruction, the clock, a donation, a closed account) is one that Vault
\* allows or changes nothing it sees: the promises of Vault hold of the program,
\* and what follows from them, too.
THEOREM PoolImplementsVault ==
    ASSUME \A f \in FeeChoices : FeesBelow100(f)
    PROVE  Spec => ImplementsVault
<1>1. Init => V!Init
  <2> SUFFICES ASSUME Init
               PROVE  V!Init
    OBVIOUS
  <2>1. ~is_initialized /\ Supply = 0
    BY DEF Init, AdminInit, Supply
  <2>2. \A m \in Mints : Reserve(m) \in Nat
    BY InitPoolInv, LedgerTyped DEF PoolInv
  <2> QED
    BY <2>1, <2>2 DEF V!Init
<1>2. IInv /\ PoolInv /\ PoolInv' /\ [Next]_poolVars => [V!Next]_(V!vars)
  BY VaultStep
<1> QED
  BY <1>1, <1>2, PoolInvariance, PTL DEF Spec, ImplementsVault, V!Spec

(***************************************************************************)
(* What follows from the promises of Vault alone: the proof uses no        *)
(* definition of Pool.                                                     *)
(***************************************************************************)

\* The shares that a redemption leaves still have a part in every holding.
LEMMA RedeemLeavesSome ==
    ASSUME NEW s \in Nat, NEW t \in Nat, NEW h \in Nat, NEW g \in Nat,
           t > 0, h > 0, g * s >= h * t
    PROVE  g > 0
<1>1. h * t > 0
  OBVIOUS
<1>2. g = 0 => g * s = 0
  OBVIOUS
<1> QED
  BY <1>1, <1>2

\* Who holds a share, holds a share in something of both tokens: no sequence of
\* trades, joins, exits, redemptions, gifts and pauses takes either holding down
\* to nothing while shares are outstanding (swap.rs, curve.rs:381 and :360).
THEOREM VaultStaysFunded == V!Spec => []V!SharesAreFunded
<1> DEFINE phase    == IF ~is_initialized THEN "unborn"
                       ELSE IF is_paused THEN "paused" ELSE "open"
           holdings == [m \in Mints |-> Reserve(m)]
           TypesOK  == Supply \in Nat /\ \A m \in Mints : Reserve(m) \in Nat
           VaultInv == TypesOK /\ V!SharesAreFunded
<1>1. V!Init => VaultInv
  <2> SUFFICES ASSUME V!Init
               PROVE  VaultInv
    OBVIOUS
  <2>1. Supply = 0 /\ holdings \in [Mints -> Nat]
    BY DEF V!Init
  <2>2. \A m \in Mints : holdings[m] = Reserve(m) /\ holdings[m] \in Nat
    BY <2>1
  <2> QED
    BY <2>1, <2>2 DEF V!SharesAreFunded
<1>2. VaultInv /\ [V!Next]_(V!vars) => VaultInv'
  <2> SUFFICES ASSUME VaultInv, [V!Next]_(V!vars)
               PROVE  VaultInv'
    OBVIOUS
  <2>0. \A m \in Mints : holdings[m] = Reserve(m) /\ holdings'[m] = Reserve(m)'
    OBVIOUS
  <2>1. CASE UNCHANGED V!vars
    <3>1. UNCHANGED <<phase, Supply, holdings>>
      BY <2>1 DEF V!vars
    <3>2. \A m \in Mints : Reserve(m)' = Reserve(m)
      BY <2>0, <3>1
    <3>3. V!SharesAreFunded'
      BY <2>0, <3>1, <3>2 DEF V!SharesAreFunded, V!Holds
    <3> QED
      BY <3>1, <3>2, <3>3
  <2>2. ASSUME V!Next
        PROVE  TypesOK'
    <3>1. Supply' \in Nat /\ holdings' \in [Mints -> Nat]
      BY <2>2 DEF V!Next
    <3> QED
      BY <2>0, <3>1
  <2>3. ASSUME V!Next, phase' # "unborn", Supply' > 0, NEW m \in Mints
        PROVE  Reserve(m)' > 0
    <3>1. /\ Supply \in Nat /\ Supply' \in Nat
          /\ Reserve(m) \in Nat /\ Reserve(m)' \in Nat
      BY <2>2, <2>3
    <3>2. phase # "unborn" /\ Supply > 0 => Reserve(m) > 0
      BY <2>0 DEF V!SharesAreFunded, V!Holds
    <3>3. CASE V!Prepare
      BY <2>3, <3>3 DEF V!Prepare
    <3>4. CASE V!Found
      BY <2>0, <3>4 DEF V!Found, V!Holds
    <3>5. CASE V!Pause \/ V!Unpause
      BY <2>0, <2>3, <3>2, <3>5 DEF V!Pause, V!Unpause
    <3>6. CASE V!Gift \/ V!Join
      BY <2>0, <2>3, <3>1, <3>2, <3>6 DEF V!Gift, V!Join, V!Grows
    <3>7. CASE V!Trade \/ V!Leave
      BY <2>0, <2>3, <3>1, <3>2, <3>7 DEF V!Trade, V!Leave, V!StaysFunded
    <3>8. CASE V!Redeem
      <4>1. Reserve(m) > 0 /\ Reserve(m)' * Supply >= Reserve(m) * Supply'
        BY <2>0, <3>2, <3>8 DEF V!Redeem
      <4> QED
        BY <2>3, <3>1, <4>1, RedeemLeavesSome
    <3> QED
      BY <2>3, <3>3, <3>4, <3>5, <3>6, <3>7, <3>8 DEF V!Next
  <2> QED
    BY <2>0, <2>1, <2>2, <2>3 DEF V!SharesAreFunded, V!Holds
<1>3. VaultInv => V!SharesAreFunded
  OBVIOUS
<1> QED
  BY <1>1, <1>2, <1>3, PTL DEF V!Spec

\* So an LP token of the program, under admin fees below 100% of their fee, is
\* always a share in something of both tokens.
THEOREM LPTokensStayFunded ==
    ASSUME \A f \in FeeChoices : FeesBelow100(f)
    PROVE  Spec => []V!SharesAreFunded
  BY PoolImplementsVault, VaultStaysFunded, PTL DEF ImplementsVault

(***************************************************************************)
(* Withdraw is the way out that always works: ExitAlwaysPossible of Pool   *)
(* as a theorem.                                                           *)
(*                                                                         *)
(* That a transfer out of a reserve succeeds depends on all the accounts   *)
(* of the mint: the amount it adds to must not leave u64.  The inductive   *)
(* invariant is that the tokens of each mint together fit a u64, and the   *)
(* LP tokens of all accounts the supply.  A sum over the accounts is a     *)
(* function on sets of accounts; each token call is shown to move it by    *)
(* what the call moves.                                                    *)
(***************************************************************************)

AccountsOfMint(m) == { a \in TokenAccounts : mint[a] = m }

\* The functions that add up the balances of the accounts in a subset of A.
\* (For a finite A there is exactly one.)
Totals(amount, A) ==
    { total \in [SUBSET A -> Nat] :
        /\ total[{}] = 0
        /\ \A S \in SUBSET A : \A a \in A \ S :
               total[S \cup {a}] = total[S] + amount[a] }

\* The accounts of mint m hold at most max tokens together.
Within(amount, m, max) ==
    \E total \in Totals(amount, AccountsOfMint(m)) : total[AccountsOfMint(m)] <= max

\* No more tokens than the mints have issued, and the reserves exist.
Backed(l) ==
    /\ \A m \in Mints : Within(l.amount, m, U64_MAX)
    /\ Within(l.amount, PoolMint, l.supply)
    /\ \A m \in Mints : reserves[m] \in l.open

\* The ledger between two calls of a handler.
Sound(l) == l \in AnyLedger /\ (l.ok => Backed(l))

(***************************************************************************)
(* Totals.                                                                 *)
(***************************************************************************)

\* One or two accounts hold no more than all of them.
LEMMA PartOfTotal ==
    ASSUME NEW amount \in [TokenAccounts -> Nat], NEW m, NEW max \in Nat,
           Within(amount, m, max),
           NEW a \in TokenAccounts, mint[a] = m
    PROVE  /\ amount[a] <= max
           /\ \A b \in TokenAccounts : mint[b] = m /\ b # a => amount[a] + amount[b] <= max
<1> DEFINE A == AccountsOfMint(m)
<1>1. PICK total \in Totals(amount, A) : total[A] <= max
  BY DEF Within
<1>2. /\ total \in [SUBSET A -> Nat]
      /\ \A S \in SUBSET A : \A c \in A \ S : total[S \cup {c}] = total[S] + amount[c]
  BY DEF Totals
<1>3. a \in A /\ A \subseteq TokenAccounts
  BY DEF AccountsOfMint
<1>4. ASSUME NEW b \in TokenAccounts, mint[b] = m
      PROVE  b \in A
  BY <1>4 DEF AccountsOfMint
<1> HIDE DEF A
<1> DEFINE rest == A \ {a}
<1>5. /\ rest \in SUBSET A /\ a \in A \ rest /\ rest \cup {a} = A
      /\ total[rest] \in Nat /\ amount[a] \in Nat /\ total[A] \in Nat
  BY <1>2, <1>3
<1>6. total[A] = total[rest] + amount[a]
  BY <1>2, <1>5
<1>7. ASSUME NEW b \in TokenAccounts, mint[b] = m, b # a
      PROVE  amount[a] + amount[b] <= max
  <2> DEFINE less == rest \ {b}
  <2>1. /\ less \in SUBSET A /\ b \in A \ less /\ less \cup {b} = rest
        /\ total[less] \in Nat /\ amount[b] \in Nat
    BY <1>2, <1>4, <1>7
  <2>2. total[rest] = total[less] + amount[b]
    BY <1>2, <2>1
  <2> HIDE DEF less, rest
  <2> QED
    BY <1>1, <1>5, <1>6, <2>1, <2>2
<1> HIDE DEF rest
<1> QED
  BY <1>1, <1>5, <1>6, <1>7

\* When one balance changes by k, the total over the accounts of its mint does.
LEMMA ChangeOfTotal ==
    ASSUME NEW amount \in [TokenAccounts -> Nat], NEW m, NEW max \in Nat,
           Within(amount, m, max),
           NEW s \in TokenAccounts, NEW k \in Int, amount[s] + k \in Nat,
           NEW g, g = [amount EXCEPT ![s] = @ + k]
    PROVE  /\ mint[s] = m => Within(g, m, max + k)
           /\ mint[s] # m => Within(g, m, max)
<1> DEFINE A == AccountsOfMint(m)
<1>1. PICK total \in Totals(amount, A) : total[A] <= max
  BY DEF Within
<1>2. /\ total \in [SUBSET A -> Nat] /\ total[{}] = 0
      /\ \A S \in SUBSET A : \A a \in A \ S : total[S \cup {a}] = total[S] + amount[a]
  BY DEF Totals
<1>3. A \subseteq TokenAccounts /\ (s \in A <=> mint[s] = m)
  BY DEF AccountsOfMint
<1> HIDE DEF A
<1> DEFINE other == [S \in SUBSET A |-> IF s \in S THEN total[S] + k ELSE total[S]]
<1>4. ASSUME NEW S \in SUBSET A
      PROVE  other[S] \in Nat
  <2>1. CASE s \in S
    <3>1. S \ {s} \in SUBSET A /\ s \in A \ (S \ {s}) /\ (S \ {s}) \cup {s} = S
      BY <2>1
    <3>2. total[S] = total[S \ {s}] + amount[s] /\ total[S \ {s}] \in Nat
      BY <1>2, <3>1
    <3>3. other[S] = total[S] + k
      BY <2>1
    <3> HIDE DEF other
    <3> QED
      BY <3>2, <3>3
  <2>2. CASE s \notin S
    BY <1>2, <2>2
  <2> QED
    BY <2>1, <2>2
<1>5. ASSUME NEW S \in SUBSET A, NEW a \in A \ S
      PROVE  other[S \cup {a}] = other[S] + g[a]
  <2>1. /\ total[S \cup {a}] = total[S] + amount[a] /\ total[S] \in Nat
        /\ amount[a] \in Nat /\ S \cup {a} \in SUBSET A
    BY <1>2, <1>3, <1>5
  <2>2. CASE a = s
    <3>1. g[a] = amount[a] + k
      BY <2>2
    <3>2. other[S \cup {a}] = total[S \cup {a}] + k /\ other[S] = total[S]
      BY <1>5, <2>1, <2>2
    <3> HIDE DEF other
    <3> QED
      BY <2>1, <3>1, <3>2
  <2>3. CASE a # s
    <3>1. g[a] = amount[a]
      BY <1>3, <1>5, <2>3
    <3>2. s \in S \cup {a} <=> s \in S
      BY <2>3
    <3>3. CASE s \in S
      <4>1. other[S \cup {a}] = total[S \cup {a}] + k /\ other[S] = total[S] + k
        BY <2>1, <3>2, <3>3
      <4> HIDE DEF other
      <4> QED
        BY <2>1, <3>1, <4>1
    <3>4. CASE s \notin S
      <4>1. other[S \cup {a}] = total[S \cup {a}] /\ other[S] = total[S]
        BY <2>1, <3>2, <3>4
      <4> HIDE DEF other
      <4> QED
        BY <2>1, <3>1, <4>1
    <3> QED
      BY <3>3, <3>4
  <2> QED
    BY <2>2, <2>3
<1>6. other[{}] = 0
  BY <1>2
<1>7. other \in Totals(g, A)
  <2>1. other \in [SUBSET A -> Nat]
    BY <1>4
  <2> HIDE DEF other
  <2> QED
    BY <1>5, <1>6, <2>1 DEF Totals
<1>8. other[A] = IF mint[s] = m THEN total[A] + k ELSE total[A]
  BY <1>3
<1>9. total[A] \in Nat
  BY <1>2
<1> HIDE DEF other
<1>10. /\ mint[s] = m => other[A] <= max + k
       /\ mint[s] # m => other[A] <= max
  BY <1>1, <1>8, <1>9
<1> QED
  BY <1>7, <1>10 DEF Within, A

(***************************************************************************)
(* Token calls.                                                            *)
(***************************************************************************)
LEMMA BalancesAreNumbers ==
    ASSUME NEW l \in AnyLedger
    PROVE  /\ l.amount \in [TokenAccounts -> Nat] /\ l.supply \in Nat
           /\ U64_MAX \in Nat /\ l.supply <= U64_MAX
           /\ \A a \in TokenAccounts : l.amount[a] <= U64_MAX
  BY WidthAssumption DEF AnyLedger, U64

\* A transfer within a mint keeps the totals of all mints.
LEMMA MoveKeepsTotals ==
    ASSUME NEW amount \in [TokenAccounts -> Nat],
           NEW source \in TokenAccounts, NEW destination \in TokenAccounts,
           source # destination, mint[source] = mint[destination],
           NEW n \in Nat, n <= amount[source],
           NEW g, g = [amount EXCEPT ![source] = @ - n, ![destination] = @ + n],
           NEW m, NEW max \in Nat, Within(amount, m, max)
    PROVE  Within(g, m, max)
<1> DEFINE h == [amount EXCEPT ![source] = @ + (-n)]
<1>1. /\ -n \in Int /\ amount[source] + (-n) \in Nat /\ amount[source] + (-n) <= amount[source]
  OBVIOUS
<1>2. h \in [TokenAccounts -> Nat] /\ h[destination] = amount[destination]
  BY <1>1
<1>3. g = [h EXCEPT ![destination] = @ + n]
  BY <1>2
<1>4. /\ mint[source] = m => Within(h, m, max + (-n))
      /\ mint[source] # m => Within(h, m, max)
  BY <1>1, ChangeOfTotal
<1> HIDE DEF h
<1>5. h[destination] + n \in Nat
  BY <1>2
<1>6. CASE mint[source] = m
  <2> DEFINE less == max + (-n)
  <2>1. Within(h, m, less) /\ mint[destination] = m /\ n \in Int
    BY <1>4, <1>6
  <2>2. less \in Nat
    \* the total of the mint is at least what the source has
    <3>1. amount[source] <= max
      BY <1>6, PartOfTotal
    <3> QED
      BY <3>1
  <2>3. less + n = max
    OBVIOUS
  <2> HIDE DEF less
  <2>4. Within(g, m, less + n)
    BY <1>2, <1>3, <1>5, <2>1, <2>2, ChangeOfTotal
  <2> QED
    BY <2>3, <2>4
<1>7. CASE mint[source] # m
  <2>1. Within(h, m, max) /\ mint[destination] # m /\ n \in Int
    BY <1>4, <1>7
  <2> QED
    BY <1>2, <1>3, <1>5, <2>1, ChangeOfTotal
<1> QED
  BY <1>6, <1>7

LEMMA TransferSound ==
    ASSUME NEW l, Sound(l), NEW signer,
           NEW source \in TokenAccounts, NEW destination \in TokenAccounts, NEW n \in Nat,
           NEW r, r = Transfer(l, signer, source, destination, n)
    PROVE  Sound(r) /\ (r.ok => l.ok /\ r.open = l.open)
<1>1. l \in AnyLedger /\ r \in AnyLedger /\ Pays(l, r, source, n)
  BY TransferEffect DEF Sound
<1>2. ASSUME r.ok
      PROVE  l.ok /\ r.open = l.open /\ Backed(r)
  <2>1. r # Failed(l)
    BY <1>1, <1>2 DEF Failed, AnyLedger
  <2>2. /\ l.ok /\ mint[source] = mint[destination] /\ n <= l.amount[source]
        /\ r = IF source = destination THEN l
               ELSE [l EXCEPT !.amount[source] = @ - n, !.amount[destination] = @ + n]
    BY <2>1 DEF Transfer
  <2>3. Backed(l)
    BY <2>2 DEF Sound
  <2>4. CASE source = destination
    BY <2>2, <2>3, <2>4
  <2>5. CASE source # destination
    <3> DEFINE g == [l.amount EXCEPT ![source] = @ - n, ![destination] = @ + n]
    <3>1. r.amount = g /\ r.supply = l.supply /\ r.open = l.open
      BY <1>1, <2>2, <2>5 DEF AnyLedger
    <3>2. l.amount \in [TokenAccounts -> Nat] /\ l.supply \in Nat /\ U64_MAX \in Nat
      BY <1>1, BalancesAreNumbers
    <3> HIDE DEF g
    <3>3. ASSUME NEW m, NEW max \in Nat, Within(l.amount, m, max)
          PROVE  Within(r.amount, m, max)
      BY <2>2, <2>5, <3>1, <3>2, <3>3, MoveKeepsTotals DEF g
    <3> QED
      BY <2>2, <2>3, <3>1, <3>2, <3>3 DEF Backed
  <2> QED
    BY <2>4, <2>5
<1> QED
  BY <1>1, <1>2 DEF Sound

LEMMA MintSound ==
    ASSUME NEW l, Sound(l), NEW destination \in TokenAccounts, NEW n \in Nat,
           NEW r, r = mint_to(l, destination, n), r.ok
    PROVE  Sound(r)
<1>1. l \in AnyLedger /\ r \in AnyLedger /\ l.ok
  BY MintEffect DEF Sound
<1>2. Backed(l)
  BY <1>1 DEF Sound
<1>3. /\ mint[destination] = PoolMint
      /\ r = [l EXCEPT !.amount[destination] = @ + n, !.supply = @ + n]
  BY <1>1 DEF mint_to, Failed, AnyLedger
<1> DEFINE g == [l.amount EXCEPT ![destination] = @ + n]
<1>4. r.amount = g /\ r.supply = l.supply + n /\ r.open = l.open
  BY <1>1, <1>3 DEF AnyLedger
<1>5. /\ l.amount \in [TokenAccounts -> Nat] /\ l.supply \in Nat /\ U64_MAX \in Nat
      /\ n \in Int /\ l.amount[destination] + n \in Nat
  BY <1>1, BalancesAreNumbers
<1> HIDE DEF g
<1>6. ASSUME NEW m, NEW max \in Nat, Within(l.amount, m, max)
      PROVE  /\ m = PoolMint => Within(r.amount, m, max + n)
             /\ m # PoolMint => Within(r.amount, m, max)
  BY <1>3, <1>4, <1>5, <1>6, ChangeOfTotal DEF g
<1>7. \A m \in Mints : m # PoolMint
  BY PoolAssumption
<1>8. Backed(r)
  BY <1>2, <1>4, <1>5, <1>6, <1>7 DEF Backed
<1> QED
  BY <1>1, <1>8 DEF Sound

LEMMA BurnSound ==
    ASSUME NEW l, Sound(l), NEW user, NEW account \in TokenAccounts, NEW n \in Nat,
           NEW r, r = burn(l, user, account, n), r.ok
    PROVE  Sound(r)
<1>1. l \in AnyLedger /\ r \in AnyLedger /\ l.ok
  <2>1. l \in AnyLedger
    BY DEF Sound
  <2>2. Burns(l, r, account, n)
    BY <2>1, BurnEffect
  <2> QED
    BY <2>1, <2>2 DEF Burns
<1>2. Backed(l)
  BY <1>1 DEF Sound
<1>3. /\ mint[account] = PoolMint /\ n <= l.amount[account] /\ n <= l.supply
      /\ r = [l EXCEPT !.amount[account] = @ - n, !.supply = @ - n]
  BY <1>1 DEF burn, Failed, AnyLedger
<1> DEFINE g == [l.amount EXCEPT ![account] = @ + (-n)]
<1>4. r.amount = g /\ r.supply = l.supply + (-n) /\ r.open = l.open
  BY <1>1, <1>3, BalancesAreNumbers DEF AnyLedger
<1>5. /\ l.amount \in [TokenAccounts -> Nat] /\ l.supply \in Nat /\ U64_MAX \in Nat
      /\ -n \in Int /\ l.amount[account] + (-n) \in Nat
  BY <1>1, <1>3, BalancesAreNumbers
<1> HIDE DEF g
<1>6. ASSUME NEW m, NEW max \in Nat, Within(l.amount, m, max)
      PROVE  /\ m = PoolMint => Within(r.amount, m, max + (-n))
             /\ m # PoolMint => Within(r.amount, m, max)
  BY <1>3, <1>4, <1>5, <1>6, ChangeOfTotal DEF g
<1>7. \A m \in Mints : m # PoolMint
  BY PoolAssumption
<1>8. Backed(r)
  BY <1>2, <1>4, <1>5, <1>6, <1>7 DEF Backed
<1> QED
  BY <1>1, <1>8 DEF Sound

(***************************************************************************)
(* The handlers.                                                           *)
(***************************************************************************)
ExitInv ==
    /\ Backed(ledger)
    /\ is_initialized => \A m \in Mints : mint[admin_fees[m]] = m

LEMMA SoundLedger ==
    ASSUME PoolInv, ExitInv
    PROVE  /\ Sound(ledger) /\ ledger \in AnyLedger /\ ledger.ok = TRUE
           /\ ~Failed(ledger).ok
           /\ \A m \in Mints : reserves[m] \in TokenAccounts
  BY PoolAssumption DEF PoolInv, ExitInv, Ledgers, AnyLedger, Sound, Failed

LEMMA SwapSound ==
    ASSUME PoolInv, ExitInv, admin_fees \in [Mints -> TokenAccounts],
           NEW user, NEW from \in Mints, NEW source \in TokenAccounts,
           NEW destination \in TokenAccounts, NEW n \in Nat, NEW min,
           NEW r, r = process_swap(user, from, source, destination, n, min), r.ok
    PROVE  Sound(r)
<1> DEFINE to == Other(from)
           result == swap_to(amp_factor, n, Reserve(from), Reserve(to), fees)
           l1 == transfer_as_user(ledger, user, source, reserves[from], n)
           l2 == transfer_as_swap(l1, reserves[to], destination, result.amount_swapped)
           l3 == transfer_as_swap(l2, reserves[to], admin_fees[to], result.admin_fee)
<1>1. result.ok /\ r = l3
  <2>1. ~Failed(ledger).ok
    BY SoundLedger
  <2> HIDE DEF l3, result
  <2> QED
    BY <2>1 DEF process_swap, l3, result
<1>2. to \in Mints
  BY DEF Other, Mints
<1>3. /\ reserves[to] \in TokenAccounts /\ reserves[from] \in TokenAccounts
      /\ admin_fees[to] \in TokenAccounts
  BY <1>2, SoundLedger
<1>4. result.amount_swapped \in Nat /\ result.admin_fee \in Nat
  BY <1>1, SwapLeavesOne
<1> HIDE DEF result, to
<1>5. Sound(l1)
  BY <1>3, SoundLedger, TransferSound DEF transfer_as_user
<1> HIDE DEF l1
<1>6. Sound(l2)
  BY <1>3, <1>4, <1>5, TransferSound DEF transfer_as_swap
<1> HIDE DEF l2
<1> QED
  BY <1>1, <1>3, <1>4, <1>6, TransferSound DEF transfer_as_swap

LEMMA DepositSound ==
    ASSUME PoolInv, ExitInv,
           NEW user, NEW sources \in [Mints -> TokenAccounts],
           NEW destination \in TokenAccounts, NEW amounts \in [Mints -> Nat], NEW min,
           NEW r, r = process_deposit(user, sources, destination, amounts, min), r.ok
    PROVE  Sound(r)
<1> DEFINE deposit == <<amounts[TokenA], amounts[TokenB]>>
           old     == <<Reserve(TokenA), Reserve(TokenB)>>
           mint_amount ==
               compute_mint_amount_for_deposit(amp_factor, deposit, old, ledger.supply, fees)
           l1 == transfer_as_user(ledger, user, sources[TokenA], reserves[TokenA], deposit[1])
           l2 == transfer_as_user(l1, user, sources[TokenB], reserves[TokenB], deposit[2])
           l3 == mint_to(l2, destination, mint_amount)
<1>1. mint_amount # None /\ r = l3
  <2>1. ~Failed(ledger).ok
    BY SoundLedger
  <2> HIDE DEF l3, mint_amount
  <2> QED
    BY <2>1 DEF process_deposit, l3, mint_amount
<1>2. /\ sources[TokenA] \in TokenAccounts /\ sources[TokenB] \in TokenAccounts
      /\ reserves[TokenA] \in TokenAccounts /\ reserves[TokenB] \in TokenAccounts
      /\ deposit[1] \in Nat /\ deposit[2] \in Nat
  BY PoolAssumption DEF Mints
<1>3. mint_amount \in Nat
  <2>1. mint_amount \in Option
    BY ToU64Bounds, Zenon DEF compute_mint_amount_for_deposit, MintedForGrowth, Option
  <2> HIDE DEF mint_amount
  <2> QED
    BY <1>1, <2>1 DEF Option
<1> HIDE DEF mint_amount, deposit
<1>4. Sound(l1)
  BY <1>2, SoundLedger, TransferSound DEF transfer_as_user
<1> HIDE DEF l1
<1>5. Sound(l2)
  BY <1>2, <1>4, TransferSound DEF transfer_as_user
<1> HIDE DEF l2
<1> QED
  BY <1>1, <1>3, <1>5, MintSound

\* The two transfers that pay out of a reserve.
LEMMA PayoutSound ==
    ASSUME NEW l, Sound(l), admin_fees \in [Mints -> TokenAccounts],
           NEW m \in Mints, NEW rate, rate.amount \in Nat, rate.admin_fee \in Nat,
           NEW destination \in TokenAccounts,
           NEW r, r = handle_token_withdraw(l, m, rate, destination)
    PROVE  Sound(r)
<1> DEFINE k == transfer_as_swap(l, reserves[m], destination, rate.amount)
<1>1. reserves[m] \in TokenAccounts /\ admin_fees[m] \in TokenAccounts
  BY PoolAssumption
<1>2. Sound(k)
  BY <1>1, TransferSound DEF transfer_as_swap
<1>3. r = transfer_as_swap(k, reserves[m], admin_fees[m], rate.admin_fee)
  BY DEF handle_token_withdraw
<1> HIDE DEF k
<1> QED
  BY <1>1, <1>2, <1>3, TransferSound DEF transfer_as_swap

LEMMA WithdrawSound ==
    ASSUME PoolInv, ExitInv, admin_fees \in [Mints -> TokenAccounts],
           NEW user, NEW source \in TokenAccounts,
           NEW destinations \in [Mints -> TokenAccounts], NEW n \in Nat, NEW minimums,
           NEW r, r = process_withdraw(user, source, destinations, n, minimums), r.ok
    PROVE  Sound(r)
<1> DEFINE rate == [m \in Mints |-> token_rate(n, ledger.supply, Reserve(m), fees)]
           l1 == handle_token_withdraw(ledger, TokenA, rate[TokenA], destinations[TokenA])
           l2 == handle_token_withdraw(l1, TokenB, rate[TokenB], destinations[TokenB])
           l3 == burn(l2, user, source, n)
<1>1. (\A m \in Mints : rate[m].ok) /\ r = l3
  <2>1. ~Failed(ledger).ok
    BY SoundLedger
  <2>2. r = IF \/ ~is_initialized
               \/ ledger.supply = 0
               \/ \E m \in Mints : ~rate[m].ok \/ rate[m].amount < minimums[m]
            THEN Failed(ledger)
            ELSE l3
    BY Zenon DEF process_withdraw
  <2> HIDE DEF l3, rate
  <2> QED
    BY <2>1, <2>2
<1>2. ASSUME NEW m \in Mints
      PROVE  rate[m].amount \in Nat /\ rate[m].admin_fee \in Nat
  <2>1. rate[m] = token_rate(n, ledger.supply, Reserve(m), fees) /\ rate[m].ok
    BY <1>1
  <2> HIDE DEF rate
  <2> QED
    BY <2>1, ShareRoundsDown
<1>3. TokenA \in Mints /\ TokenB \in Mints
  BY DEF Mints
<1> HIDE DEF rate
<1>4. Sound(l1)
  BY <1>2, <1>3, SoundLedger, PayoutSound
<1> HIDE DEF l1
<1>5. Sound(l2)
  BY <1>2, <1>3, <1>4, PayoutSound
<1> HIDE DEF l2
<1> QED
  BY <1>1, <1>5, BurnSound

LEMMA WithdrawOneSound ==
    ASSUME PoolInv, ExitInv, admin_fees \in [Mints -> TokenAccounts],
           NEW user, NEW base \in Mints, NEW source \in TokenAccounts,
           NEW destination \in TokenAccounts, NEW n \in Nat, NEW min,
           NEW r, r = process_withdraw_one(user, base, source, destination, n, min), r.ok
    PROVE  Sound(r)
<1> DEFINE result == compute_withdraw_one(amp_factor, n, ledger.supply,
                                          Reserve(base), Reserve(Other(base)), fees)
           rate == WithdrawOneRate(result)
           l1 == handle_token_withdraw(ledger, base, rate, destination)
           l2 == burn(l1, user, source, n)
<1>1. rate.ok /\ r = l2
  <2>1. ~Failed(ledger).ok
    BY SoundLedger
  <2>2. r = IF ~Tradable \/ ~rate.ok \/ rate.amount < min THEN Failed(ledger) ELSE l2
    BY Zenon DEF process_withdraw_one
  <2> HIDE DEF l2, rate
  <2> QED
    BY <2>1, <2>2
<1>2. rate.amount \in Nat /\ rate.admin_fee \in Nat
  <2> DEFINE fee    == withdraw_fee(fees, result.dy)
             payout == CheckedSub(result.dy, fee)
             adm    == Add64(admin_trade_fee(fees, result.fee), admin_withdraw_fee(fees, fee))
             fine   == result.ok /\ payout # None /\ adm # None
  <2>1. rate.amount = payout /\ rate.admin_fee = adm /\ fine
    <3>1. rate = [amount |-> payout, fee |-> fee, admin_fee |-> adm, ok |-> fine]
      BY Zenon DEF WithdrawOneRate
    <3> HIDE DEF rate, payout, fee, adm, fine
    <3> QED
      BY <1>1, <3>1
  <2> HIDE DEF rate, result, fee
  <2> QED
    BY <2>1, CheckedSubBounds, CheckedAddBounds DEF Add64, Option
<1> HIDE DEF rate
<1>3. Sound(l1)
  BY <1>2, SoundLedger, PayoutSound
<1> HIDE DEF l1
<1> QED
  BY <1>1, <1>3, BurnSound

LEMMA InitializeSound ==
    ASSUME PoolInv, ExitInv, NEW amp, NEW destination \in TokenAccounts,
           NEW r, r = process_initialize(amp, destination), r.ok
    PROVE  Sound(r)
<1> DEFINE mint_amount == ToU64(compute_d(amp, Reserve(TokenA), Reserve(TokenB)))
           minted == mint_to(ledger, destination, mint_amount)
<1>1. mint_amount # None /\ r = minted
  <2>1. ~Failed(ledger).ok
    BY SoundLedger
  <2> HIDE DEF minted, mint_amount
  <2> QED
    BY <2>1 DEF process_initialize, minted, mint_amount
<1>2. mint_amount \in Nat
  BY <1>1, ToU64Bounds DEF Option
<1> HIDE DEF mint_amount
<1> QED
  BY <1>1, <1>2, SoundLedger, MintSound

(***************************************************************************)
(* The induction.                                                          *)
(***************************************************************************)
LEMMA SoundCommit ==
    ASSUME NEW r, Sound(r), Commit(r)
    PROVE  Backed(ledger')
  BY DEF Sound, Commit

LEMMA UserKeepsBacked ==
    ASSUME IInv, PoolInv, ExitInv, NEW user, UserInstruction(user)
    PROVE  Backed(ledger')
<1> DEFINE Mine(m) == AccountsOf(user, m)
<1>1. /\ admin_fees \in [Mints -> TokenAccounts]
      /\ \A m : Mine(m) \subseteq TokenAccounts /\ DestinationsOf(m) \subseteq TokenAccounts
      /\ Amounts \subseteq Nat
  BY PoolAssumption, WidthAssumption
     DEF IInv, TypeOK, AccountsOf, DestinationsOf, U64
<1>2. ASSUME NEW from \in Mints, NEW n \in Amounts, NEW min \in Minimums,
             NEW source \in Mine(from), NEW to \in DestinationsOf(Other(from)),
             Swap(user, from, source, to, n, min)
      PROVE  Backed(ledger')
  <2> DEFINE r == process_swap(user, from, source, to, n, min)
  <2>1. r.ok /\ Commit(r)
    BY <1>2 DEF Swap, Commit
  <2>2. Sound(r)
    BY <1>1, <2>1, SwapSound
  <2> HIDE DEF r
  <2> QED
    BY <2>1, <2>2, SoundCommit
<1>3. ASSUME NEW sources \in PairOf(Mine), NEW to \in DestinationsOf(PoolMint),
             NEW ns \in [Mints -> Amounts \cup {0}], NEW min \in Minimums,
             Deposit(user, sources, to, ns, min)
      PROVE  Backed(ledger')
  <2> DEFINE r == process_deposit(user, sources, to, ns, min)
  <2>1. r.ok /\ Commit(r)
    BY <1>3 DEF Deposit, Commit
  <2>2. sources \in [Mints -> TokenAccounts]
    BY <1>1 DEF PairOf
  <2>3. ns \in [Mints -> Nat]
    BY <1>1
  <2>4. Sound(r)
    BY <1>1, <2>1, <2>2, <2>3, DepositSound
  <2> HIDE DEF r
  <2> QED
    BY <2>1, <2>4, SoundCommit
<1>4. ASSUME NEW source \in Mine(PoolMint), NEW tos \in PairOf(DestinationsOf),
             NEW n \in Amounts, NEW minimums,
             Withdraw(user, source, tos, n, minimums)
      PROVE  Backed(ledger')
  <2> DEFINE r == process_withdraw(user, source, tos, n, minimums)
  <2>1. r.ok /\ Commit(r)
    BY <1>4 DEF Withdraw, Commit
  <2>2. tos \in [Mints -> TokenAccounts] /\ n \in Nat /\ source \in TokenAccounts
    BY <1>1 DEF PairOf
  <2>3. Sound(r)
    BY <1>1, <2>1, <2>2, WithdrawSound
  <2> HIDE DEF r
  <2> QED
    BY <2>1, <2>3, SoundCommit
<1>5. ASSUME NEW base \in Mints, NEW source \in Mine(PoolMint), NEW n \in Amounts,
             NEW min \in Minimums, NEW to \in DestinationsOf(base),
             WithdrawOne(user, base, source, to, n, min)
      PROVE  Backed(ledger')
  <2> DEFINE r == process_withdraw_one(user, base, source, to, n, min)
  <2>1. r.ok /\ Commit(r)
    BY <1>5 DEF WithdrawOne, Commit
  <2>2. Sound(r)
    BY <1>1, <2>1, WithdrawOneSound
  <2> HIDE DEF r
  <2> QED
    BY <2>1, <2>2, SoundCommit
<1> QED
  BY <1>2, <1>3, <1>4, <1>5 DEF UserInstruction

LEMMA EnvironmentKeepsBacked ==
    ASSUME PoolInv, ExitInv, Environment
    PROVE  Backed(ledger')
<1>1. CASE UNCHANGED ledger
  BY <1>1 DEF ExitInv
<1>2. ASSUME NEW m \in Mints, NEW n \in Donations, NEW user \in Users,
             NEW source \in AccountsOf(user, m), Donate(user, source, m, n)
      PROVE  Backed(ledger')
  <2> DEFINE r == transfer_as_user(ledger, user, source, reserves[m], n)
  <2>1. Commit(r)
    BY <1>2 DEF Donate
  <2>2. n \in Nat /\ source \in TokenAccounts /\ reserves[m] \in TokenAccounts
    BY PoolAssumption, WidthAssumption DEF AccountsOf, U64
  <2>3. Sound(r)
    BY <2>2, SoundLedger, TransferSound DEF transfer_as_user
  <2> HIDE DEF r
  <2> QED
    BY <2>1, <2>3, SoundCommit
<1>3. ASSUME NEW account \in Closable, CloseAccount(account) \/ OpenAccount(account)
      PROVE  Backed(ledger')
  <2>1. \A m \in Mints : account # reserves[m] /\ reserves[m] \in ledger.open
    BY PoolAssumption DEF ExitInv, Backed, Mints
  <2>2. PICK o \in {ledger.open \ {account}, ledger.open \cup {account}} :
            ledger' = [ledger EXCEPT !.open = o]
    BY <1>3 DEF CloseAccount, OpenAccount
  <2>3. /\ ledger'.amount = ledger.amount /\ ledger'.supply = ledger.supply
        /\ \A m \in Mints : reserves[m] \in ledger'.open
    BY <2>1, <2>2, SoundLedger DEF AnyLedger
  <2> QED
    BY <2>3 DEF ExitInv, Backed
<1>4. ASSUME NEW n \in Donations, NEW user \in Users,
             NEW source \in AccountsOf(user, PoolMint), Forfeit(user, source, n)
      PROVE  Backed(ledger')
  <2> DEFINE r == burn(ledger, user, source, n)
  <2>1. Commit(r) /\ r.ok
    BY <1>4 DEF Forfeit, Commit
  <2>2. n \in Nat /\ source \in TokenAccounts
    BY PoolAssumption, WidthAssumption DEF AccountsOf, U64
  <2>3. Sound(r)
    BY <2>1, <2>2, SoundLedger, BurnSound
  <2> HIDE DEF r
  <2> QED
    BY <2>1, <2>3, SoundCommit
<1> QED
  BY <1>1, <1>2, <1>3, <1>4 DEF Environment

LEMMA ExitStep ==
    ASSUME IInv, PoolInv, ExitInv, [Next]_poolVars
    PROVE  ExitInv'
<1>1. ASSUME NEW amp \in TargetAmps, NEW key \in Keys, NEW f \in FeeChoices,
             NEW accounts \in PairOf(FeeAccountsOf), NEW to \in DestinationsOf(PoolMint),
             Initialize(amp, key, f, accounts, to)
      PROVE  ExitInv'
  <2> DEFINE r == process_initialize(amp, to)
  <2>1. Commit(r) /\ r.ok /\ to \in TokenAccounts
    BY <1>1, PoolAssumption DEF Initialize, Commit, DestinationsOf
  <2>2. Sound(r)
    BY <2>1, InitializeSound
  <2>3. \A m \in Mints : mint[admin_fees'[m]] = m
    BY <1>1 DEF Initialize, InitializeSwapInfo
  <2> HIDE DEF r
  <2> QED
    BY <2>1, <2>2, <2>3, SoundCommit DEF ExitInv
<1>2. ASSUME NEW user \in Users, UserInstruction(user)
      PROVE  ExitInv'
  <2>1. UNCHANGED <<is_initialized, admin_fees>>
    BY <1>2 DEF UserInstruction, Swap, Deposit, Withdraw, WithdrawOne,
                adminVars, swapInfoVars, feeVars
  <2> QED
    BY <1>2, <2>1, UserKeepsBacked DEF ExitInv
<1>3. CASE Administer
  <2>1. UNCHANGED <<ledger, is_initialized>>
    BY <1>3
       DEF Administer, AdminInstruction, RampA, StopRampA, Pause, Unpause, SetPaused,
           SetFeeAccount, ApplyNewAdmin, CommitNewAdmin, SetNewFees
  <2>2. admin_fees \in [Mints -> TokenAccounts]
    BY DEF IInv, TypeOK
  <2>3. \/ UNCHANGED admin_fees
        \/ \E account \in FeeAccounts : SetFeeAccount(account)
    BY <1>3
       DEF Administer, AdminInstruction, RampA, StopRampA, Pause, Unpause, SetPaused,
           ApplyNewAdmin, CommitNewAdmin, SetNewFees, feeVars
  <2>4. ASSUME NEW account \in FeeAccounts, SetFeeAccount(account), is_initialized,
               NEW m \in Mints
        PROVE  mint[admin_fees'[m]] = m
    BY <2>2, <2>4 DEF SetFeeAccount, ExitInv
  <2> QED
    BY <2>1, <2>3, <2>4 DEF ExitInv
<1>4. CASE Environment
  <2>1. UNCHANGED <<is_initialized, admin_fees>>
    BY <1>4 DEF Environment, Tick, Donate, Forfeit, CloseAccount, OpenAccount,
                adminVars, swapInfoVars, feeVars
  <2> QED
    BY <1>4, <2>1, EnvironmentKeepsBacked DEF ExitInv
<1>5. CASE UNCHANGED poolVars
  BY <1>5 DEF poolVars, adminVars, swapInfoVars, feeVars, ExitInv
<1> QED
  BY <1>1, <1>2, <1>3, <1>4, <1>5 DEF Next

(***************************************************************************)
(* When calls succeed.                                                     *)
(***************************************************************************)
LEMMA TransferSucceeds ==
    ASSUME NEW l, Sound(l), l.ok,
           NEW source \in l.open, NEW destination \in l.open,
           mint[source] \in Mints, mint[destination] = mint[source],
           NEW n \in Nat, n <= l.amount[source],
           NEW r, r = Transfer(l, owner[source], source, destination, n)
    PROVE  r.ok
<1>1. /\ l \in AnyLedger /\ Backed(l)
      /\ source \in TokenAccounts /\ destination \in TokenAccounts
  BY DEF Sound, AnyLedger
<1>2. l.amount \in [TokenAccounts -> Nat] /\ U64_MAX \in Nat
  BY <1>1, BalancesAreNumbers
<1>3. source # destination => l.amount[destination] + n \in U64
  <2>1. SUFFICES ASSUME source # destination
                 PROVE  l.amount[destination] + n \in U64
    OBVIOUS
  <2>2. Within(l.amount, mint[source], U64_MAX)
    BY <1>1 DEF Backed
  <2>3. l.amount[source] + l.amount[destination] <= U64_MAX
    BY <1>1, <1>2, <2>1, <2>2, PartOfTotal
  <2>4. l.amount[source] \in Nat /\ l.amount[destination] \in Nat
    BY <1>1, <1>2
  <2> QED
    BY <1>2, <2>3, <2>4 DEF U64
<1>4. r = IF source = destination THEN l
          ELSE [l EXCEPT !.amount[source] = @ - n, !.amount[destination] = @ + n]
  BY <1>3 DEF Transfer
<1> QED
  BY <1>1, <1>4 DEF AnyLedger

\* A payout of at most what the reserve has goes through: the accounts exist and
\* have the right mint, and all tokens of the mint fit a u64.
LEMMA PayoutSucceeds ==
    ASSUME NEW l, Sound(l), l.ok, NEW m \in Mints,
           mint[reserves[m]] = m, owner[reserves[m]] = Authority,
           admin_fees \in [Mints -> TokenAccounts],
           admin_fees[m] \in l.open, mint[admin_fees[m]] = m,
           NEW destination \in l.open, mint[destination] = m,
           NEW rate, rate.amount \in Nat, rate.admin_fee \in Nat,
           rate.amount + rate.admin_fee <= l.amount[reserves[m]],
           NEW r, r = handle_token_withdraw(l, m, rate, destination)
    PROVE  /\ Sound(r) /\ r.ok /\ r.open = l.open /\ r.supply = l.supply
           /\ \A a \in TokenAccounts : a # reserves[m] => r.amount[a] >= l.amount[a]
<1> DEFINE k == transfer_as_swap(l, reserves[m], destination, rate.amount)
<1>1. /\ l \in AnyLedger /\ reserves[m] \in l.open
      /\ l.open \subseteq TokenAccounts
      /\ reserves[m] \in TokenAccounts /\ admin_fees[m] \in TokenAccounts
      /\ destination \in TokenAccounts
  BY PoolAssumption DEF Sound, Backed, AnyLedger
<1>2. l.amount[reserves[m]] \in Nat
  BY <1>1, BalancesAreNumbers
<1>3. Sound(k) /\ k.ok /\ k.open = l.open
  <2>1. k = Transfer(l, owner[reserves[m]], reserves[m], destination, rate.amount)
    BY DEF transfer_as_swap
  <2> HIDE DEF k
  <2>2. rate.amount <= l.amount[reserves[m]]
    BY <1>2
  <2>3. k.ok
    BY <1>1, <2>1, <2>2, TransferSucceeds
  <2> QED
    BY <1>1, <2>1, <2>3, TransferSound
<1>4. Pays(l, k, reserves[m], rate.amount)
  BY <1>1, TransferEffect DEF transfer_as_swap
<1>5. r = Transfer(k, owner[reserves[m]], reserves[m], admin_fees[m], rate.admin_fee)
  BY DEF handle_token_withdraw, transfer_as_swap
<1> HIDE DEF k
<1>6. k \in AnyLedger /\ \A a \in TokenAccounts : k.amount[a] \in Nat /\ l.amount[a] \in Nat
  BY <1>1, <1>3, BalancesAreNumbers DEF Sound
<1>7. rate.admin_fee <= k.amount[reserves[m]]
  BY <1>1, <1>2, <1>3, <1>4, <1>6 DEF Pays
<1>8. r.ok
  BY <1>1, <1>3, <1>5, <1>7, TransferSucceeds
<1>9. Sound(r) /\ r.open = l.open
  BY <1>1, <1>3, <1>5, <1>8, TransferSound
<1>10. Pays(k, r, reserves[m], rate.admin_fee)
  BY <1>1, <1>5, <1>6, TransferEffect
<1>11. \A a \in TokenAccounts : r.amount[a] \in Nat
  BY <1>9, BalancesAreNumbers DEF Sound
<1> QED
  BY <1>3, <1>4, <1>6, <1>8, <1>9, <1>10, <1>11 DEF Pays

\* A fee that is a fraction can be computed, except at the corner where both
\* operands are the largest that mul_div_imbalanced multiplies as u64s.
LEMMA FeeExists ==
    ASSUME NEW a \in U64, NEW b \in U64, NEW c \in U64, Fraction(b, c), b # MAX_SMALL
    PROVE  /\ mul_div_imbalanced(a, b, c) \in U64
           /\ mul_div_imbalanced(a, b, c) <= a
<1>1. a \in Nat /\ b \in Nat /\ c \in Nat \ {0} /\ b <= c /\ U64_MAX \in Nat
  BY WidthAssumption DEF U64, Fraction
<1> DEFINE q == (a * b) \div c
<1>2. q \in Nat /\ q <= a
  BY <1>1, FractionOfAmount
<1>3. mul_div_imbalanced(a, b, c) = ToU64(q)
  BY <1>1, MulDivExact
<1> HIDE DEF q
<1>4. q \in U64
  BY <1>1, <1>2 DEF U64
<1> QED
  BY <1>2, <1>3, <1>4 DEF ToU64

\* Every share of a reserve can be computed and is at most the reserve.
LEMMA ShareExists ==
    ASSUME NEW supply \in U64, NEW n \in 1 .. supply, NEW reserve \in U64,
           fees \in Fees, WithdrawFeesAreFractions,
           fees.withdraw_fee_numerator # MAX_SMALL,
           fees.admin_withdraw_fee_numerator # MAX_SMALL,
           NEW rate, rate = token_rate(n, supply, reserve, fees)
    PROVE  /\ rate.ok /\ rate.amount \in Nat /\ rate.admin_fee \in Nat
           /\ rate.amount + rate.admin_fee <= reserve
<1> DEFINE p      == n * reserve
           q      == p \div supply
           fee    == withdraw_fee(fees, q)
           adm    == admin_withdraw_fee(fees, fee)
           payout == CheckedSub(q, fee)
<1>1. n \in U64 /\ n \in Nat /\ supply \in Nat \ {0} /\ reserve \in Nat /\ n <= supply
  BY WidthAssumption DEF U64
<1>2. p \in Nat /\ CheckedMul(n, reserve, U128_MAX) = p
  BY <1>1, ProductFitsU128, CheckedMulExact, WidthAssumption
<1>3. q \in Nat /\ q <= reserve
  <2>1. (reserve * n) \div supply \in Nat /\ (reserve * n) \div supply <= reserve
    BY <1>1, FractionOfAmount
  <2>2. reserve * n = n * reserve
    BY <1>1
  <2> QED
    BY <2>1, <2>2
<1>4. q \in U64
  BY <1>3, WidthAssumption DEF U64
<1>5. ToU64(CheckedDiv(p, supply)) = q
  <2> HIDE DEF p
  <2> QED
    BY <1>1, <1>2, <1>4 DEF CheckedDiv, ToU64
<1>6. fee \in U64 /\ fee <= q
  <2> HIDE DEF q
  <2> QED
    BY <1>4, FeeExists DEF WithdrawFeesAreFractions, Fees, withdraw_fee
<1>7. adm \in U64 /\ adm <= fee
  <2> HIDE DEF fee
  <2> QED
    BY <1>6, FeeExists DEF WithdrawFeesAreFractions, Fees, admin_withdraw_fee
<1>8. rate = [ amount |-> payout, fee |-> fee, admin_fee |-> adm,
               ok |-> payout # None /\ adm # None ]
  <2> HIDE DEF p, q
  <2> QED
    BY <1>2, <1>5 DEF token_rate
<1> HIDE DEF fee, adm, q
<1>9. payout = q - fee /\ fee \in Nat /\ adm \in Nat /\ payout \in Nat
  BY <1>3, <1>6, <1>7, WidthAssumption DEF CheckedSub, U64
<1> DEFINE found == payout # None /\ adm # None
<1>10. found
  BY <1>9 DEF None
<1> HIDE DEF payout, found
<1>11. rate.ok = found /\ rate.amount = payout /\ rate.admin_fee = adm
  BY <1>8 DEF found
<1>12. payout + adm <= reserve
  BY <1>1, <1>3, <1>6, <1>7, <1>9
<1> QED
  BY <1>9, <1>10, <1>11, <1>12

(***************************************************************************)
(* The theorem.                                                            *)
(***************************************************************************)

\* Balances before Initialize: the tokens of each mint together fit a u64, as
\* the token program keeps them, and nobody holds an LP token, of which none
\* has been issued.
Circulating(amounts) ==
    /\ \A m \in Mints : Within(amounts, m, U64_MAX)
    /\ Within(amounts, PoolMint, 0)

\* The fees whose numerator is not the largest that the narrow branch of
\* mul_div_imbalanced takes: with that numerator the fee of exactly MAX_BIG
\* tokens overflows.
OffTheSplit(f) ==
    /\ f.withdraw_fee_numerator # MAX_SMALL
    /\ f.admin_withdraw_fee_numerator # MAX_SMALL

LEMMA ExitFromInv ==
    ASSUME IInv, PoolInv, ExitInv, OffTheSplit(fees)
    PROVE  ExitAlwaysPossible
<1> SUFFICES ASSUME is_initialized, \A m \in Mints : admin_fees[m] \in ledger.open,
                    WithdrawFeesAreFractions, NEW user \in Users,
                    NEW source \in AccountsOf(user, PoolMint) \cap ledger.open,
                    NEW a \in AccountsOf(user, TokenA) \cap ledger.open,
                    NEW b \in AccountsOf(user, TokenB) \cap ledger.open,
                    NEW n \in 1 .. ledger.amount[source]
             PROVE  process_withdraw(user, source,
                                     [m \in Mints |-> IF m = TokenA THEN a ELSE b],
                                     n, [m \in Mints |-> 0]).ok
  BY DEF ExitAlwaysPossible, PairOf
<1> DEFINE tos  == [m \in Mints |-> IF m = TokenA THEN a ELSE b]
           rate == [m \in Mints |-> token_rate(n, ledger.supply, Reserve(m), fees)]
           l1 == handle_token_withdraw(ledger, TokenA, rate[TokenA], tos[TokenA])
           l2 == handle_token_withdraw(l1, TokenB, rate[TokenB], tos[TokenB])
           l3 == burn(l2, user, source, n)
           r  == process_withdraw(user, source, tos, n, [m \in Mints |-> 0])
<1> SUFFICES r.ok
  OBVIOUS
<1>1. /\ TokenA \in Mints /\ TokenB \in Mints /\ TokenA # TokenB
      /\ \A m \in Mints : m = TokenA \/ m = TokenB
      /\ tos[TokenA] = a /\ tos[TokenB] = b
  BY AdminAssumption DEF Mints
<1>2. /\ Sound(ledger) /\ ledger \in AnyLedger /\ ledger.ok = TRUE
      /\ ledger.supply \in U64 /\ Backed(ledger)
  BY SoundLedger DEF ExitInv, AnyLedger
<1>3. /\ source \in TokenAccounts /\ mint[source] = PoolMint /\ owner[source] = user
      /\ source \in ledger.open
      /\ a \in TokenAccounts /\ mint[a] = TokenA /\ a \in ledger.open
      /\ b \in TokenAccounts /\ mint[b] = TokenB /\ b \in ledger.open
  BY DEF AccountsOf
<1>4. ledger.amount \in [TokenAccounts -> Nat] /\ ledger.supply \in Nat
  BY <1>2, BalancesAreNumbers
<1>5. ledger.amount[source] <= ledger.supply
  BY <1>2, <1>3, <1>4, PartOfTotal DEF Backed
<1>6. n \in Nat /\ n \in 1 .. ledger.supply /\ n <= ledger.amount[source]
  BY <1>3, <1>4, <1>5
<1>7. ASSUME NEW m \in Mints
      PROVE  /\ mint[reserves[m]] = m /\ owner[reserves[m]] = Authority
             /\ reserves[m] \in TokenAccounts
             /\ mint[admin_fees[m]] = m /\ admin_fees[m] \in ledger.open
             /\ admin_fees \in [Mints -> TokenAccounts]
  BY SoundLedger DEF PoolInv, ReservesAreOurs, ExitInv, IInv, TypeOK
<1>8. ASSUME NEW m \in Mints
      PROVE  /\ rate[m].ok /\ rate[m].amount \in Nat /\ rate[m].admin_fee \in Nat
             /\ rate[m].amount + rate[m].admin_fee <= ledger.amount[reserves[m]]
  <2>1. fees \in Fees
    BY PoolAssumption DEF IInv, TypeOK
  <2>2. rate[m] = token_rate(n, ledger.supply, Reserve(m), fees)
    OBVIOUS
  <2>3. Reserve(m) \in U64
    BY <1>2, <1>7 DEF AnyLedger, Reserve
  <2> HIDE DEF rate
  <2> QED
    BY <1>2, <1>6, <2>1, <2>2, <2>3, ShareExists DEF OffTheSplit, Reserve
<1>9. r = l3
  <2>1. r = IF \/ ~is_initialized
               \/ ledger.supply = 0
               \/ \E m \in Mints : ~rate[m].ok \/ rate[m].amount < [k \in Mints |-> 0][m]
            THEN Failed(ledger)
            ELSE l3
    BY Zenon DEF process_withdraw
  <2>2. ledger.supply # 0
    BY <1>4, <1>6
  <2>3. \A m \in Mints : [k \in Mints |-> 0][m] = 0
    OBVIOUS
  <2> HIDE DEF rate, l3, r
  <2> QED
    BY <1>8, <2>1, <2>2, <2>3
<1> HIDE DEF r, tos, rate
<1>10. /\ Sound(l1) /\ l1.ok /\ l1.open = ledger.open /\ l1.supply = ledger.supply
       /\ \A x \in TokenAccounts : x # reserves[TokenA] => l1.amount[x] >= ledger.amount[x]
  BY <1>1, <1>2, <1>3, <1>7, <1>8, PayoutSucceeds
<1> HIDE DEF l1
<1>11. /\ l1 \in AnyLedger
       /\ \A x \in TokenAccounts : l1.amount[x] \in Nat
  BY <1>10, BalancesAreNumbers DEF Sound
<1>12. rate[TokenB].amount + rate[TokenB].admin_fee <= l1.amount[reserves[TokenB]]
  <2>1. reserves[TokenB] # reserves[TokenA] /\ reserves[TokenB] \in TokenAccounts
    BY <1>1, <1>7, PoolAssumption
  <2>2. /\ l1.amount[reserves[TokenB]] \in Nat /\ ledger.amount[reserves[TokenB]] \in Nat
        /\ l1.amount[reserves[TokenB]] >= ledger.amount[reserves[TokenB]]
    BY <1>4, <1>10, <1>11, <2>1
  <2> QED
    BY <1>1, <1>8, <2>2
<1>13. /\ Sound(l2) /\ l2.ok /\ l2.open = ledger.open /\ l2.supply = ledger.supply
       /\ \A x \in TokenAccounts : x # reserves[TokenB] => l2.amount[x] >= l1.amount[x]
  BY <1>1, <1>3, <1>7, <1>8, <1>10, <1>12, PayoutSucceeds
<1> HIDE DEF l2
<1>14. l2 \in AnyLedger /\ \A x \in TokenAccounts : l2.amount[x] \in Nat
  BY <1>13, BalancesAreNumbers DEF Sound
<1>15. n <= l2.amount[source]
  <2>1. source # reserves[TokenA] /\ source # reserves[TokenB]
    BY <1>1, <1>3, <1>7, PoolAssumption
  <2>2. l2.amount[source] >= l1.amount[source] /\ l1.amount[source] >= ledger.amount[source]
    BY <1>3, <1>10, <1>13, <2>1
  <2> QED
    BY <1>3, <1>4, <1>6, <1>11, <1>14, <2>2
<1>16. l3 = [l2 EXCEPT !.amount[source] = @ - n, !.supply = @ - n]
  BY <1>3, <1>6, <1>13, <1>15 DEF burn
<1> QED
  BY <1>9, <1>13, <1>14, <1>16 DEF AnyLedger

\* Whatever happened to the pool before, a holder can redeem any part of his LP
\* tokens for accounts of his own, as long as the fee accounts exist and the
\* withdrawal fees are fractions: nothing that a swap, a deposit, a ramp, a
\* donation, a pause or a new fee schedule does can make Withdraw fail.
THEOREM ExitIsAlwaysPossible ==
    ASSUME \A amounts \in InitialAmounts : Circulating(amounts),
           \A f \in FeeChoices : OffTheSplit(f)
    PROVE  Spec => []ExitAlwaysPossible
<1>1. Init => ExitInv
  <2> SUFFICES ASSUME Init
               PROVE  ExitInv
    OBVIOUS
  <2>1. PICK amounts \in InitialAmounts :
            ledger = [amount |-> amounts, supply |-> 0, open |-> TokenAccounts, ok |-> TRUE]
    BY DEF Init
  <2>2. ~is_initialized
    BY DEF Init, AdminInit
  <2>3. \A m \in Mints : reserves[m] \in TokenAccounts
    BY PoolAssumption
  <2> QED
    BY <2>1, <2>2, <2>3 DEF ExitInv, Backed, Circulating
<1>2. IInv /\ PoolInv /\ ExitInv /\ [Next]_poolVars => ExitInv'
  BY ExitStep
<1>3. IInv /\ PoolInv /\ ExitInv => ExitAlwaysPossible
  <2> SUFFICES ASSUME IInv, PoolInv, ExitInv
               PROVE  ExitAlwaysPossible
    OBVIOUS
  <2>1. OffTheSplit(fees)
    BY DEF IInv, TypeOK
  <2> QED
    BY <2>1, ExitFromInv
<1> QED
  BY <1>1, <1>2, <1>3, PoolInvariance, PTL DEF Spec

=============================================================================
