------------------------ MODULE LiquidityPoolProofs ------------------------
(***************************************************************************)
(* Theorems about LiquidityPool, for every value of its constants: any     *)
(* number of users, any set of stake pool states, any width of u64.        *)
(***************************************************************************)
EXTENDS LiquidityPool, ArithmeticProofs

(***************************************************************************)
(* What SellstSOL relies on in the stake pool's account.  TypeOK alone is  *)
(* not inductive: with a fee above one the seller's payment would be       *)
(* negative.                                                               *)
(***************************************************************************)
FeeAtMostOne ==
  /\ stake_pool.stake_total \in U64 /\ stake_pool.pool_total \in U64
  /\ stake_pool.fee.numerator \in Nat /\ stake_pool.fee.denominator \in Nat
  /\ stake_pool.fee.numerator <= stake_pool.fee.denominator

LInv == TypeOK /\ FeeAtMostOne

\* The invariant holds before anything happens.
LEMMA InitLInv == Init => LInv
  BY LiquidityAssumption, U64MaxAssumption DEF Init, LInv, TypeOK, FeeAtMostOne, U64

\* The states the environment may move the stake pool to have what SellstSOL
\* relies on.
LEMMA PoolStateFacts ==
  ASSUME NEW p \in PoolStates
  PROVE  /\ p.stake_total \in U64 /\ p.pool_total \in U64
         /\ p.fee.numerator \in Nat /\ p.fee.denominator \in Nat
         /\ p.fee.numerator <= p.fee.denominator
  BY LiquidityAssumption

\* A part of at most one of a value is at most the value.
LEMMA FeeFits ==
  ASSUME FeeAtMostOne, NEW v \in U64, FeeAmount(v) \in U64
  PROVE  WsolToUser(v) \in 0 .. v
  <1> DEFINE n == stake_pool.fee.numerator
             d == stake_pool.fee.denominator
             f == FeeAmount(v)
  <1>1. n \in Nat /\ d \in Nat /\ n <= d /\ v \in Nat /\ f \in Nat
    BY U64MaxAssumption DEF FeeAtMostOne, U64
  <1>2. f = proportional(v, n, d)
    BY DEF FeeAmount
  <1>3. IF d = 0 THEN f = v ELSE f * d <= v * n
    BY <1>1, <1>2, ProportionalFacts
  <1>4. WsolToUser(v) = v - f
    BY DEF WsolToUser
  <1> HIDE DEF n, d, f
  <1>5. f <= v
    <2>1. CASE d = 0
      BY <1>1, <1>3, <2>1
    <2>2. CASE d # 0
      <3>1. v * n <= v * d
        BY <1>1
      <3>2. f * d <= v * d
        BY <1>1, <1>3, <2>2, <3>1
      <3>3. SUFFICES ASSUME f >= v + 1 PROVE FALSE
        BY <1>1
      <3>4. f * d >= (v + 1) * d
        BY <1>1, <3>3
      <3>5. QED BY <1>1, <2>2, <3>2, <3>4
    <2>3. QED BY <2>1, <2>2
  <1>6. QED BY <1>1, <1>4, <1>5

\* What a sale of n stSOL does to the pool's two accounts: it pays at most
\* what the stSOL are worth at the stake pool's price.
LEMMA SaleFacts ==
  ASSUME LInv, NEW u \in Users, NEW n \in 1 .. stsol[u], process_sell_stsol(u, n)
  PROVE  \E pay \in U64 :
           /\ liq.wsol - pay \in U64 /\ liq.stsol + n \in U64
           /\ stsol[u] - n \in U64 /\ wsol[u] + pay \in U64
           /\ liq' = [wsol |-> liq.wsol - pay, stsol |-> liq.stsol + n]
           /\ wsol' = [wsol EXCEPT ![u] = @ + pay]
           /\ stsol' = [stsol EXCEPT ![u] = @ - n]
           /\ pay * stake_pool.pool_total <= n * stake_pool.stake_total
                \/ stake_pool.pool_total = 0
  <1> DEFINE v == SolValue(n)
             pay == WsolToUser(v)
             S == stake_pool.stake_total
             P == stake_pool.pool_total
  <1>1. /\ n <= stsol[u] /\ liq.stsol + n \in U64
        /\ v \in U64 /\ FeeAmount(v) \in U64 /\ pay <= liq.wsol
        /\ wsol[u] + pay \in U64
        /\ liq' = [wsol |-> liq.wsol - pay, stsol |-> liq.stsol + n]
        /\ wsol' = [wsol EXCEPT ![u] = @ + pay]
        /\ stsol' = [stsol EXCEPT ![u] = @ - n]
    BY DEF process_sell_stsol, CanTransfer
  <1>2. pay \in 0 .. v
    BY <1>1, FeeFits DEF LInv
  <1>3. /\ stsol[u] \in U64 /\ liq.wsol \in U64 /\ S \in Nat /\ P \in Nat
        /\ n \in Nat
    BY U64MaxAssumption DEF LInv, TypeOK, FeeAtMostOne, U64
  <1>4. v = proportional(n, S, P)
    BY DEF SolValue
  <1>5. P = 0 \/ v * P <= n * S
    BY <1>1, <1>3, <1>4, ProportionalFacts
  <1> HIDE DEF v, pay, S, P
  <1>6. v \in Nat /\ pay \in Nat /\ pay <= v /\ pay \in U64
    BY <1>1, <1>2, U64MaxAssumption DEF U64
  <1>7. pay * P <= v * P
    BY <1>3, <1>6
  <1>8. P = 0 \/ pay * P <= n * S
    BY <1>3, <1>5, <1>6, <1>7
  <1>9. liq.wsol - pay \in U64 /\ stsol[u] - n \in U64
    BY <1>1, <1>3, <1>6, U64MaxAssumption DEF U64
  <1>10. QED BY <1>1, <1>6, <1>8, <1>9 DEF S, P

\* AddLiquidity takes n wSOL and mints shares m that are worth, in wSOL, at
\* most that.
LEMMA AddFacts ==
  ASSUME LInv, NEW u \in Users, NEW n \in 1 .. wsol[u], process_add_liquidity(u, n)
  PROVE  \E m \in U64 :
           /\ liq.wsol + n \in U64 /\ wsol[u] - n \in U64
           /\ metalp_supply + m \in U64 /\ metalp[u] + m \in U64
           /\ liq' = [liq EXCEPT !.wsol = @ + n]
           /\ wsol' = [wsol EXCEPT ![u] = @ - n]
           /\ metalp_supply' = metalp_supply + m
           /\ metalp' = [metalp EXCEPT ![u] = @ + m]
           /\ liq.wsol = 0 \/ m * liq.wsol <= n * metalp_supply
  <1> DEFINE m == MetalpAmount(n)
  <1>1. /\ n <= wsol[u] /\ liq.wsol + n \in U64 /\ m \in U64
        /\ metalp_supply + m \in U64 /\ metalp[u] + m \in U64
        /\ liq' = [liq EXCEPT !.wsol = @ + n]
        /\ wsol' = [wsol EXCEPT ![u] = @ - n]
        /\ metalp_supply' = metalp_supply + m
        /\ metalp' = [metalp EXCEPT ![u] = @ + m]
    BY DEF process_add_liquidity, CanTransfer
  <1>2. wsol[u] \in U64 /\ liq.wsol \in Nat /\ metalp_supply \in Nat /\ n \in Nat
    BY U64MaxAssumption DEF LInv, TypeOK, U64
  <1>3. m = proportional(n, metalp_supply, liq.wsol)
    BY DEF MetalpAmount, shares_from_value
  <1>4. liq.wsol = 0 \/ m * liq.wsol <= n * metalp_supply
    BY <1>1, <1>2, <1>3, ProportionalFacts
  <1> HIDE DEF m
  <1>5. wsol[u] - n \in U64
    BY <1>1, <1>2, U64MaxAssumption DEF U64
  <1>6. QED BY <1>1, <1>4, <1>5

-----------------------------------------------------------------------------
(***************************************************************************)
(* The invariant.                                                          *)
(***************************************************************************)

\* Every step keeps the invariant.
LEMMA NextLInv == LInv /\ [Next]_vars => LInv'
  <1> SUFFICES ASSUME LInv, [Next]_vars PROVE LInv'
    OBVIOUS
  <1>1. CASE AddLiquidity
    <2>1. PICK u \in Users : \E n \in 1 .. wsol[u] : process_add_liquidity(u, n)
      BY <1>1 DEF AddLiquidity
    <2>2. PICK n \in 1 .. wsol[u] : process_add_liquidity(u, n)
      BY <2>1
    <2>3. stake_pool' = stake_pool /\ stsol' = stsol
      BY <2>2 DEF process_add_liquidity
    <2>4. TypeOK'
      BY <2>2, <2>3, AddFacts DEF LInv, TypeOK
    <2>5. QED BY <2>3, <2>4 DEF LInv, FeeAtMostOne
  <1>2. CASE SellstSOL
    <2>1. PICK u \in Users : \E n \in 1 .. stsol[u] : process_sell_stsol(u, n)
      BY <1>2 DEF SellstSOL
    <2>2. PICK n \in 1 .. stsol[u] : process_sell_stsol(u, n)
      BY <2>1
    <2>3. UNCHANGED <<stake_pool, metalp_supply, metalp>>
      BY <2>2 DEF process_sell_stsol
    <2>4. TypeOK'
      BY <2>2, <2>3, SaleFacts DEF LInv, TypeOK
    <2>5. QED BY <2>3, <2>4 DEF LInv, FeeAtMostOne
  <1>3. ASSUME NEW p \in PoolStates, NEW u \in Users,
               NEW n \in -stsol[u] .. p.pool_total, StakePoolMoves(p, u, n)
        PROVE  LInv'
    <2>1. TypeOK'
      BY <1>3 DEF LInv, TypeOK, StakePoolMoves
    <2>2. FeeAtMostOne'
      BY <1>3, PoolStateFacts DEF FeeAtMostOne, StakePoolMoves
    <2>3. QED BY <2>1, <2>2 DEF LInv
  <1>4. ASSUME NEW u \in Users, NEW n \in 1 .. wsol[u], Donate(u, n)
        PROVE  LInv'
    <2>1. n <= wsol[u] /\ wsol[u] - n \in U64 /\ liq.wsol + n \in U64
      BY <1>4, U64MaxAssumption DEF LInv, TypeOK, Donate, U64
    <2>2. TypeOK'
      BY <1>4, <2>1 DEF LInv, TypeOK, Donate
    <2>3. QED BY <1>4, <2>2 DEF LInv, FeeAtMostOne, Donate
  <1>5. ASSUME NEW u \in Users, NEW n \in 1 .. metalp[u], BurnMetalp(u, n)
        PROVE  LInv'
    <2>1. metalp[u] - n \in U64 /\ metalp_supply - n \in U64
      BY <1>5, U64MaxAssumption DEF LInv, TypeOK, BurnMetalp, U64
    <2>2. TypeOK'
      BY <1>5, <2>1 DEF LInv, TypeOK, BurnMetalp
    <2>3. QED BY <1>5, <2>2 DEF LInv, FeeAtMostOne, BurnMetalp
  <1>6. CASE UNCHANGED vars
    BY <1>6 DEF LInv, TypeOK, FeeAtMostOne, vars
  <1>7. QED BY <1>1, <1>2, <1>3, <1>4, <1>5, <1>6 DEF Next

\* The inductive invariant: balances are u64, and whatever state the stake
\* pool moves to, the fee SellstSOL keeps is a part of at most one.
THEOREM LiquidityInvariance == Spec => []LInv
  BY InitLInv, NextLInv, PTL DEF Spec

\* No sequence of additions, sales, donations, burns and moves of the price
\* takes a token account or the METALP mint out of its u64.
THEOREM LiquidityTypeCorrect == Spec => []TypeOK
  <1>1. LInv => TypeOK
    BY DEF LInv
  <1>2. QED BY <1>1, LiquidityInvariance, PTL

-----------------------------------------------------------------------------
(***************************************************************************)
(* Prices.                                                                 *)
(***************************************************************************)

\* A sale of stSOL leaves the pool with no less than it had.
LEMMA SaleKeepsValue == LInv /\ SellstSOL => PoolValue' >= PoolValue
  <1> SUFFICES ASSUME LInv, SellstSOL PROVE PoolValue' >= PoolValue
    OBVIOUS
  <1>1. PICK u \in Users : \E n \in 1 .. stsol[u] : process_sell_stsol(u, n)
    BY DEF SellstSOL
  <1>2. PICK n \in 1 .. stsol[u] : process_sell_stsol(u, n)
    BY <1>1
  <1>3. stake_pool' = stake_pool
    BY <1>2 DEF process_sell_stsol
  <1> DEFINE S == stake_pool.stake_total
             P == stake_pool.pool_total
             w == liq.wsol
             s == liq.stsol
  <1>4. PICK pay \in U64 :
          /\ liq' = [wsol |-> w - pay, stsol |-> s + n]
          /\ pay * P <= n * S \/ P = 0
    BY <1>2, SaleFacts
  <1>5. /\ w \in Nat /\ s \in Nat /\ S \in Nat /\ P \in Nat /\ n \in Nat
        /\ pay \in Nat
    BY U64MaxAssumption DEF LInv, TypeOK, FeeAtMostOne, U64
  <1>6. PoolValue = w * P + s * S /\ PoolValue' = (w - pay) * P + (s + n) * S
    BY <1>3, <1>4 DEF PoolValue
  <1> HIDE DEF S, P, w, s
  <1>7. (w - pay) * P = w * P - pay * P /\ (s + n) * S = s * S + n * S
    BY <1>5
  <1>8. n * S \in Nat /\ pay * P \in Nat /\ w * P \in Nat /\ s * S \in Nat
    BY <1>5
  <1>9. pay * P <= n * S
    BY <1>4, <1>5, <1>8
  <1>10. QED BY <1>6, <1>7, <1>8, <1>9

\* SellstSOL at any price and with any fee: what the pool holds afterwards is
\* worth at least as much as before.
THEOREM SalesKeep == Spec => SalesKeepValue
  <1>1. LInv /\ [Next]_vars => [SellstSOL => PoolValue' >= PoolValue]_vars
    BY SaleKeepsValue
  <1>2. QED BY <1>1, LiquidityInvariance, PTL DEF Spec, SalesKeepValue

\* Adding liquidity leaves no less wSOL for a share.
LEMMA AddKeepsWsolPerShare ==
  LInv /\ AddLiquidity => liq.wsol * metalp_supply' <= liq'.wsol * metalp_supply
  <1> SUFFICES ASSUME LInv, AddLiquidity
               PROVE  liq.wsol * metalp_supply' <= liq'.wsol * metalp_supply
    OBVIOUS
  <1>1. PICK u \in Users : \E n \in 1 .. wsol[u] : process_add_liquidity(u, n)
    BY DEF AddLiquidity
  <1>2. PICK n \in 1 .. wsol[u] : process_add_liquidity(u, n)
    BY <1>1
  <1> DEFINE w == liq.wsol
             k == metalp_supply
  <1>3. PICK m \in U64 : /\ liq' = [liq EXCEPT !.wsol = @ + n]
                         /\ metalp_supply' = k + m
                         /\ w = 0 \/ m * w <= n * k
    BY <1>2, AddFacts
  <1>4. liq'.wsol = w + n
    BY <1>3 DEF LInv, TypeOK
  <1>5. w \in Nat /\ k \in Nat /\ n \in Nat /\ m \in Nat
    BY U64MaxAssumption DEF LInv, TypeOK, U64
  <1> HIDE DEF w, k
  <1>6. w * (k + m) = w * k + m * w /\ (w + n) * k = w * k + n * k
    BY <1>5
  <1>7. w * k \in Nat /\ m * w \in Nat /\ n * k \in Nat
    BY <1>5
  <1>8. m * w <= n * k
    BY <1>3, <1>5, <1>7
  <1>9. w * (k + m) <= (w + n) * k
    BY <1>6, <1>7, <1>8
  <1>10. QED BY <1>3, <1>4, <1>9 DEF w, k

\* AddLiquidity never mints more shares than the wSOL it takes pay for, at
\* the ratio that sales, donations and burns have left.
THEOREM WsolPerShare == Spec => WsolPerShareHolds
  <1>1. LInv /\ [Next]_vars =>
          [AddLiquidity => liq.wsol * metalp_supply' <= liq'.wsol * metalp_supply]_vars
    BY AddKeepsWsolPerShare
  <1>2. QED BY <1>1, LiquidityInvariance, PTL DEF Spec, WsolPerShareHolds

=============================================================================
