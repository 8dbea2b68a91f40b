---------------------------- MODULE StableDebtToken ----------------------------
(***************************************************************************)
(* The stable debt token of a reserve, StableDebtToken.sol, as functions of  *)
(* its storage. Every user's debt grows at the user's own rate, and the        *)
(* total supply, which no loop over the users could compute on chain, grows     *)
(* on its own at the average rate. The two are brought together by nothing:      *)
(* mint and burn adjust both.                                                     *)
(***************************************************************************)
EXTENDS InterestRates

CONSTANT Users

\* Nobody owes anything yet.
NoStableDebt ==
    [principal  |-> [u \in Users |-> 0],    \* balances at the user's timestamp
     rate       |-> [u \in Users |-> 0],    \* _usersStableRate
     stamp      |-> [u \in Users |-> 0],    \* _timestamps
     total      |-> 0,                      \* _totalSupply at _totalSupplyTimestamp
     average    |-> 0,                      \* _avgStableRate
     totalStamp |-> 0]

\* balanceOf, with the interest up to `time`.
StableBalanceOf(token, u, time) ==
    IF token.principal[u] = 0
    THEN 0
    ELSE RayMul(token.principal[u], CompoundedInterest(token.rate[u], time - token.stamp[u]))

\* _calcTotalSupply, with the interest up to `time`.
StableSupply(token, time) ==
    IF token.total = 0
    THEN 0
    ELSE RayMul(token.total, CompoundedInterest(token.average, time - token.totalStamp))

\* An amount times a rate: the interest it bears.
Weighted(rate, amount) == RayMul(rate, WadToRay(amount))

StableMint(token, u, amount, rate, time) ==
    LET current  == StableBalanceOf(token, u, time)
        previous == StableSupply(token, time)
    IN  [principal  |-> [token.principal EXCEPT ![u] = current + amount],
         rate       |-> [token.rate EXCEPT ![u] =
                            RayDiv(Weighted(@, current) + Weighted(rate, amount),
                                   WadToRay(current + amount))],
         stamp      |-> [token.stamp EXCEPT ![u] = time],
         total      |-> previous + amount,
         average    |-> RayDiv(Weighted(token.average, previous) + Weighted(rate, amount),
                               WadToRay(previous + amount)),
         totalStamp |-> time]

\* A slip: what is left of the supply keeps the average rate of the whole.
SupplyKeepingAverage(previous, average, amount, rate) ==
    IF previous <= amount
    THEN [total |-> 0, average |-> 0]
    ELSE [total |-> previous - amount, average |-> average]

\* The total supply and its rate after a burn: when more is burned than the supply, or
\* more interest leaves than it pays, both are set to zero.
SupplyAfterBurn(previous, average, amount, rate) ==
    LET nothing == [total |-> 0, average |-> 0]
        paid    == Weighted(average, previous)
        leaving == Weighted(rate, amount)
    IN  IF previous <= amount \/ leaving >= paid
        THEN nothing
        ELSE [total   |-> previous - amount,
              average |-> RayDiv(paid - leaving, WadToRay(previous - amount))]

\* burn. The code reverts where more is burned than u owes; no caller asks for that, see
\* TypeOK of Reserve.
StableBurn(token, u, amount, time) ==
    LET current == StableBalanceOf(token, u, time)
        cleared == amount = current
        supply  == SupplyAfterBurn(StableSupply(token, time), token.average,
                                   amount, token.rate[u])
    IN  [principal  |-> [token.principal EXCEPT ![u] = current - amount],
         rate       |-> [token.rate EXCEPT ![u] = IF cleared THEN 0 ELSE @],
         stamp      |-> [token.stamp EXCEPT ![u] = IF cleared THEN 0 ELSE time],
         total      |-> supply.total,
         average    |-> supply.average,
         totalStamp |-> time]
==============================================================================
