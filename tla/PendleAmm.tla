------------------------------- MODULE PendleAmm -------------------------------
(***************************************************************************)
(* The PT/SY pool of models/pendle-amm.js: its curve, one trade, and the   *)
(* rates an oracle reads from it.                                          *)
(*                                                                         *)
(* The code computes with doubles; here a rate, price or logarithm is an   *)
(* integer in units of 1/ONE, an amount an integer number of tokens, and a *)
(* quotient is rounded down.  Where a computation throws, the guard of its  *)
(* name fails.  Times are in the unit of YEAR.                             *)
(***************************************************************************)
EXTENDS Integers, Sequences

CONSTANTS ONE,                      \* 1.0
          YEAR,
          MAX_MARKET_PROPORTION     \* 0.96

ASSUME OneAssumption == ONE \in Nat \ {0}
ASSUME YearAssumption == YEAR \in Nat \ {0}
ASSUME ProportionAssumption == MAX_MARKET_PROPORTION \in 0 .. ONE - 1

Smaller(a, b) == IF a <= b THEN a ELSE b
Larger(a, b) == IF a >= b THEN a ELSE b

Times(a, b) == (a * b) \div ONE
Ratio(a, b) == (a * ONE) \div b

(* Math.exp of 0 to 1, and Math.log of 1 and more: five terms of the       *)
(* series, the logarithm on arguments halved until they are below 2.       *)
Exp(x) ==
  ONE + x + Times(x, x) \div 2 + Times(Times(x, x), x) \div 6
      + Times(Times(x, x), Times(x, x)) \div 24

LnSeries(z, s) ==
  2 * (z + Times(z, s) \div 3 + Times(z, Times(s, s)) \div 5
         + Times(z, Times(s, Times(s, s))) \div 7)

LnBelow2(y) ==
  LET ofQuotient(z) == LnSeries(z, Times(z, z)) IN ofQuotient(Ratio(y - ONE, y + ONE))

Ln[y \in Nat] == IF y >= 2 * ONE THEN LnBelow2(2 * ONE) + Ln[y \div 2] ELSE LnBelow2(y)

------------------------------------------------------------------------------
RateScalar(scalarRoot, timeToExpiry) == (scalarRoot * YEAR) \div timeToExpiry

(* ln(p / (1 - p)) for p = part / whole.                                   *)
LogProportion(part, whole) ==
  (IF 2 * part >= whole THEN 1 ELSE -1)
    * Ln[Ratio(Larger(part, whole - part), Smaller(part, whole - part))]

ExchangeRateFromImpliedRate(lnImpliedRate, timeToExpiry) ==
  Exp((lnImpliedRate * timeToExpiry) \div YEAR)

SyToAsset(index, syAmount) == Times(syAmount, index)
AssetToSy(index, assetAmount) == Ratio(assetAmount, index)

PyIndexCurrent(syExchangeRate, pyIndexStored) == Larger(syExchangeRate, pyIndexStored)

Market == [totalPt : Nat, totalSy : Nat, index : Nat, scalarRoot : Nat, lnFeeRateRoot : Nat,
           lastLnImpliedRate : Nat, expiry : Nat, syIndex : Nat, pyIndex : Nat]

Open(market, blockTime) ==
  market.expiry > blockTime /\ market.totalPt > 0 /\ SyToAsset(market.index, market.totalSy) > 0

MarketPreCompute(market, blockTime) ==
  LET timeToExpiry == market.expiry - blockTime
      scalar       == RateScalar(market.scalarRoot, timeToExpiry)
      totalAsset   == SyToAsset(market.index, market.totalSy)
  IN  [rateScalar |-> scalar, totalAsset |-> totalAsset, timeToExpiry |-> timeToExpiry,
       rateAnchor |->
         ExchangeRateFromImpliedRate(market.lastLnImpliedRate, timeToExpiry)
           - Ratio(LogProportion(market.totalPt, market.totalPt + totalAsset), scalar),
       feeRate |-> ExchangeRateFromImpliedRate(market.lnFeeRateRoot, timeToExpiry)]

(* The curve, and where it throws: a proportion above its cap or a rate    *)
(* below one, which an empty PT reserve also leads to.                     *)
CurveRate(comp, part, whole) ==
  Ratio(LogProportion(part, whole), comp.rateScalar) + comp.rateAnchor

OffCurve(comp, part, whole) ==
  \/ part <= 0
  \/ part * ONE > MAX_MARKET_PROPORTION * whole
  \/ CurveRate(comp, part, whole) < ONE

ExchangeRate(market, comp, netPtToAccount) ==
  CurveRate(comp, market.totalPt - netPtToAccount, market.totalPt + comp.totalAsset)

RefusesTrade(market, comp, netPtToAccount) ==
  \/ OffCurve(comp, market.totalPt - netPtToAccount, market.totalPt + comp.totalAsset)
  \/ netPtToAccount > 0 /\ ExchangeRate(market, comp, netPtToAccount) < comp.feeRate

(* A slip: the fee of a purchase has the wrong sign.                       *)
FeeRebated(preFeeAsset, feeRate, netPtToAccount) ==
  IF netPtToAccount > 0 THEN - Times(preFeeAsset, ONE - feeRate)
                        ELSE - ((preFeeAsset * (ONE - feeRate)) \div feeRate)

(* A slip: the sign of a sale is not turned.                               *)
FeeForgottenOnSale(preFeeAsset, feeRate, netPtToAccount) ==
  IF netPtToAccount > 0 THEN Times(preFeeAsset, ONE - feeRate)
                        ELSE (preFeeAsset * (ONE - feeRate)) \div feeRate

(* Buying costs more, selling returns less, by the fee.                    *)
Fee(preFeeAsset, feeRate, netPtToAccount) ==
  IF netPtToAccount > 0 THEN Times(preFeeAsset, ONE - feeRate)
                        ELSE - ((preFeeAsset * (ONE - feeRate)) \div feeRate)

CalcTrade(market, comp, netPtToAccount) ==
  LET net(preFeeAsset, fee) ==
        [netAssetToAccount |-> preFeeAsset - fee,
         netSyToAccount    |-> AssetToSy(market.index, preFeeAsset - fee),
         netAssetFee       |-> fee]
      lessFee(preFeeAsset) == net(preFeeAsset, Fee(preFeeAsset, comp.feeRate, netPtToAccount))
  IN  lessFee(Ratio(- netPtToAccount, ExchangeRate(market, comp, netPtToAccount)))

LnImpliedRateAt(totalPt, totalAsset, comp) ==
  (Ln[CurveRate(comp, totalPt, totalPt + totalAsset)] * YEAR) \div comp.timeToExpiry

After(market, trade, netPtToAccount) ==
  [market EXCEPT !.totalPt = @ - netPtToAccount, !.totalSy = @ - trade.netSyToAccount]

(* The trade goes through, and leaves a pool that still has a rate.        *)
Takes(market, netPtToAccount, blockTime) ==
  LET rated(comp, next) ==
        ~ OffCurve(comp, next.totalPt, next.totalPt + SyToAsset(next.index, next.totalSy))
      taken(comp) ==
        /\ ~ RefusesTrade(market, comp, netPtToAccount)
        /\ rated(comp, After(market, CalcTrade(market, comp, netPtToAccount), netPtToAccount))
  IN  Open(market, blockTime) /\ taken(MarketPreCompute(market, blockTime))

ExecuteTrade(market, netPtToAccount, blockTime) ==
  LET rated(comp, next) ==
        [next EXCEPT !.lastLnImpliedRate =
           LnImpliedRateAt(next.totalPt, SyToAsset(next.index, next.totalSy), comp)]
      done(comp, trade) ==
        [trade |-> trade, market |-> rated(comp, After(market, trade, netPtToAccount))]
      from(comp) == done(comp, CalcTrade(market, comp, netPtToAccount))
  IN  from(MarketPreCompute(market, blockTime))

------------------------------------------------------------------------------
(* What an oracle reads: the price a stored rate stands for, with the      *)
(* haircut for an SY that has lost value.                                  *)
PtToAssetRateFromLnImpliedRate(lnImpliedRate, timeToExpiry) ==
  IF timeToExpiry <= 0 THEN ONE
  ELSE Ratio(ONE, ExchangeRateFromImpliedRate(lnImpliedRate, timeToExpiry))

PtToAssetRate(lnImpliedRate, timeToExpiry, syIndex, pyIndex) ==
  LET haircut(raw) == IF syIndex >= pyIndex THEN raw ELSE (raw * syIndex) \div pyIndex
  IN  haircut(PtToAssetRateFromLnImpliedRate(lnImpliedRate, timeToExpiry))

PtToSyRate(lnImpliedRate, timeToExpiry, syIndex, pyIndex) ==
  Ratio(PtToAssetRateFromLnImpliedRate(lnImpliedRate, timeToExpiry),
        PyIndexCurrent(syIndex, pyIndex))

OracleTargetTooOld == -1        \* thrown: the segments do not reach back as far as the window

(* The mean over the last duration seconds of [rate, seconds] segments, the*)
(* newest one last.                                                        *)
TwapLnImpliedRate(segments, duration) ==
  LET weighed[n \in 0 .. Len(segments)] ==      \* of the newest n: what remains, the weighted sum
        IF n = 0 THEN <<duration, 0>>
        ELSE LET newer   == weighed[n - 1]
                 segment == segments[Len(segments) - n + 1]
                 take    == Smaller(segment.seconds, newer[1])
             IN  <<newer[1] - take, newer[2] + segment.rate * take>>
      mean(last) == IF last[1] > 0 THEN OracleTargetTooOld ELSE last[2] \div duration
  IN  mean(weighed[Len(segments)])

(* A slip: a rate held longer than the window weighs more than all of it.  *)
DilutedBeyondWindow(base, displaced, heldSeconds, duration) ==
  (base * (duration - heldSeconds) + displaced * heldSeconds) \div duration

DilutedTwap(base, displaced, heldSeconds, duration) ==
  LET held == Smaller(heldSeconds, duration)
  IN  (base * (duration - held) + displaced * held) \div duration
================================================================================
