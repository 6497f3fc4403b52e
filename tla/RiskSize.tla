------------------------------- MODULE RiskSize ------------------------------
(***************************************************************************)
(* The size of a risk order (src/shared/src/risk.rs, execute_risk_order in *)
(* src/client/src/app.rs).  Amounts are multiplied by Unit, so that fees   *)
(* are whole numbers.                                                      *)
(***************************************************************************)
EXTENDS Integers

Unit == 100000
Taker == 55
Maker == 20
Fee(limit) == IF limit THEN Maker ELSE Taker

Distance(a, b) == IF a < b THEN b - a ELSE a - b

\* What one unit of the position loses at the stop, with the fees of both orders.
MutRiskPerUnit(entry, sl, limit) == Distance(entry, sl) * Unit + entry * Fee(limit)
RiskPerUnit(entry, sl, limit) == Distance(entry, sl) * Unit + 2 * entry * Fee(limit)

ValidStop(side, entry, sl) == IF side = "Buy" THEN sl < entry ELSE sl > entry
Accepted(risk, side, entry, sl) ==
    /\ risk > 0 /\ entry > 0 /\ sl > 0
    /\ ValidStop(side, entry, sl)

\* a / b to the nearest whole number, a half to the even one.
Rounded(a, b) ==
    LET q == a \div b
        r == 2 * (a % b)
    IN IF r > b \/ (r = b /\ q % 2 = 1) THEN q + 1 ELSE q

Quantity(risk, entry, sl, limit) == Rounded(risk * Unit, RiskPerUnit(entry, sl, limit))

\* A stop or a take profit is written as a percentage (2%), a price (94000) or a ratio (1/3).
Percent(entry, v) == (entry * v.amount) \div 100
Ahead(side, entry, d) == IF side = "Buy" THEN entry + d ELSE entry - d

StopLoss(side, entry, v) ==
    IF v.kind = "percent" THEN Ahead(side, entry, -Percent(entry, v)) ELSE v.amount

\* A ratio num/denom puts the take profit denom/num times as far as the stop.
TakeProfit(side, entry, sl, v) ==
    CASE v.kind = "percent" -> Ahead(side, entry, Percent(entry, v))
      [] v.kind = "absolute" -> v.amount
      [] v.kind = "ratio" -> Ahead(side, entry, (Distance(entry, sl) * v.denom) \div v.num)
==============================================================================
