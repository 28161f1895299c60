------------------------------- MODULE Fares -------------------------------
(***************************************************************************)
(* The arithmetic of money: fares of a trip, the average a passenger is    *)
(* quoted and the split of a paid price.  Amounts are cents, rates basis   *)
(* points; the code computes in 64 bits and refuses what does not fit, so  *)
(* the naturals stand for it.                                              *)
(***************************************************************************)
EXTENDS Integers, FiniteSets, FiniteSetsExt

\* What a price is when the code answers with an error instead.
NoPrice == 0

\* A tariff charges a fixed price or measures distance, time or both.
PricingMode == {"fixed", "distance", "time", "distance_time"}

\* What a tariff charges.
FareTerms == [mode: PricingMode, fixed: Nat, base: Nat, minimum: Nat, perKm: Nat, perMinute: Nat]

\* A tariff whose mode has a rate to charge by.
Chargeable(tariff) ==
  CASE tariff.mode = "fixed"         -> tariff.fixed > 0
    [] tariff.mode = "distance"      -> tariff.perKm > 0
    [] tariff.mode = "time"          -> tariff.perMinute > 0
    [] tariff.mode = "distance_time" -> tariff.perKm > 0 \/ tariff.perMinute > 0

AtLeast(floor, price) == IF price < floor THEN floor ELSE price

\* The distance to the nearest cent, every started minute in full.
MeasuredPrice(tariff, metres, seconds) ==
  AtLeast(tariff.minimum,
          tariff.base + (metres * tariff.perKm + 500) \div 1000
                      + ((seconds + 59) \div 60) * tariff.perMinute)

CalculateTripPrice(tariff, metres, seconds) ==
  IF ~Chargeable(tariff) THEN NoPrice
  ELSE CASE tariff.mode = "fixed" -> AtLeast(tariff.minimum, tariff.fixed)
         [] tariff.mode = "distance" -> MeasuredPrice(tariff, metres, 0)
         [] tariff.mode = "time" -> MeasuredPrice(tariff, 0, seconds)
         [] tariff.mode = "distance_time" -> MeasuredPrice(tariff, metres, seconds)

\* The parks' first usable tariffs are averaged to the nearest cent.
AveragePrice(total, count) ==
  (total \div count) + (((total % count) + (count \div 2)) \div count)

\* A rate of zero means that none was set.
DefaultCommission == 100

ResolveCommissionRate(bps) == IF bps = 0 THEN DefaultCommission ELSE bps

\* A share of an amount, to the nearest cent.
Share(amount, bps) == (amount * bps + 5000) \div 10000

\* What an order of this price brings to the driver, the park and the platform.
CalculateCommission(gross, bps) == Share(gross, ResolveCommissionRate(bps))

CalculatePlatformFee(commission, bps) == Share(commission, ResolveCommissionRate(bps))

Terms(gross, commissionRate, feeRate) ==
  LET commission == CalculateCommission(gross, commissionRate)
  IN [gross |-> gross, commission |-> commission, net |-> gross - commission,
      fee |-> CalculatePlatformFee(commission, feeRate)]
=============================================================================
