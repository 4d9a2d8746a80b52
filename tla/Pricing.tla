------------------------------- MODULE Pricing -------------------------------
(***************************************************************************)
(* What an option of a freight quote costs and how long it takes.  Pure    *)
(* arithmetic: FreightQuotes says when options come to be, this module     *)
(* what is in them.                                                        *)
(*                                                                         *)
(* The code computes with floating-point numbers; here fractions are exact *)
(* and kept over a common denominator.  Money is in hundredths of a cent.  *)
(***************************************************************************)
EXTENDS Integers

\* Kilometres between postal regions 0 to 9, the first digits of the CEPs.
RegionDistance == <<
  <<  60,  150,  430,  590, 1960, 2660, 2800, 1015,  410, 1110>>,
  << 150,  120,  480,  620, 1970, 2670, 2810, 1050,  460, 1160>>,
  << 430,  480,  100,  340, 1650, 2350, 2600, 1160,  850, 1500>>,
  << 590,  620,  340,  120, 1370, 2050, 2400,  740, 1050, 1650>>,
  <<1960, 1970, 1650, 1370,  150,  850, 1450, 1450, 2350, 2950>>,
  <<2660, 2670, 2350, 2050,  850,  150, 1000, 2100, 3000, 3600>>,
  <<2800, 2810, 2600, 2400, 1450, 1000,  300, 1900, 3200, 3800>>,
  <<1015, 1050, 1160,  740, 1450, 2100, 1900,  150, 1300, 1650>>,
  << 410,  460,  850, 1050, 2350, 3000, 3200, 1300,   90,  550>>,
  <<1110, 1160, 1500, 1650, 2950, 3600, 3800, 1650,  550,  110>> >>

PrefixRange == 99999
MaxAdjustment == 150
VolumetricDivisor == 6000

Absolute(n) == IF n < 0 THEN -n ELSE n
Larger(a, b) == IF a > b THEN a ELSE b
Region(prefix) == prefix \div 10000

\* Math.round of n / d, for natural n.
Rounded(n, d) == (2 * n + d) \div (2 * d)

\* Five digits of each CEP.
Distance(origin, destination) ==
  Rounded(RegionDistance[Region(origin) + 1][Region(destination) + 1] * PrefixRange
            + Absolute(origin - destination) * MaxAdjustment, PrefixRange)

\* In kilograms times VolumetricDivisor: the volume in cubic centimetres.
VolumetricWeight(length, width, height) == length * width * height
ChargeableWeight(weight, volumetric) == Larger(weight * VolumetricDivisor, volumetric)

\* The unit a price is rounded to: a cent, in what its parts are summed in.
Cent == 100 * VolumetricDivisor

\* The price in cents.  perKg, perKm and insurance, per unit of the cargo's
\* value, are in hundredths of a cent.
Price(carrier, chargeable, distance, value) ==
  Rounded((carrier.basePrice + carrier.pricePerKm * distance
             + carrier.insuranceRate * value) * VolumetricDivisor
            + carrier.pricePerKg * chargeable, Cent)

EstimatedDays(carrier, distance) ==
  carrier.handlingDays
    + Larger(1, (distance + carrier.avgSpeedKmPerDay - 1) \div carrier.avgSpeedKmPerDay)

\* computeFreightOption
Option(input, carrier) ==
  LET distance == Distance(input.origin, input.destination)
      chargeable == ChargeableWeight(input.weight,
                      VolumetricWeight(input.length, input.width, input.height))
  IN [price |-> Price(carrier, chargeable, distance, input.value),
      estimatedDays |-> EstimatedDays(carrier, distance),
      distance |-> distance, chargeable |-> chargeable]
-----------------------------------------------------------------------------
(* What is right about distances and options *)

\* The way back is as long as the way there (freight-pricing.util.spec.ts:20).
SymmetricDistance(prefixes) ==
  \A a, b \in prefixes : Distance(a, b) = Distance(b, a) /\ Distance(a, b) > 0

\* The kilometre nearest to the exact distance, which exceeds the table's by
\* at most MaxAdjustment.
NearestDistance(prefixes) ==
  \A a, b \in prefixes :
    LET exact == RegionDistance[Region(a) + 1][Region(b) + 1] * PrefixRange
                   + Absolute(a - b) * MaxAdjustment
    IN /\ Absolute(Distance(a, b) * PrefixRange - exact) * 2 <= PrefixRange
       /\ Distance(a, b) <= RegionDistance[Region(a) + 1][Region(b) + 1] + MaxAdjustment

\* The cargo arrives after handling, on the first whole day (at least one) on
\* which the carrier can have covered the distance; it is charged for its
\* weight or its volume, whichever is more; and a price is the cent nearest
\* to the sum of its parts.
ExactOption(inputs, carriers) ==
  \A input \in inputs, carrier \in carriers :
    LET option == Option(input, carrier)
        days == option.estimatedDays - carrier.handlingDays
    IN /\ days >= 1 /\ days * carrier.avgSpeedKmPerDay >= option.distance
       /\ days > 1 => (days - 1) * carrier.avgSpeedKmPerDay < option.distance
       /\ option.chargeable >= input.weight * VolumetricDivisor
       /\ option.chargeable >= input.length * input.width * input.height
       /\ Absolute(option.price * Cent
            - (carrier.basePrice * 6000 + carrier.pricePerKm * option.distance * 6000
                + carrier.insuranceRate * input.value * 6000
                + carrier.pricePerKg * option.chargeable)) * 2 <= Cent

\* A larger or more valuable parcel never costs less on a way as long or longer.
MonotonePrice(inputs, carriers) ==
  \A a, b \in inputs, carrier \in carriers :
    /\ Distance(a.origin, a.destination) <= Distance(b.origin, b.destination)
    /\ a.weight <= b.weight /\ a.value <= b.value
    /\ a.length <= b.length /\ a.width <= b.width /\ a.height <= b.height
    => Option(a, carrier).price <= Option(b, carrier).price
-----------------------------------------------------------------------------
(* Checks over sampled inputs, small enough for TLC's 32-bit integers *)

Prefixes == {10000 * r + n : r \in 0..9, n \in {0, 4999, 9999}}
SampleCarriers == [basePrice : {0, 2000}, pricePerKm : {0, 5}, pricePerKg : {0, 801},
                   insuranceRate : {0, 30}, avgSpeedKmPerDay : {1, 499, 500}, handlingDays : {0, 1}]
SampleInputs == [origin : {1310}, destination : {1310, 20040}, weight : {1, 10},
                 length : {1, 100}, width : {60}, height : {1, 50}, value : {0, 1000}]

\* computeDistanceKm, between both ends and the middle of every region.
ASSUME DistanceIsRight == SymmetricDistance(Prefixes) /\ NearestDistance(Prefixes)

\* computeFreightOption, on parcels either side of each choice it makes.
ASSUME OptionIsRight == ExactOption(SampleInputs, SampleCarriers) /\ MonotonePrice(SampleInputs, SampleCarriers)
=============================================================================
