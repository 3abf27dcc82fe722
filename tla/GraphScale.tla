----------------------------- MODULE GraphScale -----------------------------
(***************************************************************************)
(* src/src/graphscale.c: the scale of the network and disk graphs, as pure *)
(* functions of the peak.  Rates are bytes per second; the doubles of the  *)
(* code are exact for the small numbers used here, and its cap on peaks    *)
(* near 2^64 is out of their range.                                        *)
(***************************************************************************)
EXTENDS Integers, Sequences, FiniteSetsExt

MIN_SCALE_BYTES == 1024
MIN_SCALE_BITS == 10000

(* The power of base that x lies above: pow (base, floor (log (x))).       *)
PowerBelow(base, x) == base ^ (CHOOSE e \in 0..8 : base ^ e \in 1..x /\ x \div base < base ^ e)

CeilDiv(x, y) == (x + y - 1) \div y

(* The least of 1, 2, 5 and 10 times a power of ten.                       *)
nice_ceiling_Nearest(x) ==
  LET power == PowerBelow(10, x)
  IN Max({n \in {1, 2, 5, 10} : n * power <= x}) * power

nice_ceiling(x) ==
  LET power == PowerBelow(10, x)
  IN Min({n \in {1, 2, 5, 10} : n * power >= x}) * power

ScaleBits(peak, n_ticks) ==
  LET bit_scale == Max({peak * 8, MIN_SCALE_BITS})
  IN (n_ticks * nice_ceiling(Max({bit_scale \div n_ticks, 1}))) \div 8

(* One significant digit of a multiple of a power of 1024.                 *)
RoundDigit(coefficient) ==
  LET digit_unit == PowerBelow(10, coefficient) IN CeilDiv(coefficient, digit_unit) * digit_unit

ScaleBytes(peak) ==
  LET scale == Max({(11 * peak) \div 10, MIN_SCALE_BYTES})
      unit == PowerBelow(1024, scale)
  IN RoundDigit(CeilDiv(scale, unit)) * unit

gsm_graph_scale_round(peak, in_bits, n_ticks) ==
  IF in_bits THEN ScaleBits(peak, n_ticks) ELSE ScaleBytes(peak)

gsm_graph_scale_next(history, current_max, in_bits, n_ticks) ==
  LET new_max == gsm_graph_scale_round(Max(history \cup {0}), in_bits, n_ticks)
  IN IF 4 * current_max < 5 * new_max /\ new_max <= current_max THEN current_max ELSE new_max

-----------------------------------------------------------------------------
(* The header: a scale is at or above the peak, does not fall as the peak  *)
(* rises, and is whole: ticks of 1, 2 or 5 in bits, one significant digit  *)
(* in bytes (of the smaller unit, for the peaks just below the next one).  *)
RoundAbovePeak(peak, n_ticks) ==
  LET bytes == gsm_graph_scale_round(peak, FALSE, 0)
      bits == gsm_graph_scale_round(peak, TRUE, n_ticks)
  IN /\ bytes >= peak /\ bits >= peak
     /\ bytes <= gsm_graph_scale_round(peak + 1, FALSE, 0)
     /\ bits <= gsm_graph_scale_round(peak + 1, TRUE, n_ticks)
     /\ \E unit \in {1024, 1024 * 1024} :
          /\ bytes % unit = 0 /\ unit <= bytes
          /\ RoundDigit(bytes \div unit) = bytes \div unit
     /\ (bits * 8) % n_ticks = 0
     /\ nice_ceiling((bits * 8) \div n_ticks) = (bits * 8) \div n_ticks
=============================================================================
