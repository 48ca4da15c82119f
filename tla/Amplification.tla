--------------------------- MODULE Amplification ---------------------------
(***************************************************************************)
(* The amplification coefficient A of a pool as a function of time:        *)
(* StableSwap::compute_amp_factor and the constants around it.             *)
(***************************************************************************)
EXTENDS CheckedMath

CONSTANTS
    MIN_AMP,            \* 1
    MAX_AMP,            \* 1_000_000
    MIN_RAMP_DURATION   \* 86_400 seconds

ASSUME AmpAssumption ==
    /\ MIN_AMP \in Nat \ {0}
    /\ MAX_AMP \in Nat
    /\ MIN_AMP <= MAX_AMP
    /\ MAX_AMP <= U64_MAX
    /\ MIN_RAMP_DURATION \in Nat \ {0}

ZERO_TS == 0

---------------------------------------------------------------------------
(* compute_amp_factor with one mistake each, used to test the properties.  *)

\* A downward ramp goes up.
compute_amp_factor_wrong_way(initial_amp, target_amp, current_ts, start_ts, stop_ts) ==
    LET Part(amp_range) == (amp_range * (current_ts - start_ts)) \div (stop_ts - start_ts)
    IN  IF current_ts >= stop_ts THEN target_amp
        ELSE IF target_amp >= initial_amp
        THEN initial_amp + Part(target_amp - initial_amp)
        ELSE initial_amp + Part(initial_amp - target_amp)

\* The ramp is not cut off at stop_ts.
compute_amp_factor_overshoots(initial_amp, target_amp, current_ts, start_ts, stop_ts) ==
    IF stop_ts = start_ts THEN target_amp
    ELSE initial_amp + ((target_amp - initial_amp) * (current_ts - start_ts))
                            \div (stop_ts - start_ts)

\* After the ramp the pool falls back to the coefficient it started from.
compute_amp_factor_falls_back(initial_amp, target_amp, current_ts, start_ts, stop_ts) ==
    IF current_ts >= stop_ts THEN initial_amp
    ELSE initial_amp + ((target_amp - initial_amp) * (current_ts - start_ts))
                            \div (stop_ts - start_ts)
---------------------------------------------------------------------------

\* A at current_ts.  Before start_ramp_ts the conversion of the negative
\* time_delta to u128 gives None; a zero or negative time_range is only met
\* there.  amp_delta is at most amp_range, so that neither the u128 product
\* nor the final addition can overflow.
compute_amp_factor(initial_amp, target_amp, current_ts, start_ts, stop_ts) ==
    LET time_range == stop_ts - start_ts
        time_delta == current_ts - start_ts
        Part(amp_range) == (amp_range * time_delta) \div time_range
    IN  IF current_ts >= stop_ts THEN target_amp
        ELSE IF time_delta < 0 THEN None
        ELSE IF target_amp >= initial_amp
        THEN initial_amp + Part(target_amp - initial_amp)
        ELSE initial_amp - Part(initial_amp - target_amp)

=============================================================================
