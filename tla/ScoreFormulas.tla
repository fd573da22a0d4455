---------------------------- MODULE ScoreFormulas ----------------------------
(***************************************************************************)
(* The arithmetic of a score, from the layers' sub-indices to the numbers  *)
(* that are published.  A score is an integer in 0 .. 100 and None is what *)
(* the code calls None; a quotient is a record of its two terms, compared  *)
(* by cross-multiplication.  Rounding to four digits is left out.          *)
(***************************************************************************)
EXTENDS Integers

None == -1

Layers == {"market", "narrative", "influencer", "macro"}
EXO_LAYERS == Layers \ {"market"}

LAYER_WEIGHTS == [market |-> 35, narrative |-> 30, influencer |-> 25, macro |-> 10]

Quotient(n, d) == [num |-> n, den |-> d]
AtMost(p, q) == p.num * q.den <= q.num * p.den
Equal(p, q) == p.num * q.den = q.num * p.den
Of(v) == Quotient(v, 1)

\* The layers that have a sub-index.
present(sub) == {l \in Layers : sub[l] # None}

-----------------------------------------------------------------------------
(* Composite: the weight of a missing layer goes to the others in          *)
(* proportion, and nothing at all is neutral.                              *)

Share(sub, l) == IF sub[l] = None THEN 0 ELSE LAYER_WEIGHTS[l]

total_w(sub) ==
    Share(sub, "market") + Share(sub, "narrative") + Share(sub, "influencer") + Share(sub, "macro")

Weighed(sub) ==
      Share(sub, "market") * sub["market"] + Share(sub, "narrative") * sub["narrative"]
    + Share(sub, "influencer") * sub["influencer"] + Share(sub, "macro") * sub["macro"]

compute_composite(sub) ==
    IF total_w(sub) = 0 THEN Of(50) ELSE Quotient(Weighed(sub), total_w(sub))

\* The composite without the layer that is derived from prices.
compute_exo_composite(sub) ==
    IF \A l \in EXO_LAYERS : sub[l] = None THEN Of(None)
    ELSE compute_composite([sub EXCEPT !["market"] = None])

-----------------------------------------------------------------------------
(* Divergence: how far the layers are apart, and the cap on a bullish      *)
(* composite that one strongly bearish layer contradicts.                  *)

Apart(sub, gap) == \E l, m \in present(sub) : sub[l] - sub[m] > gap

flag(sub) == IF Apart(sub, 40) THEN "high_divergence"
             ELSE IF Apart(sub, 20) THEN "moderate_divergence" ELSE "aligned"

cap_applied(sub) == \E l, m \in present(sub) : sub[l] > 85 /\ sub[m] < 30

effective_composite(sub) ==
    IF cap_applied(sub) /\ ~AtMost(compute_composite(sub), Of(75))
    THEN Of(75) ELSE compute_composite(sub)

-----------------------------------------------------------------------------
(* Smoothing.  The time since the previous score is a number of half-lives *)
(* (so alpha is 1 - 2^-k); a None before means a cold start.               *)

pow2[k \in Nat] == IF k = 0 THEN 1 ELSE 2 * pow2[k - 1]

Mix(p, q, k) == \* (1 - 2^-k) p + 2^-k q
    Quotient((pow2[k] - 1) * (p.num * q.den) + q.num * p.den, pow2[k] * (p.den * q.den))

\* Fault: alpha is taken from one half-life, whatever time has gone by.
FaultPerTick(raw, prev, k) ==
    IF Equal(prev, Of(None)) THEN raw ELSE IF k = 0 THEN prev ELSE Mix(raw, prev, 1)

compute_ema(raw, prev, k) ==
    IF Equal(prev, Of(None)) THEN raw ELSE IF k = 0 THEN prev ELSE Mix(raw, prev, k)

-----------------------------------------------------------------------------
(* Confidence: what is deducted from 100, never below 0.                   *)

PENALTIES == [missing_layer |-> 15, stale_source |-> 10,
              low_signal_volume |-> 20, high_divergence |-> 15]

\* missing and stale are numbers of layers and sources; low and high are Booleans.
compute_confidence(missing, stale, low, high) ==
    LET raw == 100 - PENALTIES.missing_layer * missing - PENALTIES.stale_source * stale
                   - (IF low THEN PENALTIES.low_signal_volume ELSE 0)
                   - (IF high THEN PENALTIES.high_divergence ELSE 0)
    IN  IF raw < 0 THEN 0 ELSE raw

=============================================================================
