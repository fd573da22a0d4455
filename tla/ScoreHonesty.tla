---------------------------- MODULE ScoreHonesty ----------------------------
(***************************************************************************)
(* What a reader of the published composite relies on, as properties of    *)
(* the formulas of ScoreFormulas for one input of one of them.             *)
(***************************************************************************)
EXTENDS ScoreFormulas, FiniteSets

VARIABLE input   \* the sub-indices of a score, or a raw score and what it is smoothed with

\* Caution is one-sided: the published composite lies among the layers that are present
\* and is never above their weighted mean; it is below it only with the flag that also
\* costs confidence; and a neutral score made from nothing leaves hardly any confidence.
CautionIsOneSided ==
    input.of = "composite" =>
        LET sub == input.sub
            shown == effective_composite(sub)
        IN  /\ present(sub) # {} =>
                  /\ \E l \in present(sub) : AtMost(Of(sub[l]), shown)
                  /\ \E l \in present(sub) : AtMost(shown, Of(sub[l]))
            /\ AtMost(shown, compute_composite(sub))
            /\ present(sub) \ {"market"} # {} =>
                  /\ \E l \in present(sub) \ {"market"} : AtMost(Of(sub[l]), compute_exo_composite(sub))
                  /\ \E l \in present(sub) \ {"market"} : AtMost(compute_exo_composite(sub), Of(sub[l]))
            /\ ~Equal(shown, compute_composite(sub)) => flag(sub) = "high_divergence"
            /\ present(sub) = {} => compute_confidence(Cardinality(Layers), 0, TRUE, FALSE) <= 20

\* Smoothing does not depend on how often a score is computed: with the same raw score, a
\* gap bridged by one tick or by several ends at the same value, between the two scores.
EmaIsCadenceFree ==
    input.of = "ema" =>
        LET once == compute_ema(input.raw, input.prev, input.j + input.k)
            twice == compute_ema(input.raw, compute_ema(input.raw, input.prev, input.j), input.k)
        IN  /\ Equal(once, twice)
            /\ \/ AtMost(input.raw, once) /\ AtMost(once, input.prev)
               \/ AtMost(input.prev, once) /\ AtMost(once, input.raw)

\* What is published of a composite is honest: cautious on one side only, and smoothed the
\* same however the load spaces the ticks.
ScoreIsHonest == CautionIsOneSided /\ EmaIsCadenceFree
=============================================================================
