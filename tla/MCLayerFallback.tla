--------------------------- MODULE MCLayerFallback ---------------------------
(***************************************************************************)
(* Instances of LayerFallback, and properties of the formulas over grids   *)
(* of inputs.  A slot stands for half an hour, in a session of four and a  *)
(* day of eight, with a day off between the second session and the third.  *)
(***************************************************************************)
EXTENDS LayerFallback, SignalScorers, ScoreHonesty

DaySlots == 8
Calendar == {[open |-> d * DaySlots + 2, close |-> d * DaySlots + 6] : d \in {-1, 0, 2}}

Ages == [returns |-> 3, momentum |-> 2, order_flow |-> 1, liquidity |-> 1, short_volume |-> 0,
         volume |-> 3]
Lookbacks == [narrative |-> 1, influencer |-> 2, macro |-> 3]
Windows == [narrative |-> 3, influencer |-> 4, macro |-> 3]
Thresholds == [market |-> 3, news |-> 1, analyst |-> 2, insider |-> 4, macro |-> 3]

\* From the end of a session over the day off and the next session, and from the day off.
Delivered(K, t) == [kinds |-> K, from |-> t]
SomeKinds ==
    {Delivered({"returns", "short_volume"}, 5),
     Delivered({"momentum", "liquidity", "order_flow", "volume"}, 14),
     Delivered(Articles, 14),
     Delivered({"target", "returns"}, 14),
     Delivered({"target", "insider_trade"}, 14),
     Delivered({"consensus", "estimate", "revision"}, 18),
     Delivered(Indicators, 14)}

-----------------------------------------------------------------------------
(* The formulas: a behaviour either is one of LayerFallback, or it stops   *)
(* at an initial state with one input of a formula, whose result the       *)
(* invariants of ScoreHonesty and those below judge.                       *)

Grid == {0, 29, 30, 60, 85, 86, 100}
Scores == {Of(n) : n \in Grid} \cup {Quotient(145, 3), Quotient(172, 3)}
Histories == UNION {[1 .. n -> {-60, 0, 8}] : n \in 0 .. 3}
SomeSignals == [type : {"vix", "rsi_14"}, score : {20, 50, 70}, weight : {0, 1, 2}]

NoInput == [of |-> "nothing"]
Inputs ==
         [of : {"composite"}, sub : [Layers -> Grid \cup {None}]]
    \cup [of : {"ema"}, raw : Scores, prev : Scores \cup {Of(None)}, j : 0 .. 3, k : 0 .. 3]
    \cup [of : {"scorer"}, type : SignalTypes \cup {"analyst_target_price"}, history : Histories, low : {-61, 0, 3}, high : {4, 9, 70}]
    \cup [of : {"drivers"}, sigs : UNION {[1 .. n -> SomeSignals] : n \in 0 .. 3}, top_n : 1 .. 2]

MCInit ==
    /\ Init
    /\ \/ input = NoInput
       \/ fed = Indicators /\ input \in Inputs

MCNext == input = NoInput /\ Next /\ UNCHANGED input

MCSpec == MCInit /\ [][MCNext]_<<vars, input>>

\* What the scorers of the layers make of one row of a type, with its history in the
\* table and, under the other keys, one that runs the other way.
SignalsOf(t, history, v) ==
    LET type == IF t = "earnings_estimate_revision" THEN "analyst_eps_estimate_mean" ELSE t
        key == IF t \in _MACRO_GLOBAL_TYPES THEN "_MACRO_"
               ELSE IF t = "sector_etf_return_20d" THEN "XLK" ELSE "T"
        stored == [k \in {"T", "_MACRO_", "XLK", "XLE"} \X {type} |->
                      IF k[1] = key THEN Append(history, v) ELSE <<90, -90>>]
        raw == <<[type |-> type, value |-> v]>>
        c == [window |-> 3, min_obs |-> 2, estimates |-> 9]
    IN  CASE t \in _MACRO_GLOBAL_TYPES \cup {"sector_etf_return_20d"} ->
                score_macro_signals("technology", raw, stored, c)
          [] t \in DOMAIN _COMPONENT_TYPES -> score_market_signals("T", raw, stored, c)
          [] OTHER -> score_influencer_signals("T", raw, stored, 3, c)

\* A signal that is bullish when it rises is so by its curve and against its history alike,
\* so that the day a history is long enough does not turn the signal round, be it scored
\* by its distance from the price, by its revision of a loss, or against the history of
\* another key than the ticker; and each sub-index that it enters follows it in that
\* direction - but for the RSI, whose score is contrarian while the market layer follows
\* its momentum.
SignalsKeepTheirDirection ==
    input.of = "scorer" =>
        \A lows \in {SignalsOf(input.type, input.history, input.low)},
           highs \in {SignalsOf(input.type, input.history, input.high)} :
        LET t == input.type
            bullish == t = "analyst_target_price" \/ _SIMPLE_SCORERS[t].rise > 0
            Other(o) == [type |-> o, value |-> 1, score |-> 20, weight |-> 1]
            market == Other(IF t = "volume_ratio" THEN "return_1d" ELSE "volume_ratio")
            Follows(up, p, q) == IF up THEN AtMost(p, q) ELSE AtMost(q, p)
            Rises(p, q) == Follows(bullish, p, q)
        IN  /\ Len(lows) = Len(highs) /\ (lows = <<>> => t = "earnings_estimate_revision")
            /\ \A i \in DOMAIN lows :
                  LET low == lows[i]
                      high == highs[i]
                  IN  /\ Rises(Of(low.score), Of(high.score))
                      /\ Rises(compute_sub_index(<<low, Other("vix")>>), compute_sub_index(<<high, Other("vix")>>))
                      /\ t \in DOMAIN _MACRO_SIGNAL_WEIGHTS =>
                            Rises(compute_macro_sub_index(<<low, Other("vix")>>),
                                  compute_macro_sub_index(<<high, Other("vix")>>))
                      /\ t \in DOMAIN _COMPONENT_TYPES =>
                            Follows(t = "rsi_14" \/ bullish,
                                    compute_market_sub_index(<<low, market>>),
                                    compute_market_sub_index(<<high, market>>))

\* The drivers are the strongest signal of each type, strongest first, and nothing that
\* is left out is stronger than the last one shown.
DriversAreStrongest ==
    input.of = "drivers" =>
        LET sigs == input.sigs
            shown == extract_drivers(sigs, input.top_n)
            types == {sigs[i].type : i \in {j \in DOMAIN sigs : sigs[j].weight > 0}}
        IN  /\ Len(shown) = Min({input.top_n, Cardinality(types)})
            /\ \A i, j \in DOMAIN shown : i < j =>
                  shown[i].type # shown[j].type /\ Importance(shown[i]) >= Importance(shown[j])
            /\ \A i \in DOMAIN shown, s \in Range(sigs) :
                  (s.type = shown[i].type \/ \A j \in DOMAIN shown : shown[j].type # s.type)
                     => Importance(s) <= Importance(shown[i])

=============================================================================
