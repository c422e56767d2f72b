----------------------------- MODULE MCResearch -----------------------------
(***************************************************************************)
(* The computations behind a forecast, on one small instance: whatever is  *)
(* analysed, one component works and the others rest, as in the commands   *)
(* that call them: they share no state, and each has a variable of its own.*)
(***************************************************************************)
EXTENDS WalkForward, IsotonicFit, CalibrationLibrary, MCEnsemble, Evaluation,
        PatternScan, ShippedPanel, WeightLearning, Validation, MarketState, AlertRules, Throttle,
        NewsStories, NewsImpact, TLC

VARIABLE working  \* the component at work

Init ==
    /\ working \in {"study", "fit", "library", "ensemble", "evaluation", "scan",
                    "panel", "learned", "validation", "market", "desk", "throttle", "news",
                    "impact"}
    /\ StudyInit /\ FitInit /\ LibraryInit /\ EnsembleInit /\ EvaluationInit
    /\ ScanInit /\ PanelInit /\ LearningInit /\ ValidationInit /\ MarketInit /\ AlertInit
    /\ ThrottleInit /\ NewsInit /\ ImpactInit

Next ==
    \/ /\ working = "study" /\ StudyNext
       /\ UNCHANGED <<working, fit, library, ensemble, evaluation, scan, panel, learned,
                      validation, market, desk, throttleVars, news, impact>>
    \/ /\ working = "fit" /\ FitNext
       /\ UNCHANGED <<working, study, library, ensemble, evaluation, scan, panel,
                      learned, validation, market, desk, throttleVars, news, impact>>
    \/ /\ working = "library" /\ LibraryNext
       /\ UNCHANGED <<working, study, fit, ensemble, evaluation, scan, panel, learned,
                      validation, market, desk, throttleVars, news, impact>>
    \/ /\ working = "ensemble" /\ EnsembleNext
       /\ UNCHANGED <<working, study, fit, library, evaluation, scan, panel, learned,
                      validation, market, desk, throttleVars, news, impact>>
    \/ /\ working = "evaluation" /\ EvaluationNext
       /\ UNCHANGED <<working, study, fit, library, ensemble, scan, panel, learned,
                      validation, market, desk, throttleVars, news, impact>>
    \/ /\ working = "scan" /\ ScanNext
       /\ UNCHANGED <<working, study, fit, library, ensemble, evaluation, panel, learned,
                      validation, market, desk, throttleVars, news, impact>>
    \/ /\ working = "panel" /\ PanelNext
       /\ UNCHANGED <<working, study, fit, library, ensemble, evaluation, scan, learned,
                      validation, market, desk, throttleVars, news, impact>>
    \/ /\ working = "learned" /\ LearningNext
       /\ UNCHANGED <<working, study, fit, library, ensemble, evaluation, scan, panel,
                      validation, market, desk, throttleVars, news, impact>>
    \/ /\ working = "validation" /\ ValidationNext
       /\ UNCHANGED <<working, study, fit, library, ensemble, evaluation, scan, panel,
                      learned, market, desk, throttleVars, news, impact>>
    \/ /\ working = "market" /\ MarketNext
       /\ UNCHANGED <<working, study, fit, library, ensemble, evaluation, scan, panel,
                      learned, validation, desk, throttleVars, news, impact>>
    \/ /\ working = "desk" /\ AlertNext
       /\ UNCHANGED <<working, study, fit, library, ensemble, evaluation, scan, panel,
                      learned, validation, market, throttleVars, news, impact>>
    \/ /\ working = "throttle" /\ ThrottleNext
       /\ UNCHANGED <<working, study, fit, library, ensemble, evaluation, scan, panel,
                      learned, validation, market, desk, news, impact>>
    \/ /\ working = "news" /\ NewsNext
       /\ UNCHANGED <<working, study, fit, library, ensemble, evaluation, scan, panel,
                      learned, validation, market, desk, throttleVars, impact>>
    \/ /\ working = "impact" /\ ImpactNext
       /\ UNCHANGED <<working, study, fit, library, ensemble, evaluation, scan, panel,
                      learned, validation, market, desk, throttleVars, news>>

vars ==
    <<working, study, fit, library, ensemble, evaluation, scan, panel, learned,
      validation, market, desk, throttleVars, news, impact>>

Spec == Init /\ [][Next]_vars

-----------------------------------------------------------------------------
(* Walk-forward studies.                                                   *)

MCRequests ==
    [bars : {12, 13}, horizon : {1, 4}, folds : {0, 1, 3}, warmup : {0, 2}, minTrain : {0, 2},
     minTest : {1}, scheme : Schemes, step : {1, 2}]

ReaderOf(kinds, heeds, peek, fails) ==
    [kinds |-> kinds, heeds |-> heeds, peek |-> peek, fails |-> fails]

MCAppetites ==
    {ReaderOf({}, {}, 0, {}), ReaderOf({"candle"}, {"candle"}, 0, {}),
     ReaderOf({"candle"}, {"candle"}, 2, {}), ReaderOf({"candle"}, {"candle"}, 2, 0 .. 12),
     ReaderOf({"candle", "news"}, {"news"}, 2, {}), ReaderOf({"peer"}, {"peer"}, 2, {3}),
     ReaderOf({"feature"}, {"feature"}, 2, {}), ReaderOf({"feature", "news"}, {"feature"}, 4, {}),
     ReaderOf({"funding"}, {"funding"}, 2, {})}

(* The panel of the eight shipped families.                                *)

VectorsHeld(v, l, n) == [vectors |-> v, levels |-> l, analogues |-> n]

MCHeld ==
    {VectorsHeld(0, "none", FALSE), VectorsHeld(1, "close", FALSE), VectorsHeld(1, "all", FALSE),
     VectorsHeld(400, "some", TRUE), VectorsHeld(400, "all", FALSE), VectorsHeld(400, "all", TRUE)}

MCSituations ==
    {s \in {[bars |-> n, vectors |-> v.vectors, levels |-> v.levels, analogues |-> v.analogues,
             news |-> w, peers |-> p, rates |-> 60, z |-> z, varied |-> TRUE, patterns |-> r] :
                n \in {120, 400}, v \in MCHeld, w \in {"weightless", "weighty"}, p \in {5, 400},
                z \in {0, -20}, r \in {"unmeasured", "proven"}} :
        /\ s.patterns = "proven" => s.levels = "some" /\ s.peers = 400
        /\ s.bars = 120 => s.z = 0 /\ s.peers = 5}

MCLeanings == {-20, 20}

(* Patterns: rises, falls and bars that turn inside them.                  *)

MCSpan ==
    [lookback |-> 2, brief |-> 1, short |-> 2, range |-> 3, norm |-> 4, quiet |-> 5, fast |-> 2,
     slow |-> 3, ranging |-> 3, settled |-> 4, side |-> 1, swings |-> 6, rsi |-> 1, turn |-> 2,
     structure |-> 8]

BarOf(o, h, l, k, v, r) == [open |-> o, high |-> h, low |-> l, close |-> k, volume |-> v, rsi |-> r]

Rises == {BarOf(102, 110, 101, 108, 10, 75), BarOf(102, 114, 101, 106, 10, 60)}
Falls == {BarOf(108, 109, 100, 101, 10, 40), BarOf(108, 109, 94, 95, 30, 20)}
Turns ==
    {BarOf(103, 104, 102, 103, 10, 50), BarOf(103, 125, 90, 104, 20, 25),
     BarOf(104, 130, 103, 129, 40, 85)}

MCMarketMoves ==
    [n \in 1 .. 9 |->
        CASE n = 1 -> {BarOf(108, 109, 100, 101, 10, 40)}
          [] n = 9 -> Rises \cup Falls \cup Turns
          [] n = 6 -> Rises \cup Turns
          [] OTHER -> IF n % 2 = 0 THEN Rises ELSE Falls]

MCRegimeAt == <<"calm", "wild", "calm">>
MCMarketCloses == <<100, 100, 300, 100, 120>>

(* Timeframes: a market strongly, weakly or wildly up or down, and vectors *)
(* that say almost nothing.                                                *)

Strong(k) ==
    "close" :> 100 @@ "ema_21" :> 100 - 5 * k @@ "sma_50" :> 100 - 8 * k
        @@ "sma_200" :> 100 - 12 * k @@ "adx" :> 45 @@ "plus_di" :> 20 + 10 * k
        @@ "minus_di" :> 20 - 10 * k @@ "rsi" :> 50 + 20 * k @@ "macd" :> k @@ "signal" :> 0
        @@ "histogram" :> 6 * k @@ "roc" :> 60 * k @@ "stoch" :> 50 + 40 * k
        @@ "structure_trend" :> k @@ "percent_b" :> 50 + 60 * k @@ "obv_change" :> 200 * k
        @@ "volume" :> 10 @@ "change" :> 30 * k

Weak(k) ==
    "close" :> 100 @@ "ema_21" :> 100 - k @@ "sma_50" :> 100 - 2 * k @@ "rsi" :> 50 + 6 * k
        @@ "roc" :> 10 * k @@ "vol" :> 30 @@ "vwap_distance" :> 12 * k

Wild(k) ==
    "close" :> 100 @@ "rsi" :> 50 + 28 * k @@ "vol" :> 200 @@ "adx" :> 45 @@ "roc" :> 60 * k
        @@ "stoch" :> 50 + 30 * k @@ "support" :> 90 @@ "resistance" :> 95

MCVectors ==
    {Strong(1), Strong(-1), Weak(2), Weak(-2), Wild(1), Wild(-1), <<>>,
     "close" :> 100 @@ "support" :> 50,
     "close" :> 100 @@ "sma_200" :> 20 @@ "obv_change" :> -20 @@ "volume" :> 3}

(* Alerts: a context in which much may be wrong beside a loud one.         *)

NoPanel ==
    [published |-> FALSE, passed |-> FALSE, split |-> FALSE, participants |-> 0, consensus |-> 0,
     outcome |-> "up", confidence |-> 0, invalidation |-> {}]

Spoken ==
    [published : {TRUE}, passed : BOOLEAN, split : {FALSE}, participants : {7}, consensus : {90},
     outcome : {"up"}, confidence : {0, 60}, invalidation : {{}, {"below 90"}}]

Quiet ==
    [asset |-> "btc", bars |-> 400, quality |-> 100, calls |-> {}, price |-> 100,
     panel |-> NoPanel, regime |-> "calm", previous |-> "calm",
     peers |-> [p \in {"eth"} |-> [baseline |-> 80, now |-> 75]],
     interest |-> [points |-> 0, drop |-> 0, move |-> 0],
     volume |-> [bars |-> 200, z |-> 10], ratio |-> 100, news |-> {}]

Noisy ==
    [Quiet EXCEPT !.asset = "eth", !.volume.z = 60, !.ratio = 40,
        !.news = {[story |-> "hack", importance |-> 90], [story |-> "rumour", importance |-> 30]}]

Troubled ==
    {[Quiet EXCEPT !.panel = p, !.regime = IF falsified THEN "wild" ELSE "none",
        !.calls = {k \in {[direction |-> "up", level |-> 110], [direction |-> "down", level |-> 120]} :
                      falsified},
        !.quality = IF thin THEN 60 ELSE 100,
        !.interest = [points |-> IF thin THEN 6 ELSE 0, drop |-> 50, move |-> 30],
        !.peers = [q \in {"eth"} |-> [baseline |-> 80, now |-> m]]] :
            p \in {NoPanel} \cup Spoken
                    \cup {[NoPanel EXCEPT !.split = TRUE, !.participants = n] : n \in {2, 5}},
            falsified \in BOOLEAN, thin \in BOOLEAN, m \in {10, 70}}

MCWatches == {{t, Noisy} : t \in Troubled} \cup {{[Noisy EXCEPT !.bars = 120]}}

(* News: a story, its rewrite and a headline that both may draw in.         *)

MCWords == "hack" :> {"dalio", "owns"} @@ "rewrite" :> {"dalio", "owns", "fund"} @@ "follow" :> {"fund"}
MCOutlets == <<"wire", "blog">>
MCLogs == <<0, 69, 110, 139, 161, 179, 195, 208>>

CopyOf(o, h, n) == [outlet |-> o, headline |-> h, ahead |-> n]
MCCopies == {CopyOf(1, "hack", 0), CopyOf(2, "rewrite", 0), CopyOf(1, "follow", 1)}

MCOutages == {{}, {4, 5}}
=============================================================================
