------------------------------- MODULE Advice -------------------------------
(***************************************************************************)
(* The advice products: ConciliaIA, Settlement Optimizer, Second Opinion,  *)
(* Early Warning and Demand Forecasting.  Each is a computation on what    *)
(* the client sends or on a series of jurimetria.indicador; two of them    *)
(* record their answer in the Decision Ledger if they can.  Shares are in  *)
(* per cent and means are kept as sums; what the code rounds before it     *)
(* compares is rounded here, and a mean or a distance in floating point    *)
(* may come out on either side of the threshold it is equal to.            *)
(***************************************************************************)
EXTENDS Integers, Sequences, FiniteSets, FiniteSetsExt, SequencesExt, TLC

CONSTANTS Shares,  \* the probabilities that are given, in per cent
          Amounts, \* the amounts and costs
          Volumes, \* the values of a series
          Longest  \* bound of the model: values of a series, samples

\* What the request models accept: a probability is a share, nothing costs less
\* than nothing.
ASSUME AdviceAssumption ==
  /\ Shares \subseteq 0..100 /\ Amounts \subseteq Nat /\ Volumes \subseteq Int
  /\ Longest \in Nat

VARIABLES database, \* whether DATABASE_URL is set
          advice,   \* the answer that was given last: [product, asked, says]
          recorded  \* the entries of the ledger; without a database they are lost

adviceVars == <<database, advice, recorded>>

Missing == -1   \* None
Given(values) == {v \in values : v # Missing}
Signals == Shares \cup {Missing}
NoAdvice == [product |-> "none", asked |-> <<>>, says |-> <<>>]

AdviceInit == database \in BOOLEAN /\ advice = NoAdvice /\ recorded = {}

Clamp(x, low, high) == IF x < low THEN low ELSE IF x > high THEN high ELSE x
Least(a, b) == IF a < b THEN a ELSE b
Provided(s) == FoldLeft(LAMBDA known, x : IF x = Missing THEN known ELSE Append(known, x), <<>>, s)
Total(s) == FoldLeft(LAMBDA a, b : a + b, 0, s)

\* The answer of a product, and its entry: a ledger that fails is passed over.
Say(product, asked, says, hasEntry) ==
  LET given == [product |-> product, asked |-> asked, says |-> says] IN
  /\ advice' = given
  /\ recorded' \in {recorded} \cup IF hasEntry /\ database THEN {recorded \cup {given}} ELSE {}
  /\ UNCHANGED database
-----------------------------------------------------------------------------
(* Settlement Optimizer (settlement_optimizer/optimize.py) *)

\* _blend_prob, in half per cents.
Blend(prob, provimento) ==
  LET signals == Provided(<<prob, provimento>>)
  IN  IF signals = <<>> THEN 100 ELSE (2 * Total(signals)) \div Len(signals)

\* Seeded fault: the costs of the plaintiff are added.
ExpectedAdded(c) ==
  [autor |-> Blend(c.prob, c.provimento) * c.valor + 200 * c.custoAutor,
   reu   |-> Blend(c.prob, c.provimento) * c.valor + 200 * c.custoReu]

\* The expected values of going on, in half per cents of an amount.
Expected(c) ==
  [autor |-> Blend(c.prob, c.provimento) * c.valor - 200 * c.custoAutor,
   reu   |-> Blend(c.prob, c.provimento) * c.valor + 200 * c.custoReu]

\* optimize_settlement; twice the suggestion is kept.
Optimize(c) ==
  LET ev == Expected(c)
      piso == IF ev.autor > 0 THEN ev.autor ELSE 0
      teto == Least(200 * c.valor, ev.reu)
  IN  IF ev.reu >= ev.autor THEN <<"ACORDAR", piso, teto, piso + teto>> ELSE <<"LITIGAR">>
-----------------------------------------------------------------------------
(* Second Opinion (second_opinion/consensus.py) *)

\* _verdict of the mean of n signals whose sum is given, and its rank.
Verdict(sum, n) ==
  IF sum >= 60 * n THEN "FAVORAVEL" ELSE IF sum >= 40 * n THEN "INCERTO" ELSE "DESFAVORAVEL"
Rank(v) == CASE v = "FAVORAVEL" -> 2 [] v = "INCERTO" -> 1 [] v = "DESFAVORAVEL" -> 0

\* In floating point the mean of different signals may come out just below
\* the threshold, and their distance just above it.
Verdicts(sum, n, spread) == {Verdict(sum, n), Verdict(sum - Least(1, spread), n)}
Agreement(spread) == IF spread <= 20 THEN "ALTA" ELSE IF spread <= 40 THEN "MEDIA" ELSE "BAIXA"
Agreements(spread) == {Agreement(spread), Agreement(spread + Least(1, spread))}

\* Seeded fault: a missing signal counts.
SynthesizeAll(signals) ==
  LET given == Provided(signals)
  IN  {IF given = <<>> THEN <<"sem_sinais">>
       ELSE <<Verdict(Total(given), Len(signals)), "UNICO_SINAL">>}

\* synthesize_opinion: the verdict, and how far the signals agree.
Synthesize(signals) ==
  LET given == Provided(signals)
      spread == Max(Range(given)) - Min(Range(given))
  IN  IF given = <<>> THEN {<<"sem_sinais">>}
      ELSE Verdicts(Total(given), Len(given), spread) \X
           (IF Len(given) = 1 THEN {"UNICO_SINAL"} ELSE Agreements(spread))
-----------------------------------------------------------------------------
(* ConciliaIA (concilia/recommender.py) *)

BasePct(tipo) ==
  CASE tipo = "TRABALHISTA" -> 55 [] tipo = "CIVEL" -> 45 [] tipo = "TRIBUTARIO" -> 35
    [] tipo = "PREVIDENCIARIO" -> 65 [] tipo = "ADMINISTRATIVO" -> 40 [] tipo = "CONSUMERISTA" -> 50
Tipos == {"TRABALHISTA", "CIVEL", "TRIBUTARIO", "PREVIDENCIARIO", "ADMINISTRATIVO", "CONSUMERISTA"}
Materias == {"PIS_COFINS", "IRPJ", "CSLL", "ICMS", "IPI", "ISS", "SIMPLES"}

\* Seeded fault: tax cases are asked about under a matter there is.
ProbabilityOfTax(tipo, prob) == IF tipo = "TRIBUTARIO" THEN prob ELSE Missing

\* _get_taxpredict asks with the type of the action as the matter, which
\* Materia refuses; a matter it took would be predicted as "prob".
Probability(tipo, prob) == IF tipo \in Materias THEN prob ELSE Missing

\* valor_minimo, valor_sugerido and valor_maximo, in 1/20000 of an amount.
SettlementRange(valor, pct) ==
  <<pct * valor * 70, pct * valor * 100, Least(valor * 20000, pct * valor * 130)>>

\* recommend_settlement, in half per cents; score:{cnpj} is written by no
\* component, and so risk_score_reu is None.
Recommend(tipo, valor, prob) ==
  LET known == Probability(tipo, prob)
      pct == IF known = Missing THEN 2 * BasePct(tipo) ELSE BasePct(tipo) + known
  IN  SettlementRange(valor, Clamp(pct, 10, 190))
-----------------------------------------------------------------------------
(* Early Warning (early_warning/detect.py) *)

Squares(s) == FoldLeft(LAMBDA a, b : a + b * b, 0, s)

\* Seeded fault: the distance to the mean has lost its sign.
ExceedsEitherWay(h, x, k) ==
  LET n == Len(h)
      above == n * x - Total(h)
      var == n * Squares(h) - Total(h) * Total(h)
  IN  var > 0 /\ above * above >= k * k * var

\* z >= k for the last value x after history h: no z without a deviation.
Exceeds(h, x, k) ==
  LET n == Len(h)
      above == n * x - Total(h)
      var == n * Squares(h) - Total(h) * Total(h)
  IN  var > 0 /\ above > 0 /\ above * above >= k * k * var

\* detect_surges on a series: 0 for no trigger, 1 for MEDIUM, 2 HIGH, 3 CRITICAL.
Severity(h, x) ==
  IF Len(h) < 2 THEN 0
  ELSE IF Exceeds(h, x, 4) THEN 3 ELSE IF Exceeds(h, x, 3) THEN 2
  ELSE IF Exceeds(h, x, 2) \/ (Last(h) > 0 /\ 2 * (x - Last(h)) >= Last(h)) THEN 1 ELSE 0

\* PICO_CONGESTIONAMENTO.
Congested(taxa) == IF taxa >= 85 THEN 2 ELSE IF taxa >= 70 THEN 1 ELSE 0
-----------------------------------------------------------------------------
(* Demand Forecasting (forecasting/forecast.py) *)

\* Seeded fault: the middle of 0..n-1 is taken for that of 0..n.
SlopeShifted(s) == FoldLeftDomain(LAMBDA a, i : a + (2 * (i - 1) - Len(s)) * s[i], 0, s)

\* The slope of the least squares line, up to a positive factor.
Slope(s) == FoldLeftDomain(LAMBDA a, i : a + (2 * (i - 1) - (Len(s) - 1)) * s[i], 0, s)

Trend(s) ==
  IF Len(s) < 3 THEN "insuficiente"
  ELSE IF Slope(s) > 0 THEN "CRESCENTE" ELSE IF Slope(s) < 0 THEN "DECRESCENTE" ELSE "ESTAVEL"
-----------------------------------------------------------------------------
(* The area under the ROC curve (scoring/validation.py), times the number  *)
(* of pairs.  The samples are sorted by score and, where it is equal, by   *)
(* label, both falling.                                                    *)

\* Seeded fault: the label does not break a tie.
OrderStable(a, b) == a[1] > b[1] \/ (a[1] = b[1] /\ a[2] <= b[2])

Order(a, b) == a[1] > b[1] \/ (a[1] = b[1] /\ a[2] >= b[2])

\* sorted: the samples in that order.
InOrder(s) ==
  LET place == CHOOSE p \in Bijection(DOMAIN s, DOMAIN s) :
                 \A i, j \in DOMAIN s : i < j => Order(s[p[i]], s[p[j]])
  IN  [i \in DOMAIN s |-> s[place[i]]]

\* compute_auc: for every negative sample, the positive ones before it.
Auc(samples) ==
  FoldLeft(LAMBDA acc, p : IF p[2] = 1 THEN [acc EXCEPT !.tp = @ + 1]
                           ELSE [acc EXCEPT !.auc = @ + acc.tp],
           [tp |-> 0, auc |-> 0], InOrder(samples)).auc
-----------------------------------------------------------------------------
Lawsuit == [valor : Amounts, prob : Signals, provimento : Signals,
            custoAutor : Amounts, custoReu : Amounts]
SignalLists == Signals \X Signals \X Signals
SeriesOf(n) == [1..n -> Volumes]
SamplesOf(n) == [1..n -> {1, 2, 3} \X {0, 1}]

AskOptimize(c) == Say("settlement-optimizer", c, Optimize(c), TRUE)
AskOpinion(signals) ==
  \E opinion \in Synthesize(signals) : Say("second-opinion", signals, opinion, TRUE)
AskRecommend(tipo, valor, prob) ==
  Say("concilia", <<tipo, valor, prob>>, Recommend(tipo, valor, prob), FALSE)
AskEarlyWarning(s, taxa) ==
  Say("early-warning", s, <<Severity(Front(s), Last(s)), Congested(taxa)>>, FALSE)
AskForecast(s) == Say("forecasting", s, <<Trend(s)>>, FALSE)
Validate(samples) ==
  /\ Cardinality({s[2] : s \in Range(samples)}) = 2   \* else ValueError
  /\ Say("validation", samples, <<Auc(samples)>>, FALSE)

\* Bound of the model: one request, so that the ledger has one entry.
AdviceNext ==
  /\ advice.product = "none"
  /\ \/ \E c \in Lawsuit : AskOptimize(c)
     \/ \E signals \in SignalLists : AskOpinion(signals)
     \/ \E t \in Tipos, v \in Amounts, p \in Signals : AskRecommend(t, v, p)
     \/ \E n \in 1..Longest : \E s \in SeriesOf(n) :
          AskForecast(s) \/ \E taxa \in Shares : AskEarlyWarning(s, taxa)
     \/ \E n \in 1..Longest : \E samples \in SamplesOf(n) : Validate(samples)

AdviceSpec == AdviceInit /\ [][AdviceNext]_adviceVars
-----------------------------------------------------------------------------
(* Properties *)

Says(product) == advice.product = product

(* A settlement is suggested to both or to none: the suggestion lies       *)
(* between what the plaintiff expects to get and the defendant to lose,    *)
(* and within the value of the case (optimize.py 12-14).                   *)
SettlementIsRational ==
  Says("settlement-optimizer") =>
    LET c == advice.asked
        p == Blend(c.prob, c.provimento)
    IN  /\ advice.says[1] = "ACORDAR"
        /\ advice.says[4] >= 2 * (p * c.valor - 200 * c.custoAutor)
        /\ advice.says[4] <= 2 * (p * c.valor + 200 * c.custoReu)
        /\ advice.says[4] \in 0..400 * c.valor

(* The verdict on several signals is never better than the best of their   *)
(* own verdicts nor worse than the worst (consensus.py 52-57).             *)
OpinionWithinSignals ==
  Says("second-opinion") /\ advice.says # <<"sem_sinais">> =>
    LET own == {Rank(Verdict(s, 1)) : s \in Given(Range(advice.asked))}
    IN  Rank(advice.says[1]) \in Min(own)..Max(own)

(* Whatever TaxPredict would say of a case, ConciliaIA recommends the      *)
(* range of the prior of its type, ordered and within the value of the     *)
(* case (concilia.py 23-43, recommender.py 79-82).  The endpoint promises  *)
(* more, a range from "prior histórico, probabilidade TaxPredict e risco   *)
(* LegalScore do réu" (concilia.py 106-107, recommender.py 4-6,            *)
(* contracts/concilia.py 6-7): what the property states is that neither    *)
(* of the two can take part, as the first is asked for under no matter     *)
(* there is and the second is never stored.                                *)
ConciliaIsPrior ==
  Says("concilia") =>
    LET valor == advice.asked[2]
    IN  /\ advice.says[2] = 200 * BasePct(advice.asked[1]) * valor
        /\ advice.says[1] <= advice.says[2] /\ advice.says[2] <= advice.says[3]
        /\ advice.says[3] <= 20000 * valor

(* More volume after the same history never lowers the severity, and a     *)
(* history without deviation never gives more than MEDIUM (detect.py 51-60). *)
SeverityFollowsVolume ==
  Says("early-warning") =>
    LET h == Front(advice.asked)
        x == Last(advice.asked)
    IN  /\ \A y \in Volumes : y >= x => Severity(h, y) >= Severity(h, x)
        /\ Cardinality(Range(h)) = 1 => Severity(h, x) <= 1

(* A series that never falls is forecast to grow, one that never rises to  *)
(* shrink, and a constant one to stay (forecast.py 45-63).                 *)
TrendFollowsSeries ==
  Says("forecasting") /\ Len(advice.asked) >= 3 =>
    LET s == advice.asked
        rises == \A i \in 2..Len(s) : s[i] >= s[i - 1]
        falls == \A i \in 2..Len(s) : s[i] <= s[i - 1]
    IN  /\ rises /\ ~falls => advice.says[1] = "CRESCENTE"
        /\ falls /\ ~rises => advice.says[1] = "DECRESCENTE"
        /\ rises /\ falls => advice.says[1] = "ESTAVEL"

(* compute_auc counts the pairs in which the positive sample does not have *)
(* the lower score (validation.py 70-87).  A tie counts as won, where the  *)
(* "AUC-ROC (área sob a curva ROC)" that the function is said to compute   *)
(* (validation.py 54) counts it as half: with ties the result is an upper  *)
(* bound of that area, and the area itself without them.                   *)
AucCountsPairs ==
  Says("validation") =>
    LET s == advice.asked
    IN  advice.says[1] = Cardinality({p \in (DOMAIN s) \X (DOMAIN s) :
          s[p[1]][2] = 1 /\ s[p[2]][2] = 0 /\ s[p[1]][1] >= s[p[2]][1]})

(* No answer contradicts what it was made from: neither a settlement, an   *)
(* opinion, a recommendation, an alert, a trend nor an area.               *)
AdviceSound ==
  /\ SettlementIsRational /\ OpinionWithinSignals /\ ConciliaIsPrior
  /\ SeverityFollowsVolume /\ TrendFollowsSeries /\ AucCountsPairs
=============================================================================
