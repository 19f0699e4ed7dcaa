----------------------------- MODULE ScoreEngine -----------------------------
(***************************************************************************)
(* The score of a company: the features that the caches of the ingestions  *)
(* hold (services/scoring/features.py), the engine in Python, and the      *)
(* crate in Rust with its fallback (services/scoring/engine).  What was    *)
(* read of a source is "absent", "broken" or a number; the Receita has a   *)
(* CNAE too, which a request to the engine names by two digits.            *)
(***************************************************************************)
EXTENDS Integers

CONSTANTS Debts, Capitals, Suits, \* what a source may say, in points of the score
          DigitSum \* of the CNPJ

\* Every feature is at least 0, and so is its weight.
ASSUME EngineAssumption ==
  Debts \subseteq Nat /\ Capitals \subseteq Nat /\ Suits \subseteq Nat /\ DigitSum \in Nat

VARIABLES backend, \* SCORING_BACKEND
          native,  \* rust_scorer: [probe, call], how it answers the probe and a request
          sources, \* sources[s]: what the cache of a source holds
          scored   \* the last answer: [status, score, lo, hi, level, engine, missing]

engineVars == <<backend, native, sources, scored>>

Sources == {"PGFN", "RECEITA", "DATAJUD"}
NoAnswer == -1
Broken == -2   \* it cannot be read, or decoded
LetterCnae == -3 \* the cnae_fiscal of the record does not begin with two digits
NumberCnae == -4 \* or it is a number, not a text
Held(s) == CASE s = "PGFN" -> Debts [] s = "RECEITA" -> Capitals [] s = "DATAJUD" -> Suits
Kept(s) ==
  Held(s) \cup {NoAnswer, Broken} \cup (IF s = "RECEITA" THEN {LetterCnae, NumberCnae} ELSE {})
Unscored == [status |-> 0]
NoCrate == [probe |-> FALSE, call |-> "raises"]
Crates == [probe : BOOLEAN, call : {"good", "raises", "keyless", "wild"}]

EngineInit ==
  /\ backend \in {"auto", "python", "rust"} /\ native = NoCrate
  /\ sources = [s \in Sources |-> NoAnswer] /\ scored = Unscored

\* An ingestion stores its record, or the record expires.
Refresh(s) ==
  /\ sources' \in {[sources EXCEPT ![s] = x] : x \in Kept(s)}
  /\ UNCHANGED <<backend, native, scored>>
-----------------------------------------------------------------------------
\* A company without processes has no DATAJUD either.
IsMissing(held, s) == held[s] \in {NoAnswer, Broken} \/ (s = "DATAJUD" /\ held[s] = 0)

\* Seeded fault: a source that is missing is taken for an average one.
FeatureImputed(held, s) == IF IsMissing(held, s) THEN 300 ELSE held[s]

\* assemble_features: a source that is missing counts for nothing.
Feature(held, s) == IF IsMissing(held, s) THEN 0 ELSE held[s]

Clip(x) == IF x < 0 THEN 0 ELSE IF x > 1000 THEN 1000 ELSE x

\* intercept, and the features with the weight of _default_coefficients.
Raw(held) ==
  300 + Feature(held, "PGFN") + Feature(held, "RECEITA") + Feature(held, "DATAJUD")

Level(score) ==
  IF score >= 800 THEN "BAIXO" ELSE IF score >= 600 THEN "MODERADO"
  ELSE IF score >= 400 THEN "ALTO" ELSE "CRITICO"
RiskOf(level) ==
  CASE level = "CRITICO" -> 3 [] level = "ALTO" -> 2 [] level = "MODERADO" -> 1 [] level = "BAIXO" -> 0

\* ScoreResult refuses these with a ValueError, which no engine turns into
\* ScoringUnavailable.
Refused(score, lo, hi) == score \notin 0..1000 \/ lo > hi
Result(held, score, lo, hi, engine) ==
  IF Refused(score, lo, hi) THEN [status |-> 500]
  ELSE [status |-> 200, score |-> score, lo |-> lo, hi |-> hi, level |-> Level(score),
        engine |-> engine, missing |-> {s \in Sources : IsMissing(held, s)}]

Sigma == 78  \* 1.96 sigma

\* Seeded fault: the interval is taken around the score before it is clipped.
IntervalOfRaw(held) ==
  <<IF Raw(held) < Sigma THEN 0 ELSE Raw(held) - Sigma,
    IF Raw(held) + Sigma > 1000 THEN 1000 ELSE Raw(held) + Sigma>>

Interval(held) == <<Clip(Clip(Raw(held)) - Sigma), Clip(Clip(Raw(held)) + Sigma)>>

PythonScore(held) ==
  Result(held, Clip(Raw(held)), Interval(held)[1], Interval(held)[2], "python")

\* RustScoreEngine: what an exception of the crate becomes, and what it does
\* not; a crate that answers may answer anything.
RustScores(held) ==
  CASE native.call = "raises" -> {[status |-> 503]}
    [] native.call = "keyless" -> {[status |-> 500]}
    [] native.call = "good" -> {Result(held, Clip(Raw(held)), Clip(Raw(held)), Clip(Raw(held)), "rust")}
    [] native.call = "wild" -> {Result(held, x, 0, z, "rust") : x, z \in {-1, 500, 1001}}

\* Seeded fault: the crate is trusted once its probe has answered.
WithoutFallback(held) == RustScores(held)

\* _FallbackEngine.
WithFallback(held) ==
  {IF r.status = 503 THEN PythonScore(held) ELSE r : r \in RustScores(held)}

\* _stub_score: of the digits of the CNPJ alone, and no source is told missing.
StubScore ==
  LET score == 300 + (DigitSum % 400)
  IN  [status |-> 200, score |-> score, lo |-> Clip(score - Sigma), hi |-> Clip(score + Sigma),
       level |-> Level(score), engine |-> "python", missing |-> {}]

\* There is a vector of features, and a request to the engine can be made of it.
Scorable(held) == held["RECEITA"] \notin {LetterCnae, NumberCnae}

\* get_score_engine, which probes the crate for every request with an input
\* of its own; what becomes of a CNAE that cannot be sliced (assemble_features
\* raises, which is caught) or that the request refuses (which is not); and
\* the call of score.
EngineAnswers(held) ==
  IF backend = "rust" /\ ~native.probe THEN {[status |-> 503]}
  ELSE IF held["RECEITA"] = NumberCnae THEN {StubScore}
  ELSE IF held["RECEITA"] = LetterCnae THEN {[status |-> 500]}
  ELSE IF native.probe /\ backend # "python" THEN WithFallback(held)
  ELSE {PythonScore(held)}

Score ==
  /\ scored' \in EngineAnswers(sources)
  /\ UNCHANGED <<backend, native, sources>>

Build ==
  /\ native' \in Crates
  /\ UNCHANGED <<backend, sources, scored>>

EngineNext == Score \/ Build \/ \E s \in Sources : Refresh(s)

EngineSpec == EngineInit /\ [][EngineNext]_engineVars
-----------------------------------------------------------------------------
(* Properties *)

(* The engine in Python answers whatever is asked of it, with a score      *)
(* inside its interval and both on the scale (engines.py 73-87).           *)
PythonAlwaysAnswers ==
  LET r == PythonScore(sources)
  IN  Scorable(sources) =>
        r.status = 200 /\ 0 <= r.lo /\ r.lo <= r.score /\ r.score <= r.hi /\ r.hi <= 1000

(* With the weights there are, all of them 1, a company never looks safer  *)
(* than it did for a source that is missing: a debt or a lawsuit that      *)
(* becomes known raises the score, and the higher score is the lower risk  *)
(* (features.py 56-93, engines.py 54-59).  The example of the endpoint     *)
(* (legalscore.py 104-105) has them lower it: the model has the code's     *)
(* weights, which it calls a placeholder.                                  *)
MissingNeverFlatters ==
  Scorable(sources) =>
    \A s \in Sources :
      RiskOf(PythonScore([sources EXCEPT ![s] = NoAnswer]).level) >= RiskOf(PythonScore(sources).level)

(* A client sees the score fail only when the crate answered the probe and *)
(* then gave no result at all, when it is asked for by name and does not   *)
(* answer the probe, or for a company whose CNAE is not written in digits: *)
(* a crate that raises is replaced (factory.py 41-64, engines.py 119-135,  *)
(* legalscore.py 201-215).                                                 *)
CrateFailureIsHidden ==
  [][scored' # scored =>
       /\ scored'.status = 500 => \/ native.probe /\ native.call \in {"keyless", "wild"}
                                  \/ sources["RECEITA"] = LetterCnae
       /\ scored'.status = 503 => backend = "rust" /\ ~native.probe]_engineVars

(* The fallback always has an answer, and one in which a source that is    *)
(* missing is no advantage over the engine's own scale (engines.py 54-87). *)
EngineSound == PythonAlwaysAnswers /\ MissingNeverFlatters
=============================================================================
