----------------------------- MODULE TaxPredict -----------------------------
(***************************************************************************)
(* TaxPredict: recalibration tasks which fit a model and store its trace   *)
(* (services/taxpredict), and gateways which load the trace of a matter on *)
(* the first request and keep it (services/gateway/routers/taxpredict.py). *)
(***************************************************************************)
EXTENDS Naturals

CONSTANTS Gateways, Matters, Calibrators,
          MaxRetries, \* max_retries of recalibrate_model
          MaxData     \* bound of the model: editions of the training data

ASSUME TaxAssumption == MaxRetries \in Nat /\ MaxData \in Nat

VARIABLES training, \* training[m]: the edition of the parquet file
          trace,    \* trace[m]: [data, saved] of the stored trace, 0 for none
          saves,    \* history: traces saved
          job,      \* job[w]: the task of a calibrator
          loaded,   \* loaded[g][m]: _MODEL_CACHE, [data, model]
          answer    \* answer[g][m]: the last answer about m since the start

taxVars == <<training, trace, saves, job, loaded, answer>>

NoTrace == [data |-> 0, saved |-> 0]
NotLoaded == [data |-> 0, model |-> FALSE]
Unasked == [at |-> "idle", matter |-> "none", data |-> 0, began |-> 0, tries |-> 0]

TaxInit ==
  /\ training = [m \in Matters |-> 1] /\ trace = [m \in Matters |-> NoTrace] /\ saves = 0
  /\ job = [w \in Calibrators |-> Unasked]
  /\ loaded = [g \in Gateways |-> [m \in Matters |-> NotLoaded]]
  /\ answer = [g \in Gateways |-> [m \in Matters |-> "none"]]
-----------------------------------------------------------------------------
NewData(m) ==
  /\ training[m] < MaxData
  /\ training' = [training EXCEPT ![m] = @ + 1]
  /\ UNCHANGED <<trace, saves, job, loaded, answer>>

AskRecalibration(w, m) ==
  /\ job[w].at = "idle" /\ saves < MaxData
  /\ job' = [job EXCEPT ![w] = [Unasked EXCEPT !.at = "asked", !.matter = m]]
  /\ UNCHANGED <<training, trace, saves, loaded, answer>>

\* Seeded fault: a retry goes on with the data of the first attempt.
FitKept(w) ==
  /\ job[w].at = "asked"
  /\ job' = [job EXCEPT ![w].at = "fitted", ![w].began = saves,
                        ![w].data = IF @ = 0 THEN training[job[w].matter] ELSE @]
  /\ UNCHANGED <<training, trace, saves, loaded, answer>>

\* The training data is read, and the model fitted to it.
Fit(w) ==
  /\ job[w].at = "asked"
  /\ job' = [job EXCEPT ![w].at = "fitted", ![w].began = saves,
                        ![w].data = training[job[w].matter]]
  /\ UNCHANGED <<training, trace, saves, loaded, answer>>

Save(w) ==
  /\ job[w].at = "fitted"
  /\ saves' = saves + 1
  /\ trace' = [trace EXCEPT ![job[w].matter] = [data |-> job[w].data, saved |-> saves + 1]]
  /\ job' = [job EXCEPT ![w] = Unasked]
  /\ UNCHANGED <<training, loaded, answer>>

Again(task) == [task EXCEPT !.at = "asked", !.tries = task.tries + 1]

\* Any exception: the whole task again, until max_retries.
Retry(w) ==
  /\ job[w].at # "idle"
  /\ job' = [job EXCEPT ![w] = IF job[w].tries < MaxRetries THEN Again(job[w]) ELSE Unasked]
  /\ UNCHANGED <<training, trace, saves, loaded, answer>>
-----------------------------------------------------------------------------
\* load_from_minio brings the trace and not the model that fit built.
LoadFromMinio(m) == [data |-> trace[m].data, model |-> FALSE]

\* _get_model: the cached model, else the stored trace if it can be read.
Models(g, m) ==
  IF loaded[g][m] # NotLoaded THEN {loaded[g][m]}
  ELSE {NotLoaded} \cup IF trace[m] = NoTrace THEN {} ELSE {LoadFromMinio(m)}

\* TaxPredictionModel.predict raises without the model that fit built.
CanPredict(model) == model.model

\* predict: the national prior without a trace, an error without a model.
AnswerOf(model) ==
  IF model = NotLoaded THEN "prior" ELSE IF CanPredict(model) THEN "prediction" ELSE "503"

\* Seeded fault: the loaded model is not kept.
PredictUncached(g, m) ==
  /\ \E model \in Models(g, m) : answer' = [answer EXCEPT ![g][m] = AnswerOf(model)]
  /\ UNCHANGED <<training, trace, saves, job, loaded>>

Predict(g, m) ==
  /\ \E model \in Models(g, m) :
       /\ loaded' = [loaded EXCEPT ![g][m] = model]
       /\ answer' = [answer EXCEPT ![g][m] = AnswerOf(model)]
  /\ UNCHANGED <<training, trace, saves, job>>

StartGateway(g) ==
  /\ loaded' = [loaded EXCEPT ![g] = [m \in Matters |-> NotLoaded]]
  /\ answer' = [answer EXCEPT ![g] = [m \in Matters |-> "none"]]
  /\ UNCHANGED <<training, trace, saves, job>>
-----------------------------------------------------------------------------
TaxNext ==
  \/ \E m \in Matters : NewData(m)
  \/ \E w \in Calibrators : Fit(w) \/ Save(w) \/ Retry(w)
  \/ \E w \in Calibrators, m \in Matters : AskRecalibration(w, m)
  \/ \E g \in Gateways : StartGateway(g) \/ \E m \in Matters : Predict(g, m)

TaxSpec == TaxInit /\ [][TaxNext]_taxVars
-----------------------------------------------------------------------------
(* Properties *)

(* A load that fails is tried again at the next request, but a trace that  *)
(* was loaded is kept, without the model that predicting needs: from then  *)
(* on every prediction of that matter fails, "Tente novamente" or not, and *)
(* only a restart brings back even the prior (taxpredict.py 46-47,         *)
(* bayesian.py 122-123, 139-142).                                          *)
FailureIsSticky ==
  \A g \in Gateways, m \in Matters :
    answer[g][m] = "503" => answer'[g][m] \in {"503", "none"}

(* The stored trace goes back to older data only through a task whose      *)
(* attempt began before the newer trace was saved: with tasks one after    *)
(* another, retried or not, the newest data wins (tasks.py 55-66).         *)
OnlyOverlapGoesBack ==
  \A w \in Calibrators, m \in Matters :
    /\ job[w].matter = m /\ job'[w] = Unasked
    /\ trace'[m].data < trace[m].data
    => job[w].began < trace[m].saved

(* What a gateway predicts with and what is stored change for the worse    *)
(* only by the cache or by an overlap: a gateway with a trace and no model *)
(* keeps failing, and an older model replaces a newer one only if          *)
(* recalibrations overlapped (taxpredict.py 41-67, tasks.py 29-67).        *)
ModelsFollowTheirCause == [][FailureIsSticky /\ OnlyOverlapGoesBack]_taxVars
=============================================================================
