------------------------------ MODULE Answers ------------------------------
(***************************************************************************)
(* What the platform computes for a client: the advice products and the    *)
(* score engine, which share no state.                                     *)
(***************************************************************************)
EXTENDS Advice, ScoreEngine

answerVars == <<adviceVars, engineVars>>

AnswersInit == AdviceInit /\ EngineInit

AnswersNext ==
  \/ AdviceNext /\ UNCHANGED engineVars
  \/ EngineNext /\ UNCHANGED adviceVars

AnswersSpec == AnswersInit /\ [][AnswersNext]_answerVars
-----------------------------------------------------------------------------
(* The numbers of the advice products and of the score engine say what     *)
(* their inputs say, over every input: missing values, zero rates and      *)
(* short series do not turn an answer around (services/concilia,           *)
(* services/scoring/engine and the other services of Advice).              *)
AnswersSound == AdviceSound /\ EngineSound
=============================================================================
