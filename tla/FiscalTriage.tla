---------------------------- MODULE FiscalTriage ----------------------------
(***************************************************************************)
(* Classifying one item: description or NCM hint -> NCM -> ICMS            *)
(* (services/fiscal/triage, services/shared/contracts/fiscal.py and the    *)
(* readers of services/fiscal/repository.py).  Pure operators.             *)
(*                                                                         *)
(* Percentages and similarities are whole hundredths and thousandths, as   *)
(* the code rounds them.  An NCM code is a sequence of groups of digits,   *)
(* so that a prefix of it is a prefix of the sequence; a description is    *)
(* what the matcher sees of it: its similarity to each official text.      *)
(***************************************************************************)
EXTENDS Integers, SequencesExt

None == -1      \* a number that is not there
NoCode == <<>>  \* an NCM that is not there, or the NULL prefix of a general rate

SulSudeste == {"SP", "RJ", "MG", "PR", "SC", "RS"}

AliquotaInterestadual(o, d, importado, conteudo) ==
  IF importado /\ (conteudo = None \/ conteudo > 4000) THEN 400
  ELSE IF o \in SulSudeste /\ d \notin SulSudeste THEN 700 ELSE 1200

ComputeDifal(efetiva, inter) ==
  IF None \in {efetiva, inter} THEN None ELSE Max({0, efetiva - inter})

\* Seeded fault: the fund against poverty is left out.
EfetivaWithoutFund(row) == row.pct

Efetiva(row) == row.pct + Max({0, row.fcp})

\* resolve_icms; "rows" holds the internal rate of the destination, if any.
ResolveIcms(o, d, rows, importado, conteudo) ==
  LET interna == IF rows = {} THEN None ELSE Efetiva(CHOOSE r \in rows : TRUE)
      inter   == IF o = d THEN None ELSE AliquotaInterestadual(o, d, importado, conteudo)
  IN  [interna |-> interna, inter |-> inter, difal |-> ComputeDifal(interna, inter)]
-----------------------------------------------------------------------------
(* The tables: a row is in force from the day it was inserted ("since") on *)

InForce(table, day) == {r \in table : r.since <= day}

GetNcm(ncms, code, day) == {r \in InForce(ncms, day) : r.code = code}

\* ORDER BY length(prefix) DESC LIMIT 1.
MostSpecific(rows) == {r \in rows : \A s \in rows : Len(r.prefix) >= Len(s.prefix)}

Interna(rates, uf, code, day) ==
  MostSpecific({r \in InForce(rates, day) : r.uf = uf /\ IsPrefix(r.prefix, code)})
-----------------------------------------------------------------------------
(* Matching; "conflito" sends the item to a human *)

FuzzyThreshold == 820
SemanticThreshold == 780

Candidate(code, confidence, fonte) == [code |-> code, confidence |-> confidence, fonte |-> fonte]
Matched(candidate, conflito) == [candidate |-> candidate, conflito |-> conflito]
NoCandidate == Candidate(NoCode, 0, "NONE")
NoMatch == Matched(NoCandidate, TRUE)

MatchExact(hint, rows) ==
  IF rows = {} THEN NoMatch ELSE Matched(Candidate(hint, 1000, "TIPI"), FALSE)

\* like[text]: token_sort_ratio with an official text; the best row wins.
MatchFuzzy(like, catalog) ==
  IF catalog = {} \/ like = <<>> THEN NoMatch
  ELSE LET best == CHOOSE r \in catalog : \A s \in catalog : like[r.text] >= like[s.text]
       IN  Matched(Candidate(best.code, like[best.text], "FUZZY"), like[best.text] < FuzzyThreshold)

HitsToCandidate(hits) ==
  IF hits = {} THEN NoMatch
  ELSE LET best == CHOOSE h \in hits : \A g \in hits : h.score >= g.score
           confidence == Max({0, Min({1000, best.score})})
       IN  Matched(Candidate(best.code, confidence, "RAG"), confidence < SemanticThreshold)

\* Seeded fault: the suggestion replaces the candidate but not the flag.
FallbackKeepingFlag(fuzzy, hits) ==
  LET semantic == HitsToCandidate(hits)
  IN  IF fuzzy.conflito /\ semantic.candidate # NoCandidate
      THEN [fuzzy EXCEPT !.candidate = semantic.candidate, !.conflito = FALSE] ELSE fuzzy

\* A weak match gives way to a sure suggestion, no match to any suggestion.
WithFallback(fuzzy, hits) ==
  LET semantic == HitsToCandidate(hits)
  IN  IF /\ fuzzy.conflito
         /\ semantic.candidate # NoCandidate
         /\ ~ semantic.conflito \/ fuzzy.candidate = NoCandidate
      THEN semantic ELSE fuzzy

\* First half of classify; without a semantic source there are no hits.
MatchNcm(req, ncms, hits) ==
  IF req.hint # NoCode THEN MatchExact(req.hint, GetNcm(ncms, req.hint, req.day))
  ELSE WithFallback(MatchFuzzy(req.like, InForce(ncms, req.day)), hits)

\* Second half: the rate in force at the destination.
IcmsFor(req, code, rates) ==
  ResolveIcms(req.from, req.to, Interna(rates, req.to, code, req.day), req.importado, req.conteudo)
-----------------------------------------------------------------------------
(* Reading a sheet *)

\* The first column (0: none) whose header is an alias of the field.
DetectColumns(headers) ==
  [field \in {"descricao", "ncm", "uf"} |->
     Min({i \in 1..Len(headers) : headers[i] = field} \cup {Len(headers) + 1}) % (Len(headers) + 1)]

\* _to_request: what becomes of a row whose cells are "blank", "bad" or "good".
RowKindOf(row, headers) ==
  LET cell(field) == LET i == DetectColumns(headers)[field] IN
        IF i \in 1..Len(row) THEN row[i] ELSE "blank"
  IN  IF cell("uf") = "bad" \/ cell("descricao") = "blank" THEN "skipped"
      ELSE IF cell("descricao") = "bad" THEN "poison" ELSE "item"
=============================================================================
