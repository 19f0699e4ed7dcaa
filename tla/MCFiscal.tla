------------------------------ MODULE MCFiscal ------------------------------
(* Small instances of the fiscal engine.  The enrichment of spreadsheets   *)
(* and the reference tables share no state: a behaviour belongs to one of  *)
(* them ("part").                                                          *)
EXTENDS FiscalEnrichment, FiscalReference
VARIABLE part

Headers == <<"other", "uf", "descricao", "ncm", "uf">>
Row(uf, descricao) == <<"good", uf, descricao, "good", "bad">>
Sheet(headers, rows) == [i \in 1..Len(rows) |-> RowKindOf(rows[i], headers)]
Item == Row("good", "good")
Skipped == Row("bad", "good")

\* No row at all; no column with a description; a last chunk that is not
\* full; rows left out in two chunks; a row that raises in the second chunk.
SmallSheets ==
  {Sheet(Headers, <<>>), Sheet(<<"uf", "ncm">>, <<Item, Item>>),
   Sheet(Headers, <<Item, Row("blank", "good"), Item>>),
   Sheet(Headers, <<Item, Skipped, Item, Item, Row("good", "blank"), Item>>),
   Sheet(Headers, <<Skipped, Skipped, Item, Item, Item, Item, Item, <<>>>>),
   Sheet(Headers, <<Item, Item, Item, Row("good", "bad"), Item>>)}

\* The first row has no rate, the second one a number that is not a rate, and
\* the third no product.
SmallRates ==
  {[uf |-> "SP", html |-> <<<<None, None>>, <<None, 5200, 1800>>, <<EmptyCell, 1900>>,
                           <<None, 1200>>, <<None, 1800>>>>],
   [uf |-> "BA", html |-> <<<<None>>, <<None, None, 2050, 700>>>>]}
Books == <<49, 1>>
Wires == <<85, 44>>
SmallTipi ==
  {<<[code |-> Books, text |-> "livros", ex |-> "", pct |-> None],
     [code |-> Wires, text |-> "fios", ex |-> "", pct |-> 500],
     [code |-> Wires, text |-> "fios ex", ex |-> "01", pct |-> 0]>>,
   <<[code |-> Wires, text |-> "fios", ex |-> "", pct |-> 400],
     [code |-> NoCode, text |-> "x", ex |-> "", pct |-> 0],
     [code |-> Wires, text |-> "fios", ex |-> "", pct |-> 40001],
     [code |-> Wires, text |-> "fios", ex |-> "", pct |-> 300]>>}
Mig(from, to, start) == [from |-> from, to |-> to, start |-> start]
SmallMigrations ==
  {<<Mig(<<1>>, <<2>>, 1), Mig(<<2>>, <<3>>, 1), Mig(<<1>>, NoCode, 2), Mig(NoCode, <<1>>, 1)>>,
   <<Mig(<<3>>, <<2>>, 1), Mig(<<2>>, <<3>>, 1)>>, <<Mig(<<1>>, <<3>>, 1), Mig(<<3>>, <<2>>, 0)>>}
ByHand == {[uf |-> "SP", prefix |-> <<85>>, pct |-> 2500, fcp |-> 200, source |-> "hand", since |-> 1]}
SmallSeed == {[uf |-> "SP", pct |-> 1800, fcp |-> None], [uf |-> "RJ", pct |-> 1800, fcp |-> 200]}
Like(b, w, x) == "livros" :> b @@ "fios" :> w @@ "fios ex" :> x
Asked(like, hint, from, to, at, importado, conteudo) ==
  [like |-> like, hint |-> hint, from |-> from, to |-> to, day |-> at,
   importado |-> importado, conteudo |-> conteudo]
SmallRequests ==
  {Asked(Like(820, 819, 0), NoCode, "BA", "SP", None, FALSE, None),
   Asked(Like(100, 900, 0), NoCode, "SP", "BA", None, TRUE, 4000),
   Asked(<<>>, Wires, "ES", "SP", 1, TRUE, None),
   Asked(<<>>, Books, "RJ", "RJ", 2, FALSE, None)}
Hits == {{}, {[code |-> Books, score |-> 779]}, {[code |-> Books, score |-> 780], [code |-> Wires, score |-> 100]}}

AllVars == <<vars, referenceVars, part>>
AllInit == Init /\ ReferenceInit /\ part \in {"sheets", "sefaz", "tipi", "migr"}

\* Loads of different tables meet no common row: one kind at a time.
AllNext ==
  /\ \/ part = "sheets" /\ Next /\ UNCHANGED referenceVars
     \/ /\ part # "sheets" /\ ReferenceNext /\ UNCHANGED vars
        /\ \A w \in Loaders : load'[w] = Nothing \/ load'[w].kind = part
  /\ UNCHANGED part

AllSpec == AllInit /\ [][AllNext]_AllVars /\ \A j \in Jobs : WF_AllVars(Work(j) /\ UNCHANGED <<referenceVars, part>>)
=============================================================================
