---------------------------- MODULE FiscalProofs ----------------------------
(***************************************************************************)
(* The reference tables of the fiscal engine and the answers given from    *)
(* them, for any number of loads, whatever they publish, and any items;    *)
(* and the anchors of the spreadsheets, for any sheets, cut into chunks of *)
(* any size that return in any order.                                      *)
(***************************************************************************)
EXTENDS FiscalReference, FiscalEnrichment, MerkleProofs, FiniteSetTheorems, SequenceTheorems
-----------------------------------------------------------------------------
(* What is in force *)

(***************************************************************************)
(* Two rows of a table are the same to a constraint when they have one key *)
(* (KeyOf).  No two rows in force have (OneRow), because no two rows of a  *)
(* transaction have, none of a transaction has the key of one in force,    *)
(* unless it replaces it (ipi), and none the key of a row of another open  *)
(* transaction (Apart): that one would wait.  Of the migrations this is    *)
(* true only while no two transactions were open at once.                  *)
(***************************************************************************)
KeyOf(t, r) == Key(Statement(t, r))
Unique(t, R) == \A r, s \in R : KeyOf(t, r) = KeyOf(t, s) => r = s
Apart(t, R, S) == \A r \in R, s \in S : KeyOf(t, r) # KeyOf(t, s)

\* A row as it is stored.
Stamp(t) == IF t \in {"ipi", "migr"} THEN "run" ELSE "since"
Fits(t, r) == (t = "rates" => IsRate(r)) /\ (t = "ncms" => r.text \in Texts)
IsRow(t, r) == DOMAIN r = Columns(t) \cup {Stamp(t)} /\ Fits(t, r)

IsStatement(s) ==
  /\ DOMAIN s = {"table", "row"} /\ s.table \in TableNames
  /\ DOMAIN s.row = Columns(s.table) /\ Fits(s.table, s.row)

IsLoad(l) ==
  /\ DOMAIN l = {"kind", "run", "file", "left", "mine", "waits"}
  /\ l.file \in Seq(Range(l.file)) /\ l.left \in Seq(Range(l.left))
  /\ Len(l.left) <= Len(l.file)
  /\ \A i \in 1..Len(l.file) : IsStatement(l.file[i])
  /\ \A k \in 1..Len(l.left) : l.left[k] = l.file[Len(l.file) - Len(l.left) + k]
  /\ DOMAIN l.mine = TableNames
  /\ \A t \in TableNames :
       /\ IsFiniteSet(l.mine[t]) /\ Unique(t, l.mine[t])
       /\ \A r \in l.mine[t] : IsRow(t, r)

\* The rows of transaction w, and the tables a constraint guards, or nobody
\* has endangered so far.
Mine(w, t) == IF load[w] = Nothing THEN {} ELSE load[w].mine[t]
Guarded(t) == t # "migr" \/ ~ overlap

Loads ==
  /\ DOMAIN load = Loaders /\ overlap \in BOOLEAN
  /\ \A w \in Loaders : load[w] = Nothing \/ IsLoad(load[w])
  /\ ~ overlap => \A v, w \in Open : v = w

Rows ==
  /\ tables = [t \in TableNames |-> tables[t]]
  /\ \A t \in TableNames : IsFiniteSet(tables[t]) /\ \A r \in tables[t] : IsRow(t, r)

OneRow ==
  \A t \in TableNames : Guarded(t) =>
    /\ Unique(t, tables[t])
    /\ t # "ipi" => \A w \in Loaders : Apart(t, tables[t], Mine(w, t))
    /\ \A v, w \in Loaders : v # w => Apart(t, Mine(v, t), Mine(w, t))

TablesInv == Loads /\ Rows /\ OneRow
-----------------------------------------------------------------------------
(* The names of the tables, one by one.                                    *)
LEMMA TableName ==
  ASSUME NEW t \in TableNames PROVE t = "rates" \/ t = "ncms" \/ t = "ipi" \/ t = "migr"
BY DEF TableNames

(* The key of a statement is that of its row in its table.                 *)
LEMMA KeyOfStatement ==
  ASSUME NEW s, DOMAIN s = {"table", "row"}
  PROVE  /\ Key(s) = KeyOf(s.table, s.row)
         /\ \A r : Key([s EXCEPT !.row = r]) = KeyOf(s.table, r)
<1>1. ASSUME NEW x, NEW y, x.table = y.table, x.row = y.row PROVE Key(x) = Key(y)
  BY <1>1 DEF Key
<1>2. Key(s) = KeyOf(s.table, s.row)
  <2>1. Statement(s.table, s.row).table = s.table /\ Statement(s.table, s.row).row = s.row
    BY DEF Statement
  <2> QED BY <1>1, <2>1 DEF KeyOf
<1>3. ASSUME NEW r PROVE Key([s EXCEPT !.row = r]) = KeyOf(s.table, r)
  <2>1. /\ Statement(s.table, r).table = s.table /\ Statement(s.table, r).row = r
        /\ [s EXCEPT !.row = r].table = s.table /\ [s EXCEPT !.row = r].row = r
    BY DEF Statement
  <2> QED BY <1>1, <2>1 DEF KeyOf
<1> QED BY <1>2, <1>3

\* The stamp of a row is not part of its key.
LEMMA KeyOfStored ==
  ASSUME NEW t \in TableNames, NEW r, DOMAIN r = Columns(t), Fits(t, r), NEW v
  PROVE  /\ KeyOf(t, With(r, Stamp(t), v)) = KeyOf(t, r)
         /\ IsRow(t, With(r, Stamp(t), v))
<1> DEFINE x == With(r, Stamp(t), v)
<1>1. DOMAIN x = Columns(t) \cup {Stamp(t)} /\ \A c \in Columns(t) \ {Stamp(t)} : x[c] = r[c]
  BY DEF With
<1>2. /\ Statement(t, x).table = t /\ Statement(t, x).row = x
      /\ Statement(t, r).table = t /\ Statement(t, r).row = r
  BY DEF Statement
<1>3. CASE t = "rates"
  <2>1. x.uf = r.uf /\ x.prefix = r.prefix /\ x.pct = r.pct /\ x.fcp = r.fcp
    BY <1>1, <1>3 DEF Columns, Stamp
  <2> QED BY <1>1, <1>2, <1>3, <2>1 DEF KeyOf, Key, IsRow, IsRate, Fits
<1>4. CASE t = "ncms"
  <2>1. x.code = r.code /\ x.text = r.text
    BY <1>1, <1>4 DEF Columns, Stamp
  <2> QED BY <1>1, <1>2, <1>4, <2>1 DEF KeyOf, Key, IsRow, Fits
<1>5. CASE t = "ipi"
  <2>1. x.code = r.code /\ x.ex = r.ex
    BY <1>1, <1>5 DEF Columns, Stamp
  <2> QED BY <1>1, <1>2, <1>5, <2>1 DEF KeyOf, Key, IsRow, Fits
<1>6. CASE t = "migr"
  <2>1. x.from = r.from /\ x.to = r.to /\ x.start = r.start
    BY <1>1, <1>6 DEF Columns, Stamp
  <2> QED BY <1>1, <1>2, <1>6, <2>1 DEF KeyOf, Key, IsRow, Fits
<1> QED BY <1>3, <1>4, <1>5, <1>6, TableName

\* The rows of a transaction once it has stored x under its key.
LEMMA RowAdded ==
  ASSUME NEW t, NEW R, NEW x, Unique(t, R), IsFiniteSet(R),
         NEW Q, Q = {r \in R : KeyOf(t, r) # KeyOf(t, x)} \cup {x}
  PROVE  Unique(t, Q) /\ IsFiniteSet(Q)
<1>1. Unique(t, Q)
  BY DEF Unique
<1>2. IsFiniteSet({r \in R : KeyOf(t, r) # KeyOf(t, x)})
  BY FS_Subset
<1> QED BY <1>1, <1>2, FS_AddElement

(* A published file is a sequence of statements.                           *)
LEMMA PublishedFile ==
  ASSUME NEW file \in Published
  PROVE  /\ file \in Seq(Range(file)) /\ \A i \in 1..Len(file) : IsStatement(file[i])
<1>1. \A i \in DOMAIN file : file[i].table = "ncms" => file[i].row.text \in Texts
  BY DEF Texts, Range
<1>2. file \in Seq(Range(file)) /\ \A i \in DOMAIN file : IsStatement(file[i])
  BY <1>1, TablesAssumption DEF IsStatement, Fits
<1> QED BY <1>2
-----------------------------------------------------------------------------
(* A step that takes rows out of open transactions keeps OneRow.           *)
LEMMA FewerRows ==
  ASSUME OneRow, tables' = tables, overlap \in BOOLEAN, overlap' \in BOOLEAN, overlap => overlap',
         \A w \in Loaders : \A t \in TableNames : Mine(w, t)' \subseteq Mine(w, t)
  PROVE  OneRow'
<1> SUFFICES ASSUME NEW t \in TableNames, Guarded(t)'
             PROVE  /\ Unique(t, tables'[t])
                    /\ t # "ipi" => \A w \in Loaders : Apart(t, tables'[t], Mine(w, t)')
                    /\ \A v, w \in Loaders : v # w => Apart(t, Mine(v, t)', Mine(w, t)')
  BY DEF OneRow, Unique, Apart, KeyOf, Statement, Key
<1>1. Guarded(t)
  BY DEF Guarded
<1>2. /\ Unique(t, tables[t])
      /\ t # "ipi" => \A w \in Loaders : Apart(t, tables[t], Mine(w, t))
      /\ \A v, w \in Loaders : v # w => Apart(t, Mine(v, t), Mine(w, t))
  BY <1>1 DEF OneRow
<1>3. ASSUME NEW R, NEW S, NEW P, NEW Q, Apart(t, R, S), P \subseteq R, Q \subseteq S
      PROVE  Apart(t, P, Q)
  BY <1>3 DEF Apart
<1> QED BY <1>2, <1>3

\* What the rows of the transactions are after one of them changed.
LEMMA MineAfter ==
  ASSUME Loads, NEW w \in Loaders, NEW l, load' = [load EXCEPT ![w] = l]
  PROVE  /\ DOMAIN load' = Loaders
         /\ load'[w] = l /\ \A v \in Loaders \ {w} : load'[v] = load[v]
         /\ \A t : Mine(w, t)' = IF l = Nothing THEN {} ELSE l.mine[t]
         /\ \A v \in Loaders \ {w} : \A t : Mine(v, t)' = Mine(v, t)
         /\ Open' = IF l = Nothing THEN Open \ {w} ELSE Open \cup {w}
BY DEF Loads, Mine, Open

(* A step that changes one load, or ends it, keeps what is said of loads.  *)
LEMMA LoadsKept ==
  ASSUME Loads, NEW w \in Loaders, NEW l, load' = [load EXCEPT ![w] = l],
         l = Nothing \/ IsLoad(l), l = Nothing \/ load[w] # Nothing, overlap' = overlap
  PROVE  Loads'
<1>1. /\ DOMAIN load' = Loaders /\ overlap' \in BOOLEAN
      /\ \A v \in Loaders : load'[v] = Nothing \/ IsLoad(load'[v])
  BY MineAfter DEF Loads
<1>2. Open' \subseteq Open
  BY MineAfter DEF Open
<1> QED BY <1>1, <1>2 DEF Loads

\* The load after its current statement.
LEMMA MovesOn ==
  ASSUME NEW l, IsLoad(l), l.left # <<>>, NEW m,
         DOMAIN m = DOMAIN l, m.file = l.file, m.mine = l.mine, m.left = Tail(l.left)
  PROVE  /\ IsLoad(m) /\ Len(m.left) = Len(l.left) - 1
         /\ IsStatement(Head(l.left)) /\ Head(l.left) = l.file[Len(l.file) - Len(l.left) + 1]
<1> DEFINE n == Len(l.file)
           k == Len(l.left)
           rest == Tail(l.left)
<1>1. /\ n \in Nat /\ k \in Nat \ {0} /\ k <= n
      /\ l.left \in Seq(Range(l.left)) /\ l.left[1] = Head(l.left)
  BY DEF IsLoad
<1>2. /\ rest \in Seq(Range(l.left)) /\ Len(rest) = k - 1
      /\ \A i \in 1..Len(rest) : rest[i] = l.left[i + 1]
  <2>1. \A S : \A s \in Seq(S) : s # <<>> =>
          /\ Tail(s) \in Seq(S) /\ Len(Tail(s)) = Len(s) - 1
          /\ \A i \in 1..Len(Tail(s)) : Tail(s)[i] = s[i + 1]
    OBVIOUS
  <2> QED BY <1>1, <2>1
<1> HIDE DEF rest
<1>3. rest \in Seq(Range(rest))
  <2>1. \A i \in 1..Len(rest) : rest[i] \in Range(rest)
    BY <1>2 DEF Range
  <2> QED BY <1>2, <2>1
<1>4. \A i \in 1..k : l.left[i] = l.file[n - k + i]
  BY DEF IsLoad
<1> HIDE DEF n, k
<1>5. \A i \in 1..Len(rest) : rest[i] = l.file[n - Len(rest) + i]
  <2> SUFFICES ASSUME NEW i \in 1..Len(rest) PROVE rest[i] = l.file[n - Len(rest) + i]
    OBVIOUS
  <2>1. i + 1 \in 1..k /\ n - k + (i + 1) = n - Len(rest) + i
    BY <1>1, <1>2
  <2> QED BY <1>2, <1>4, <2>1
<1>6. l.left[1] = l.file[n - k + 1] /\ n - k + 1 \in 1..n
  BY <1>1, <1>4
<1>7. IsStatement(l.file[n - k + 1])
  BY <1>6 DEF IsLoad, n
<1>8. IsLoad(m)
  <2>1. m.left = rest /\ Len(rest) <= n
    BY <1>1, <1>2 DEF rest
  <2> QED BY <1>3, <1>5, <2>1 DEF IsLoad, n
<1> QED BY <1>1, <1>2, <1>6, <1>7, <1>8 DEF n, k, rest

(* A load that begins holds nothing.                                       *)
LEMMA Begins ==
  ASSUME TablesInv, NEW w \in Loaders, NEW kind, NEW file \in Published, BeginLoad(w, kind, file)
  PROVE  TablesInv'
<1> DEFINE l == [kind |-> kind, run |-> loads', file |-> file, left |-> file,
                 mine |-> NoRows, waits |-> FALSE]
<1>1. /\ load[w] = Nothing /\ load' = [load EXCEPT ![w] = l] /\ overlap' = (overlap \/ Open # {})
      /\ tables' = tables
  BY DEF BeginLoad
<1>2. NoRows = [t \in TableNames |-> {}]
  BY DEF NoRows
<1>3. l.mine = NoRows /\ l.file = file /\ l.left = file
      /\ DOMAIN l = {"kind", "run", "file", "left", "mine", "waits"} /\ l # Nothing
  <2>1. l.waits = FALSE /\ DOMAIN Nothing = {"kind"} /\ "waits" \in DOMAIN l
    BY DEF Nothing
  <2> QED BY <2>1
<1> HIDE DEF l
<1>4. IsLoad(l)
  <2>1. IsFiniteSet({}) /\ Len(file) - Len(file) = 0
    BY PublishedFile, FS_EmptySet
  <2>2. \A k \in 1..Len(file) : file[k] = file[Len(file) - Len(file) + k]
    BY PublishedFile
  <2> QED BY <1>2, <1>3, <2>1, <2>2, PublishedFile DEF IsLoad, Unique
<1>5. overlap \in BOOLEAN /\ overlap' \in BOOLEAN /\ (overlap => overlap')
  BY <1>1 DEF TablesInv, Loads
<1>6. Loads'
  <2>1. ~ overlap' => Open = {}
    BY <1>1, <1>5
  <2>2. Loads /\ load' = [load EXCEPT ![w] = l] /\ l # Nothing
    BY <1>1, <1>3 DEF TablesInv
  <2>3. /\ DOMAIN load' = Loaders /\ load'[w] = l
        /\ \A v \in Loaders \ {w} : load'[v] = load[v]
        /\ Open' = Open \cup {w}
    BY <2>2, MineAfter
  <2>4. \A v \in Loaders : load'[v] = Nothing \/ IsLoad(load'[v])
    BY <1>4, <2>2, <2>3 DEF Loads
  <2>5. ~ overlap' => \A u, v \in Open' : u = v
    BY <2>1, <2>3
  <2> QED BY <1>5, <2>3, <2>4, <2>5 DEF Loads
<1>7. \A v \in Loaders : \A t \in TableNames : Mine(v, t)' \subseteq Mine(v, t)
  BY <1>1, <1>2, <1>3 DEF TablesInv, Loads, Mine
<1> QED BY <1>1, <1>5, <1>6, <1>7, FewerRows DEF TablesInv, Rows, IsRow

(* Nothing comes into force by a statement that is skipped or waits, or by *)
(* a rollback.                                                             *)
LEMMA SkipsOrWaits ==
  ASSUME TablesInv, NEW w \in Loaders, Skip(w) \/ Wait(w) \/ Rollback(w) PROVE TablesInv'
<1>1. UNCHANGED <<tables, overlap>> /\ load[w] # Nothing
  BY DEF Skip, Wait, Rollback, Running
<1>2. IsLoad(load[w])
  BY <1>1 DEF TablesInv, Loads
<1>3. PICK l : /\ load' = [load EXCEPT ![w] = l] /\ (l = Nothing \/ IsLoad(l))
               /\ (l # Nothing => l.mine = load[w].mine)
  <2>1. CASE Skip(w)
    <3>1. load[w].left # <<>>
      BY <2>1 DEF Skip, Running
    <3>2. /\ DOMAIN Advanced(w) = DOMAIN load[w] /\ Advanced(w).file = load[w].file
          /\ Advanced(w).mine = load[w].mine /\ Advanced(w).left = Tail(load[w].left)
      BY <1>2 DEF Advanced, IsLoad
    <3>3. IsLoad(Advanced(w))
      BY <1>2, <3>1, <3>2, MovesOn
    <3> QED BY <2>1, <3>2, <3>3 DEF Skip
  <2>2. CASE Wait(w)
    <3> DEFINE l == [load[w] EXCEPT !.waits = TRUE]
    <3>1. /\ DOMAIN l = DOMAIN load[w] /\ l.file = load[w].file
          /\ l.mine = load[w].mine /\ l.left = load[w].left
      BY <1>2 DEF IsLoad
    <3>2. load' = [load EXCEPT ![w] = l]
      BY <2>2 DEF Wait
    <3> HIDE DEF l
    <3>3. IsLoad(l)
      BY <1>2, <3>1 DEF IsLoad
    <3> QED BY <3>1, <3>2, <3>3
  <2>3. CASE Rollback(w)
    BY <2>3 DEF Rollback
  <2> QED BY <2>1, <2>2, <2>3
<1>4. Loads'
  BY <1>1, <1>3, LoadsKept DEF TablesInv
<1>5. \A v \in Loaders : \A t \in TableNames : Mine(v, t)' \subseteq Mine(v, t)
  <2>1. \A t \in TableNames : Mine(w, t)' \subseteq Mine(w, t)
    BY <1>1, <1>3 DEF TablesInv, Loads, Mine
  <2>2. \A v \in Loaders \ {w} : \A t \in TableNames : Mine(v, t)' = Mine(v, t)
    BY <1>3 DEF TablesInv, Loads, Mine
  <2> QED BY <2>1, <2>2
<1> QED BY <1>1, <1>4, <1>5, FewerRows DEF TablesInv, Rows, IsRow, Loads

\* What an insertion of row x makes of a transaction, in terms of the keys.
InsertsRow(w, t, x, m) ==
  /\ load[w] # Nothing /\ IsLoad(load[w]) /\ load[w].left # <<>> /\ t = Current(w).table
  /\ IsRow(t, x) /\ KeyOf(t, x) = Key(Current(w)) /\ x = Stored(w)
  /\ t # "ipi" => \A r \in tables[t] \cup load[w].mine[t] : KeyOf(t, r) # KeyOf(t, x)
  /\ t # "migr" => \A v \in Loaders \ {w} : \A r \in Mine(v, t) : KeyOf(t, r) # KeyOf(t, x)
  /\ load' = [load EXCEPT ![w] = m] /\ IsLoad(m) /\ m # Nothing
  /\ m.file = load[w].file /\ m.left = Tail(load[w].left) /\ m.kind = load[w].kind
  /\ \A u \in TableNames \ {t} : m.mine[u] = load[w].mine[u]
  /\ m.mine[t] = {r \in load[w].mine[t] : KeyOf(t, r) # KeyOf(t, x)} \cup {x}
  /\ UNCHANGED <<tables, overlap>>

(* What an insertion writes: one row, in place of those of its key.        *)
LEMMA Inserted ==
  ASSUME TablesInv, NEW w \in Loaders, Insert(w)
  PROVE  \E t \in TableNames : \E x, m : InsertsRow(w, t, x, m)
<1> DEFINE s == Current(w)
           t == s.table
           x == Stored(w)
           a == Advanced(w)
           mine == load[w].mine
           m == [a EXCEPT !.mine[t] = (@ \ Same(s, @)) \cup {x}]
<1>1. load[w] # Nothing /\ load[w].left # <<>> /\ Inserts(w) /\ ~ Held(w)
      /\ load' = [load EXCEPT ![w] = m] /\ UNCHANGED <<tables, overlap>>
  BY DEF Insert, Running
<1>2. IsLoad(load[w])
  BY <1>1 DEF TablesInv, Loads
<1>3. DOMAIN a = DOMAIN load[w] /\ a.file = load[w].file /\ a.mine = mine
      /\ a.left = Tail(load[w].left) /\ a.kind = load[w].kind
  BY <1>2 DEF Advanced, IsLoad
<1>4. IsLoad(a) /\ IsStatement(s)
  BY <1>1, <1>2, <1>3, MovesOn DEF Current
<1>5. t \in TableNames /\ DOMAIN s = {"table", "row"}
  BY <1>4 DEF IsStatement
<1>6. KeyOf(t, x) = Key(s) /\ IsRow(t, x)
  <2>1. PICK v : x = With(s.row, Stamp(t), v)
    BY DEF Stored, Stamp
  <2>2. Key(s) = KeyOf(t, s.row)
    BY <1>5, KeyOfStatement
  <2> HIDE DEF x, s, t
  <2>3. t = s.table
    BY DEF t
  <2> QED BY <1>4, <1>5, <2>1, <2>2, <2>3, KeyOfStored DEF IsStatement
<1>7. \A R : \A r : r \in Same(s, R) <=> r \in R /\ KeyOf(t, r) = KeyOf(t, x)
  BY <1>5, <1>6, KeyOfStatement DEF Same
<1>8. t # "ipi" => \A r \in tables[t] \cup mine[t] : KeyOf(t, r) # KeyOf(t, x)
  <2>1. t # "ipi" => Same(s, tables[t] \cup mine[t]) = {}
    BY <1>1 DEF Inserts, Visible
  <2> HIDE DEF s, t, x, mine
  <2> QED BY <1>7, <2>1
<1>9. t # "migr" => \A v \in Loaders \ {w} : \A r \in Mine(v, t) : KeyOf(t, r) # KeyOf(t, x)
  <2>1. t # "migr" => \A v \in Open \ {w} : Same(s, load[v].mine[t]) = {}
    BY <1>1 DEF Held
  <2> HIDE DEF s, t, x, mine
  <2> QED BY <1>7, <2>1 DEF Mine, Open
<1>10. /\ DOMAIN m = DOMAIN a /\ m.file = a.file /\ m.left = a.left /\ m.kind = a.kind
       /\ DOMAIN m.mine = TableNames
       /\ \A u \in TableNames \ {t} : m.mine[u] = mine[u]
       /\ m.mine[t] = (mine[t] \ Same(s, mine[t])) \cup {x}
  <2>1. DOMAIN mine = TableNames /\ DOMAIN a = {"kind", "run", "file", "left", "mine", "waits"}
    BY <1>2, <1>4 DEF IsLoad
  <2> HIDE DEF s, t, x, mine, a
  <2> QED BY <1>3, <1>5, <2>1
<1> HIDE DEF m, a, s, t, x
<1>11. m.mine[t] = {r \in mine[t] : KeyOf(t, r) # KeyOf(t, x)} \cup {x}
  BY <1>7, <1>10
<1>12. IsLoad(m)
  <2>1. Unique(t, m.mine[t]) /\ IsFiniteSet(m.mine[t])
    <3>1. Unique(t, mine[t]) /\ IsFiniteSet(mine[t])
      BY <1>2, <1>5 DEF IsLoad
    <3> HIDE DEF mine
    <3> DEFINE R == mine[t]
               Q == m.mine[t]
    <3>2. Unique(t, R) /\ IsFiniteSet(R) /\ Q = {r \in R : KeyOf(t, r) # KeyOf(t, x)} \cup {x}
      BY <3>1, <1>11
    <3> HIDE DEF R, Q
    <3>3. Unique(t, Q) /\ IsFiniteSet(Q)
      BY <3>2, RowAdded
    <3> QED BY <3>3 DEF Q
  <2>2. \A r \in m.mine[t] : IsRow(t, r)
    BY <1>2, <1>5, <1>6, <1>11 DEF IsLoad
  <2> HIDE DEF mine
  <2>3. \A u \in TableNames :
          IsFiniteSet(m.mine[u]) /\ Unique(u, m.mine[u]) /\ \A r \in m.mine[u] : IsRow(u, r)
    BY <1>2, <1>10, <2>1, <2>2 DEF IsLoad, mine
  <2> QED BY <1>4, <1>10, <2>3 DEF IsLoad
<1>13. m # Nothing
  <2>1. DOMAIN Nothing = {"kind"} /\ "left" \in DOMAIN m
    BY <1>12 DEF Nothing, IsLoad
  <2> QED BY <2>1
<1>14. t = Current(w).table /\ x = Stored(w) /\ s = Current(w)
  BY DEF s, t, x
<1>15. InsertsRow(w, t, x, m)
  BY <1>1, <1>2, <1>3, <1>6, <1>8, <1>9, <1>10, <1>11, <1>12, <1>13, <1>14 DEF InsertsRow
<1> QED BY <1>5, <1>15

(* An insertion keeps the keys of open transactions apart.                 *)
LEMMA Inserting ==
  ASSUME TablesInv, NEW w \in Loaders, Insert(w) PROVE TablesInv'
<1>0. PICK t \in TableNames : \E x, m : InsertsRow(w, t, x, m)
  BY Inserted
<1> PICK x, m : InsertsRow(w, t, x, m)
  BY <1>0
<1>1. /\ load[w] # Nothing /\ load' = [load EXCEPT ![w] = m] /\ IsLoad(m) /\ m # Nothing
      /\ t # "ipi" => \A r \in tables[t] : KeyOf(t, r) # KeyOf(t, x)
      /\ t # "migr" => \A v \in Loaders \ {w} : \A r \in Mine(v, t) : KeyOf(t, r) # KeyOf(t, x)
      /\ \A u \in TableNames \ {t} : m.mine[u] = load[w].mine[u]
      /\ m.mine[t] = {r \in load[w].mine[t] : KeyOf(t, r) # KeyOf(t, x)} \cup {x}
      /\ UNCHANGED <<tables, overlap>>
  BY DEF InsertsRow
<1>2. Loads'
  BY <1>1, LoadsKept DEF TablesInv
<1>3. /\ \A v \in Loaders \ {w} : \A u \in TableNames : Mine(v, u)' = Mine(v, u)
      /\ \A u \in TableNames \ {t} : Mine(w, u)' = Mine(w, u)
      /\ Mine(w, t)' \subseteq Mine(w, t) \cup {x}
  BY <1>1 DEF TablesInv, Loads, Mine
<1>4. OneRow'
  <2> SUFFICES ASSUME NEW u \in TableNames, Guarded(u)'
               PROVE  /\ Unique(u, tables'[u])
                      /\ u # "ipi" => \A v \in Loaders : Apart(u, tables'[u], Mine(v, u)')
                      /\ \A v, z \in Loaders : v # z => Apart(u, Mine(v, u)', Mine(z, u)')
    BY DEF OneRow, Unique, Apart, KeyOf, Statement, Key
  <2>0. Guarded(u) /\ tables' = tables
    BY <1>1 DEF Guarded
  <2>1. /\ Unique(u, tables[u])
        /\ u # "ipi" => \A v \in Loaders : Apart(u, tables[u], Mine(v, u))
        /\ \A v, z \in Loaders : v # z => Apart(u, Mine(v, u), Mine(z, u))
    BY <2>0 DEF TablesInv, OneRow
  <2>2. CASE u # t
    <3>1. \A v \in Loaders : Mine(v, u)' = Mine(v, u)
      BY <1>3, <2>2
    <3> QED BY <2>0, <2>1, <3>1
  <2>3. CASE u = t
    <3>1. ASSUME u # "ipi", NEW v \in Loaders PROVE Apart(u, tables[u], Mine(v, u)')
      BY <1>1, <1>3, <2>1, <2>3, <3>1 DEF Apart
    <3>2. ASSUME NEW v \in Loaders \ {w} PROVE \A r \in Mine(v, u) : KeyOf(u, r) # KeyOf(u, x)
      <4>1. CASE u # "migr"
        BY <1>1, <2>3, <4>1
      <4>2. CASE u = "migr"
        <5>1. ~ overlap /\ w \in Open
          BY <1>1, <2>0, <4>2 DEF Guarded, Open
        <5>2. v \notin Open
          BY <5>1 DEF TablesInv, Loads, Open
        <5> QED BY <5>2 DEF Mine, Open
      <4> QED BY <4>1, <4>2
    <3>3. ASSUME NEW v \in Loaders, NEW z \in Loaders, v # z
          PROVE  Apart(u, Mine(v, u)', Mine(z, u)')
      <4>1. CASE v = w
        BY <1>3, <2>1, <2>3, <3>2, <3>3, <4>1 DEF Apart
      <4>2. CASE z = w
        BY <1>3, <2>1, <2>3, <3>2, <3>3, <4>2 DEF Apart
      <4>3. CASE v # w /\ z # w
        BY <1>3, <2>1, <2>3, <3>3, <4>3 DEF Apart
      <4> QED BY <4>1, <4>2, <4>3
    <3> QED BY <2>0, <2>1, <3>1, <3>3
  <2> QED BY <2>2, <2>3
<1> QED BY <1>1, <1>2, <1>4 DEF TablesInv, Rows, IsRow

(* A commit puts into force what the transaction holds.                    *)
LEMMA Commits ==
  ASSUME TablesInv, NEW w \in Loaders, Commit(w) PROVE TablesInv'
<1> DEFINE mine == load[w].mine
<1>1. /\ load[w] # Nothing /\ load' = [load EXCEPT ![w] = Nothing] /\ overlap' = overlap
      /\ tables' = [t \in TableNames |-> (tables[t] \ Replaced(t, w)) \cup mine[t]]
  BY DEF Commit
<1>2. IsLoad(load[w])
  BY <1>1 DEF TablesInv, Loads
<1>3. Loads'
  BY <1>1, LoadsKept DEF TablesInv
<1>4. ASSUME NEW t \in TableNames
      PROVE  /\ IsFiniteSet(mine[t]) /\ Unique(t, mine[t]) /\ \A r \in mine[t] : IsRow(t, r)
             /\ IsFiniteSet(tables[t]) /\ \A r \in tables[t] : IsRow(t, r)
             /\ Mine(w, t) = mine[t] /\ Mine(w, t)' = {}
             /\ \A v \in Loaders \ {w} : Mine(v, t)' = Mine(v, t)
  BY <1>1, <1>2 DEF IsLoad, TablesInv, Rows, Loads, Mine
<1>5. \A t \in TableNames : \A r \in tables[t] :
        r \notin Replaced(t, w) => t # "ipi" \/ \A m \in mine[t] : KeyOf(t, r) # KeyOf(t, m)
  BY DEF Replaced, KeyOf
<1> HIDE DEF mine
<1>6. Rows'
  <2>1. ASSUME NEW t \in TableNames
        PROVE  IsFiniteSet(tables'[t]) /\ \A r \in tables'[t] : IsRow(t, r)
    <3>1. IsFiniteSet(tables[t] \ Replaced(t, w))
      BY <1>4, FS_Subset
    <3>2. tables'[t] = (tables[t] \ Replaced(t, w)) \cup mine[t]
      BY <1>1
    <3>3. IsFiniteSet((tables[t] \ Replaced(t, w)) \cup mine[t])
      BY <1>4, <3>1, FS_Union
    <3> QED BY <1>4, <3>2, <3>3
  <2> QED BY <1>1, <2>1 DEF Rows, IsRow
<1>7. OneRow'
  <2> SUFFICES ASSUME NEW t \in TableNames, Guarded(t)'
               PROVE  /\ Unique(t, tables'[t])
                      /\ t # "ipi" => \A v \in Loaders : Apart(t, tables'[t], Mine(v, t)')
                      /\ \A v, z \in Loaders : v # z => Apart(t, Mine(v, t)', Mine(z, t)')
    BY DEF OneRow, Unique, Apart, KeyOf, Statement, Key
  <2>1. Guarded(t) /\ tables'[t] = (tables[t] \ Replaced(t, w)) \cup mine[t]
    BY <1>1 DEF Guarded
  <2>2. /\ Unique(t, tables[t])
        /\ t # "ipi" => \A v \in Loaders : Apart(t, tables[t], Mine(v, t))
        /\ \A v, z \in Loaders : v # z => Apart(t, Mine(v, t), Mine(z, t))
    BY <2>1 DEF TablesInv, OneRow
  <2>3. Unique(t, tables'[t])
    <3>1. ASSUME NEW r \in tables[t], NEW m \in mine[t], r \notin Replaced(t, w)
          PROVE  KeyOf(t, r) # KeyOf(t, m)
      <4>1. CASE t = "ipi"
        BY <1>5, <3>1, <4>1
      <4>2. CASE t # "ipi"
        BY <1>4, <2>2, <4>2 DEF Apart
      <4> QED BY <4>1, <4>2
    <3> QED BY <1>4, <2>1, <2>2, <3>1 DEF Unique
  <2>4. ASSUME t # "ipi", NEW v \in Loaders PROVE Apart(t, tables'[t], Mine(v, t)')
    <3>1. CASE v = w
      BY <1>4, <3>1 DEF Apart
    <3>2. CASE v # w
      BY <1>4, <2>1, <2>2, <2>4, <3>2 DEF Apart
    <3> QED BY <3>1, <3>2
  <2>5. ASSUME NEW v \in Loaders, NEW z \in Loaders, v # z
        PROVE  Apart(t, Mine(v, t)', Mine(z, t)')
    BY <1>4, <2>2, <2>5 DEF Apart
  <2> QED BY <2>3, <2>4, <2>5
<1> QED BY <1>3, <1>6, <1>7 DEF TablesInv

\* The rates of the seed.
LEMMA SeedRowsFact ==
  /\ IsFiniteSet(SeedRows) /\ Unique("rates", SeedRows)
  /\ \A x \in SeedRows : IsRow("rates", x) /\ \E s \in Seeded : x.uf = s.uf
  /\ \A x, r : KeyOf("rates", x) = KeyOf("rates", r) => x.uf = r.uf
<1> DEFINE Of(s) == [uf |-> s.uf, prefix |-> NoCode, pct |-> s.pct, fcp |-> s.fcp,
                     source |-> "SEFAZ-SEED", since |-> day]
           f == [s \in Seeded |-> Of(s)]
<1>1. \A x, r : KeyOf("rates", x) = KeyOf("rates", r) => x.uf = r.uf
  BY DEF KeyOf, Key, Statement
<1>2. IsFiniteSet(SeedRows)
  <2>1. f \in Surjection(Seeded, SeedRows)
    BY DEF Surjection, SeedRows
  <2> QED BY <2>1, TablesAssumption, FS_Surjection
<1>3. \A x \in SeedRows : IsRow("rates", x) /\ \E s \in Seeded : x.uf = s.uf
  <2> SUFFICES ASSUME NEW s \in Seeded PROVE IsRow("rates", Of(s)) /\ Of(s).uf = s.uf
    BY DEF SeedRows
  <2>1. s.pct \in Nat /\ s.fcp \in Nat \cup {None} /\ NoCode \in Seq(Nat)
    BY TablesAssumption DEF NoCode
  <2>2. IsRate(Of(s))
    BY <2>1 DEF IsRate
  <2>3. DOMAIN Of(s) = {"uf", "prefix", "pct", "fcp", "source", "since"}
    OBVIOUS
  <2> HIDE DEF Of
  <2>4. IsRow("rates", Of(s))
    BY <2>2, <2>3 DEF IsRow, Columns, Stamp, Fits
  <2> QED BY <2>4 DEF Of
<1>4. Unique("rates", SeedRows)
  <2> SUFFICES ASSUME NEW s \in Seeded, NEW t \in Seeded, KeyOf("rates", Of(s)) = KeyOf("rates", Of(t))
               PROVE  Of(s) = Of(t)
    BY DEF Unique, SeedRows
  <2>1. s.uf = t.uf
    BY <1>1
  <2> QED BY <2>1, TablesAssumption
<1> QED BY <1>1, <1>2, <1>3, <1>4

(* The seed leaves alone what is already in force.                         *)
LEMMA Seeds ==
  ASSUME TablesInv, Seed PROVE TablesInv'
<1> DEFINE kept == {r \in tables["rates"] : r.source # "SEFAZ-SEED"}
           clash == \E s \in SeedRows : Same(Statement("rates", s), kept) # {}
<1>1. /\ load' = load /\ overlap' = overlap
      /\ \A w \in Open : \A r \in load[w].mine["rates"] : \A s \in Seeded : r.uf # s.uf
      /\ tables' = [tables EXCEPT !["rates"] = IF clash THEN @ ELSE kept \cup SeedRows]
  BY DEF Seed
<1>2. CASE clash
  <2>1. tables' = tables
    BY <1>1, <1>2 DEF TablesInv, Rows
  <2>2. \A v \in Loaders : \A t \in TableNames : Mine(v, t)' \subseteq Mine(v, t)
    BY <1>1 DEF Mine
  <2>3. overlap \in BOOLEAN /\ Loads'
    BY <1>1 DEF TablesInv, Loads, Open
  <2> QED BY <1>1, <2>1, <2>2, <2>3, FewerRows DEF TablesInv, Rows, IsRow
<1>3. CASE ~ clash
  <2>1. /\ "rates" \in TableNames /\ tables'["rates"] = kept \cup SeedRows
        /\ tables' = [t \in TableNames |-> tables'[t]]
        /\ \A t \in TableNames \ {"rates"} : tables'[t] = tables[t]
    BY <1>1, <1>3 DEF TablesInv, Rows, TableNames
  <2>2. \A r \in kept : \A s \in SeedRows : KeyOf("rates", r) # KeyOf("rates", s)
    <3> SUFFICES ASSUME NEW r \in kept, NEW s \in SeedRows, KeyOf("rates", r) = KeyOf("rates", s)
                 PROVE  FALSE
      OBVIOUS
    <3>1. DOMAIN Statement("rates", s) = {"table", "row"}
          /\ Statement("rates", s).table = "rates" /\ Statement("rates", s).row = s
      BY DEF Statement
    <3> DEFINE st == Statement("rates", s)
    <3>2. Key(st) = KeyOf("rates", s) /\ Key([st EXCEPT !.row = r]) = KeyOf("rates", r)
      <4> HIDE DEF st
      <4> QED BY <3>1, KeyOfStatement DEF st
    <3>3. r \in Same(st, kept)
      BY <3>2 DEF Same
    <3> QED BY <1>3, <3>3
  <2>3. \A w \in Loaders : Apart("rates", SeedRows, Mine(w, "rates"))
    <3> SUFFICES ASSUME NEW w \in Loaders, NEW x \in SeedRows, NEW r \in Mine(w, "rates"),
                        KeyOf("rates", x) = KeyOf("rates", r)
                 PROVE  FALSE
      BY DEF Apart
    <3>1. w \in Open /\ r \in load[w].mine["rates"]
      BY DEF Mine, Open
    <3>2. x.uf = r.uf /\ \E s \in Seeded : x.uf = s.uf
      BY SeedRowsFact
    <3> QED BY <1>1, <3>1, <3>2
  <2>4. IsFiniteSet(kept) /\ kept \subseteq tables["rates"]
    BY <2>1, FS_Subset DEF TablesInv, Rows
  <2> HIDE DEF kept, clash
  <2>5. Rows'
    <3>1. IsFiniteSet(tables'["rates"]) /\ \A r \in tables'["rates"] : IsRow("rates", r)
      <4>1. IsFiniteSet(kept \cup SeedRows)
        BY <2>4, FS_Union, SeedRowsFact
      <4>2. \A r \in kept : IsRow("rates", r)
        BY <2>1, <2>4 DEF TablesInv, Rows
      <4> QED BY <2>1, <4>1, <4>2, SeedRowsFact
    <3> QED BY <2>1, <3>1 DEF TablesInv, Rows, IsRow
  <2>6. Loads' /\ \A v \in Loaders : \A t \in TableNames : Mine(v, t)' = Mine(v, t)
    BY <1>1 DEF TablesInv, Loads, Open, Mine
  <2>7. OneRow'
    <3> SUFFICES ASSUME NEW t \in TableNames, Guarded(t)'
                 PROVE  /\ Unique(t, tables'[t])
                        /\ t # "ipi" => \A v \in Loaders : Apart(t, tables'[t], Mine(v, t)')
                        /\ \A v, z \in Loaders : v # z => Apart(t, Mine(v, t)', Mine(z, t)')
      BY DEF OneRow, Unique, Apart, KeyOf, Statement, Key
    <3>1. Guarded(t)
      BY <1>1 DEF Guarded
    <3>2. /\ Unique(t, tables[t])
          /\ t # "ipi" => \A v \in Loaders : Apart(t, tables[t], Mine(v, t))
          /\ \A v, z \in Loaders : v # z => Apart(t, Mine(v, t), Mine(z, t))
      BY <3>1 DEF TablesInv, OneRow
    <3>3. CASE t # "rates"
      <4>1. tables'[t] = tables[t]
        BY <2>1, <3>3
      <4> QED BY <2>6, <3>2, <4>1
    <3>4. CASE t = "rates"
      <4>1. Unique(t, tables'[t])
        BY <2>1, <2>2, <2>4, <3>2, <3>4, SeedRowsFact DEF Unique
      <4>2. ASSUME NEW v \in Loaders PROVE Apart(t, tables'[t], Mine(v, t)')
        BY <2>1, <2>3, <2>4, <2>6, <3>2, <3>4 DEF Apart
      <4> QED BY <2>6, <3>2, <4>1, <4>2
    <3> QED BY <3>3, <3>4
  <2> QED BY <2>5, <2>6, <2>7 DEF TablesInv
<1> QED BY <1>2, <1>3
-----------------------------------------------------------------------------
(* The walk along the migrations of a code                                 *)

\* f holds the values of the first n turns of a loop whose turn is F.
IsIter(f, D, a, F, n) ==
  /\ f = [k \in 0..n |-> IF k = 0 THEN a ELSE F[f[k - 1]]]
  /\ \A k \in 0..n : f[k] \in D

(* A function can be iterated any number of times.                         *)
LEMMA IterExists ==
  ASSUME NEW D, NEW a \in D, NEW F \in [D -> D], NEW n \in Nat
  PROVE  \E f : IsIter(f, D, a, F, n)
<1> DEFINE S == {m \in Nat : \E f : IsIter(f, D, a, F, m)}
<1>1. 0 \in S
  <2>1. IsIter([k \in 0..0 |-> a], D, a, F, 0)
    BY DEF IsIter
  <2> QED BY <2>1
<1>2. ASSUME NEW m \in S PROVE m + 1 \in S
  <2>1. PICK g : IsIter(g, D, a, F, m)
    OBVIOUS
  <2> DEFINE h == [k \in 0..(m + 1) |-> IF k = m + 1 THEN F[g[m]] ELSE g[k]]
  <2>2. \A k \in 0..m : g[k] = (IF k = 0 THEN a ELSE F[g[k - 1]]) /\ g[k] \in D
    BY <2>1 DEF IsIter
  <2>3. \A k \in 0..(m + 1) : h[k] = (IF k = 0 THEN a ELSE F[h[k - 1]]) /\ h[k] \in D
    BY <2>2
  <2>4. IsIter(h, D, a, F, m + 1)
    BY <2>3 DEF IsIter
  <2> QED BY <2>4
<1> HIDE DEF S
<1>3. S = Nat
  BY <1>1, <1>2, NatSetInduction DEF S
<1> QED BY <1>3 DEF S

(* A finite set has a finite image, and none that is larger.               *)
LEMMA ImageFinite ==
  ASSUME NEW S, IsFiniteSet(S), NEW f
  PROVE  IsFiniteSet({f[x] : x \in S}) /\ Cardinality({f[x] : x \in S}) <= Cardinality(S)
<1> DEFINE T == {f[x] : x \in S}
           g == [x \in S |-> f[x]]
<1>1. g \in Surjection(S, T)
  BY DEF Surjection
<1> HIDE DEF T, g
<1>2. IsFiniteSet(T) /\ Cardinality(T) <= Cardinality(S)
  BY <1>1, FS_Surjection
<1> QED BY <1>2 DEF T

(* Finitely many migrations name finitely many codes.                      *)
LEMMA CodesFinite ==
  ASSUME IsFiniteSet(tables["migr"])
  PROVE  /\ IsFiniteSet(Codes)
         /\ \A d, date : Successors(d, date) \subseteq Codes
<1> DEFINE R == tables["migr"]
           from == [m \in R |-> m.from]
           to == [m \in R |-> m.to]
           A == {from[m] : m \in R}
           B == {to[m] : m \in R}
<1>1. IsFiniteSet(A) /\ IsFiniteSet(B)
  <2> HIDE DEF from, to
  <2> QED BY ImageFinite
<1>2. Codes = A \cup B
  <2>1. \A x : x \in Codes <=> \E m \in R : x = m.from \/ x = m.to
    BY DEF Codes
  <2>2. \A x : x \in A \cup B <=> \E m \in R : x = m.from \/ x = m.to
    OBVIOUS
  <2> QED BY <2>1, <2>2
<1>3. \A d, date : Successors(d, date) \subseteq Codes
  BY DEF Successors, Latest, Codes
<1> HIDE DEF A, B
<1> QED BY <1>1, <1>2, <1>3, FS_Union

(* What is reached from a code is closed under succession: the set grows   *)
(* in every round until it is, and there are no more codes than rounds.    *)
LEMMA ReachedClosed ==
  ASSUME IsFiniteSet(tables["migr"]), NEW c, NEW date
  PROVE  /\ Successors(c, date) \subseteq Reached(c, date)
         /\ \A d \in Reached(c, date) : Successors(d, date) \subseteq Reached(c, date)
<1> DEFINE K == Cardinality(Codes)
           Wider(X) == X \cup UNION {Successors(d, date) : d \in X}
           Eq(f) == f = [n \in 0..K |-> IF n = 0 THEN Successors(c, date)
                          ELSE f[n - 1] \cup UNION {Successors(d, date) : d \in f[n - 1]}]
           f == CHOOSE g : Eq(g)
           F == [X \in SUBSET Codes |-> Wider(X)]
<1>1. /\ K \in Nat /\ IsFiniteSet(Codes)
      /\ \A d : Successors(d, date) \subseteq Codes
  BY CodesFinite, FS_CardinalityType
<1>2. Eq(f)
  <2>1. F \in [SUBSET Codes -> SUBSET Codes] /\ Successors(c, date) \in SUBSET Codes
    BY <1>1
  <2> HIDE DEF F
  <2>0. PICK g : IsIter(g, SUBSET Codes, Successors(c, date), F, K)
    BY <1>1, <2>1, IterExists
  <2>2. /\ g = [k \in 0..K |-> IF k = 0 THEN Successors(c, date) ELSE F[g[k - 1]]]
        /\ \A k \in 0..K : g[k] \in SUBSET Codes
    BY <2>0 DEF IsIter
  <2>3. ASSUME NEW k \in 0..K, k # 0 PROVE F[g[k - 1]] = Wider(g[k - 1])
    <3>1. k - 1 \in 0..K
      BY <1>1, <2>3
    <3>2. g[k - 1] \in SUBSET Codes
      BY <2>2, <3>1
    <3> QED BY <3>2 DEF F
  <2>4. Eq(g)
    BY <2>2, <2>3
  <2> HIDE DEF Eq
  <2> QED BY <2>4
<1>3. Reached(c, date) = f[K]
  BY DEF Reached
<1> HIDE DEF f
<1>4. f[0] = Successors(c, date) /\ \A n \in 0..K : n # 0 => f[n] = Wider(f[n - 1])
  BY <1>1, <1>2, SMTT(40)
<1> DEFINE Closed(X) == \A d \in X : Successors(d, date) \subseteq X
           Good(n) == /\ f[n] \subseteq Codes /\ Successors(c, date) \subseteq f[n]
                      /\ Closed(f[n]) \/ Cardinality(f[n]) >= n + 1
           S == {n \in Nat : n <= K => Good(n)}
<1>5. \A X \in SUBSET Codes : IsFiniteSet(X) /\ Cardinality(X) \in Nat /\ Cardinality(X) <= K
  BY <1>1, FS_Subset, FS_CardinalityType
<1>6. 0 \in S
  <2>1. CASE Successors(c, date) = {}
    BY <1>1, <1>4, <2>1
  <2>2. CASE Successors(c, date) # {}
    <3>1. Cardinality(f[0]) # 0 /\ f[0] \in SUBSET Codes
      BY <1>1, <1>4, <1>5, <2>2, FS_EmptySet
    <3>2. Cardinality(f[0]) \in Nat
      BY <1>5, <3>1
    <3>3. Cardinality(f[0]) >= 0 + 1
      BY <3>1, <3>2
    <3> QED BY <1>4, <3>1, <3>3
  <2> QED BY <2>1, <2>2
<1>7. ASSUME NEW n \in S PROVE n + 1 \in S
  <2> SUFFICES ASSUME n + 1 <= K PROVE Good(n + 1)
    OBVIOUS
  <2>1. n \in Nat /\ n + 1 \in 0..K /\ n + 1 # 0 /\ (n + 1) - 1 = n /\ n <= K
    BY <1>1
  <2>2. Good(n)
    BY <2>1
  <2>3. f[n + 1] = Wider(f[n])
    BY <1>4, <2>1
  <2>4. f[n] \subseteq f[n + 1] /\ f[n + 1] \subseteq Codes /\ (Closed(f[n]) => f[n + 1] = f[n])
        /\ (f[n + 1] = f[n] => Closed(f[n]))
    BY <1>1, <2>2, <2>3
  <2>5. CASE Closed(f[n])
    BY <2>2, <2>4, <2>5
  <2>6. CASE ~ Closed(f[n])
    <3>1. f[n] # f[n + 1] /\ f[n + 1] \in SUBSET Codes /\ f[n] \in SUBSET f[n + 1]
      BY <2>4, <2>6
    <3>2. /\ IsFiniteSet(f[n + 1]) /\ Cardinality(f[n + 1]) \in Nat /\ Cardinality(f[n]) \in Nat
      BY <1>5, <2>2, <3>1
    <3>3. Cardinality(f[n]) <= Cardinality(f[n + 1]) /\ Cardinality(f[n]) # Cardinality(f[n + 1])
      BY <3>1, <3>2, FS_Subset
    <3>4. Cardinality(f[n]) >= n + 1
      BY <2>2, <2>6
    <3>5. Cardinality(f[n + 1]) >= (n + 1) + 1
      BY <2>1, <3>2, <3>3, <3>4
    <3> QED BY <2>2, <2>4, <3>5
  <2> QED BY <2>5, <2>6
<1> HIDE DEF S
<1>8. S = Nat
  BY <1>6, <1>7, NatSetInduction DEF S
<1>9. Good(K)
  BY <1>1, <1>8 DEF S
<1>10. Closed(f[K])
  <2>1. Cardinality(f[K]) <= K /\ Cardinality(f[K]) \in Nat
    BY <1>5, <1>9
  <2> QED BY <1>1, <1>9, <2>1
<1> QED BY <1>3, <1>9, <1>10

\* One turn of resolve_current, and where it stops.
WalkStep(p, migr, date) ==
  LET m == Latest(p.at, migr, date)
  IN  IF p.at = NoCode \/ p.at \in p.seen \/ m = {} THEN p
      ELSE [at |-> (CHOOSE x \in m : TRUE).to, seen |-> p.seen \cup {p.at}]

(* ResolveCurrent takes one step more than there are migrations.           *)
LEMMA WalkIs ==
  ASSUME NEW migr, IsFiniteSet(migr), NEW code, NEW date
  PROVE  \E walk :
           /\ ResolveCurrent(code, migr, date) = walk[Cardinality(migr) + 1].at
           /\ walk[0] = [at |-> code, seen |-> {}]
           /\ \A n \in 0..Cardinality(migr) : walk[n + 1] = WalkStep(walk[n], migr, date)
<1> DEFINE N == Cardinality(migr) + 1
           Body(p) ==
             LET m == Latest(p.at, migr, date)
             IN  IF p.at = NoCode \/ p.at \in p.seen \/ m = {} THEN p
                 ELSE [at |-> (CHOOSE x \in m : TRUE).to, seen |-> p.seen \cup {p.at}]
           Eq(g) == g = [n \in 0..N |-> IF n = 0 THEN [at |-> code, seen |-> {}]
                           ELSE LET p == g[n - 1]
                                    m == Latest(p.at, migr, date)
                                IN  IF p.at = NoCode \/ p.at \in p.seen \/ m = {} THEN p
                                    ELSE [at |-> (CHOOSE x \in m : TRUE).to,
                                          seen |-> p.seen \cup {p.at}]]
           walk == CHOOSE g : Eq(g)
           A == {m.to : m \in migr} \cup {code}
           D == [at : A, seen : SUBSET A]
           F == [p \in D |-> WalkStep(p, migr, date)]
<1>1. N \in Nat /\ Cardinality(migr) \in Nat
  BY FS_CardinalityType
<1>2. F \in [D -> D]
  <2> SUFFICES ASSUME NEW p \in D PROVE WalkStep(p, migr, date) \in D
    OBVIOUS
  <2> DEFINE m == Latest(p.at, migr, date)
             x == CHOOSE x \in m : TRUE
  <2>1. CASE p.at = NoCode \/ p.at \in p.seen \/ m = {}
    BY <2>1 DEF WalkStep
  <2>2. CASE ~ (p.at = NoCode \/ p.at \in p.seen \/ m = {})
    <3>1. WalkStep(p, migr, date) = [at |-> x.to, seen |-> p.seen \cup {p.at}]
      BY <2>2 DEF WalkStep
    <3>2. x \in m
      BY <2>2
    <3>3. m \subseteq migr
      BY DEF Latest
    <3> HIDE DEF x, m
    <3>4. x.to \in A
      BY <3>2, <3>3
    <3> QED BY <3>1, <3>4
  <2> QED BY <2>1, <2>2
<1>3. Eq(walk)
  <2>1. [at |-> code, seen |-> {}] \in D
    OBVIOUS
  <2> HIDE DEF F, D, N
  <2>2. PICK g : IsIter(g, D, [at |-> code, seen |-> {}], F, N)
    BY <1>1, <1>2, <2>1, IterExists
  <2>3. /\ g = [k \in 0..N |-> IF k = 0 THEN [at |-> code, seen |-> {}] ELSE F[g[k - 1]]]
        /\ \A k \in 0..N : g[k] \in D
    BY <2>2 DEF IsIter
  <2>4. ASSUME NEW k \in 0..N, k # 0 PROVE F[g[k - 1]] = WalkStep(g[k - 1], migr, date)
    <3>1. k - 1 \in 0..N
      BY <1>1, <2>4
    <3>2. g[k - 1] \in D
      BY <2>3, <3>1
    <3> QED BY <3>2 DEF F
  <2>5. Eq(g)
    BY <2>3, <2>4 DEF WalkStep
  <2> HIDE DEF Eq
  <2> QED BY <2>5
<1>4. ResolveCurrent(code, migr, date) = walk[N].at
  BY DEF ResolveCurrent
<1> HIDE DEF walk
<1>5. walk[0] = [at |-> code, seen |-> {}]
  BY <1>1, <1>3
<1>6. ASSUME NEW n \in 0..Cardinality(migr) PROVE walk[n + 1] = WalkStep(walk[n], migr, date)
  <2>1. n + 1 \in 0..N /\ n + 1 # 0 /\ (n + 1) - 1 = n
    BY <1>1, SMTT(40)
  <2>2. \A k \in 0..N : k # 0 => walk[k] = Body(walk[k - 1])
    BY <1>3
  <2>3. walk[n + 1] = Body(walk[(n + 1) - 1])
    BY <2>1, <2>2
  <2> QED BY <2>1, <2>3 DEF WalkStep
<1> QED BY <1>4, <1>5, <1>6

(* As long as the walk goes on it meets a new code in every turn, and      *)
(* there are more turns than migrations, so it comes to a stop.            *)
LEMMA WalkEnds ==
  ASSUME IsFiniteSet(tables["migr"]), NEW c, NEW date
  PROVE  LET r == ResolveCurrent(c, tables["migr"], date)
         IN  /\ r = c \/ r \in Reached(c, date)
             /\ r = NoCode \/ Latest(r, tables["migr"], date) = {} \/ r \in Reached(r, date)
<1> DEFINE R == tables["migr"]
           K == Cardinality(R)
           Next1(p) == WalkStep(p, R, date)
           Stops(p) == p.at = NoCode \/ p.at \in p.seen \/ Latest(p.at, R, date) = {}
           from == [m \in R |-> m.from]
           Froms == {from[m] : m \in R}
<1>0. K \in Nat
  BY FS_CardinalityType
<1>1. PICK walk :
        /\ ResolveCurrent(c, R, date) = walk[K + 1].at
        /\ walk[0] = [at |-> c, seen |-> {}]
        /\ \A n \in 0..K : walk[n + 1] = Next1(walk[n])
  <2> HIDE DEF R
  <2> QED BY WalkIs DEF R
<1>2. IsFiniteSet(Froms) /\ Cardinality(Froms) <= K
  <2> HIDE DEF from
  <2> QED BY ImageFinite
<1>3. \A T \in SUBSET Froms : IsFiniteSet(T) /\ Cardinality(T) \in Nat /\ Cardinality(T) <= K
  <2> HIDE DEF Froms
  <2>1. \A T \in SUBSET Froms : /\ IsFiniteSet(T) /\ Cardinality(T) \in Nat
                                /\ Cardinality(T) <= Cardinality(Froms)
    BY <1>2, FS_Subset, FS_CardinalityType
  <2>2. Cardinality(Froms) \in Nat
    BY <1>2, FS_CardinalityType
  <2> QED BY <1>0, <1>2, <2>1, <2>2
<1>4. ASSUME NEW p, Stops(p) PROVE Next1(p) = p
  BY <1>4 DEF WalkStep
<1>5. ASSUME NEW p, ~ Stops(p)
      PROVE  /\ Next1(p).at \in Successors(p.at, date) /\ Next1(p).seen = p.seen \cup {p.at}
             /\ p.at \in Froms /\ p.at \notin p.seen
  <2> DEFINE m == Latest(p.at, R, date)
             x == CHOOSE x \in m : TRUE
  <2>1. Next1(p) = [at |-> x.to, seen |-> p.seen \cup {p.at}] /\ x \in m
    BY <1>5 DEF WalkStep
  <2>2. x.to \in Successors(p.at, date)
    BY <2>1 DEF Successors
  <2>3. x \in R /\ x.from = p.at
    BY <2>1 DEF Latest
  <2> HIDE DEF x, m
  <2> QED BY <1>5, <2>1, <2>2, <2>3
<1> DEFINE Good(n) ==
             LET p == walk[n] IN
             /\ p.at = c \/ p.at \in Reached(c, date)
             /\ \A s \in p.seen : p.at \in Reached(s, date)
             /\ p.seen \subseteq Froms
             /\ Stops(p) \/ Cardinality(p.seen) = n
           S == {n \in Nat : n <= K + 1 => Good(n)}
<1> HIDE DEF Froms
<1>6. 0 \in S
  BY <1>1, FS_EmptySet
<1>7. ASSUME NEW n \in S PROVE n + 1 \in S
  <2> SUFFICES ASSUME n + 1 <= K + 1 PROVE Good(n + 1)
    OBVIOUS
  <2>1. n \in Nat /\ n \in 0..K /\ n <= K + 1
    BY <1>0
  <2>2. Good(n) /\ walk[n + 1] = Next1(walk[n])
    BY <1>1, <2>1
  <2>3. CASE Stops(walk[n])
    <3>1. walk[n + 1] = walk[n]
      BY <1>4, <2>2, <2>3
    <3> QED BY <2>2, <2>3, <3>1
  <2>4. CASE ~ Stops(walk[n])
    <3> DEFINE p == walk[n]
               q == walk[n + 1]
    <3>1. /\ q.at \in Successors(p.at, date) /\ q.seen = p.seen \cup {p.at}
          /\ p.at \in Froms /\ p.at \notin p.seen
      BY <1>5, <2>2, <2>4
    <3>2. \A e : p.at = e \/ p.at \in Reached(e, date) => q.at \in Reached(e, date)
      BY <3>1, ReachedClosed
    <3>3. Cardinality(p.seen) = n /\ IsFiniteSet(p.seen)
      BY <1>3, <2>2, <2>4
    <3>4. Cardinality(q.seen) = n + 1
      BY <3>1, <3>3, FS_AddElement
    <3> HIDE DEF p, q
    <3>5. /\ q.at = c \/ q.at \in Reached(c, date)
          /\ \A s \in q.seen : q.at \in Reached(s, date)
          /\ q.seen \subseteq Froms
      BY <2>2, <3>1, <3>2 DEF p
    <3> QED BY <3>4, <3>5 DEF q
  <2> QED BY <2>3, <2>4
<1> HIDE DEF S
<1>8. S = Nat
  BY <1>6, <1>7, NatSetInduction DEF S
<1>9. Good(K + 1)
  BY <1>0, <1>8 DEF S
<1>10. Stops(walk[K + 1])
  <2>1. Cardinality(walk[K + 1].seen) <= K /\ Cardinality(walk[K + 1].seen) \in Nat
    BY <1>3, <1>9
  <2> QED BY <1>0, <1>9, <2>1
<1> QED BY <1>1, <1>9, <1>10

(* So the walk comes to an end, at a code nothing has replaced.            *)
LEMMA MigrationsResolved == ASSUME IsFiniteSet(tables["migr"]) PROVE ResolvedIsCurrent
BY WalkEnds DEF ResolvedIsCurrent
-----------------------------------------------------------------------------
(* The empty tables satisfy the invariant.                                 *)
LEMMA TablesInit == ASSUME ReferenceInit PROVE TablesInv
<1>1. /\ overlap = FALSE /\ load = [w \in Loaders |-> Nothing]
      /\ tables = [t \in TableNames |-> IF t = "rates" THEN HandMade ELSE {}]
  BY DEF ReferenceInit, NoRows
<1>2. /\ IsFiniteSet(HandMade) /\ \A r \in HandMade : IsRow("rates", r)
      /\ Unique("rates", HandMade)
  <2>1. \A r, s \in HandMade : KeyOf("rates", r) = KeyOf("rates", s) => r = s
    <3>1. \A r, s : KeyOf("rates", r) = KeyOf("rates", s) => r.uf = s.uf /\ r.prefix = s.prefix
      BY DEF KeyOf, Key, Statement
    <3> QED BY <3>1, TablesAssumption
  <2> QED BY <2>1, TablesAssumption DEF IsRow, Stamp, Fits, Unique
<1>3. Loads /\ \A w \in Loaders : \A t : Mine(w, t) = {}
  BY <1>1 DEF Loads, Mine, Open
<1>4. ASSUME NEW t \in TableNames
      PROVE  /\ IsFiniteSet(tables[t]) /\ Unique(t, tables[t])
             /\ \A r \in tables[t] : IsRow(t, r)
  BY <1>1, <1>2, FS_EmptySet DEF Unique
<1>5. Rows
  BY <1>1, <1>4 DEF Rows
<1>6. OneRow
  BY <1>3, <1>4 DEF OneRow, Apart
<1> QED BY <1>3, <1>5, <1>6 DEF TablesInv

\* The tables and the loads are none of a step's business.
Aside == UNCHANGED <<tables, load, overlap>>

(* The steps, apart from those that change no table.                       *)
LEMMA ReferenceStep ==
  ASSUME [ReferenceNext]_referenceVars
  PROVE  \/ \E w \in Loaders : \E kind : \E file \in Published : BeginLoad(w, kind, file)
         \/ \E w \in Loaders : Skip(w) \/ Wait(w) \/ Rollback(w) \/ Insert(w) \/ Commit(w)
         \/ Seed
         \/ Aside
<1>1. ASSUME NEW w \in Loaders, Loading(w)
      PROVE  \/ \E kind : \E file \in Published : BeginLoad(w, kind, file)
             \/ Skip(w) \/ Wait(w) \/ Rollback(w) \/ Insert(w) \/ Commit(w)
  <2>1. CASE \E t \in RateTables : BeginLoad(w, "sefaz", SefazStatements(t.uf, t.html))
    BY <2>1 DEF Published
  <2>2. CASE \E f \in TipiFiles : BeginLoad(w, "tipi", TipiStatements(f))
    BY <2>2 DEF Published
  <2>3. CASE \E f \in MigrationFiles : BeginLoad(w, "migr", MigrationStatements(f))
    BY <2>3 DEF Published
  <2> QED BY <1>1, <2>1, <2>2, <2>3 DEF Loading
<1>2. CASE Answer \/ DayPasses \/ \E req \in Requests : Ask(req) \/ GetIcms(req, req.hint)
  BY <1>2 DEF Answer, DayPasses, Ask, GetIcms, Aside
<1>3. CASE UNCHANGED referenceVars
  BY <1>3 DEF referenceVars, Aside
<1> QED BY <1>1, <1>2, <1>3 DEF ReferenceNext

(* Every step keeps the invariant.                                         *)
LEMMA TablesStep == ASSUME TablesInv, [ReferenceNext]_referenceVars PROVE TablesInv'
<1>1. CASE Aside
  <2>1. /\ overlap \in BOOLEAN /\ Loads'
        /\ \A v \in Loaders : \A t \in TableNames : Mine(v, t)' \subseteq Mine(v, t)
    BY <1>1 DEF Aside, TablesInv, Loads, Open, Mine
  <2> QED BY <1>1, <2>1, FewerRows DEF Aside, TablesInv, Rows, IsRow
<1> QED BY <1>1, ReferenceStep, Begins, SkipsOrWaits, Inserting, Commits, Seeds

(* The invariant holds in every reachable state.                           *)
LEMMA TablesAlways == ReferenceSpec => []TablesInv
BY TablesInit, TablesStep, PTL DEF ReferenceSpec

(* The reference tables say one thing of a code, a state and a day, however *)
(* many loads are open at a time and whatever they publish: TablesInv is   *)
(* inductive (the keys of what is in force and of what the open            *)
(* transactions hold are apart), and the walk along finitely many          *)
(* migrations ends (WalkEnds).                                             *)
THEOREM TablesAreSound == ReferenceSpec => []TablesSound
<1>1. ASSUME TablesInv PROVE TablesSound
  <2>1. OneRowInForce
    BY <1>1 DEF TablesInv, OneRow, OneRowInForce, Guarded, Unique, KeyOf
  <2>2. TwiceOnlyIfConcurrent
    <3> SUFFICES ASSUME ~ overlap, NEW r \in tables["migr"], NEW s \in tables["migr"],
                        r.from = s.from, r.to = s.to, r.start = s.start
                 PROVE  r = s
      BY DEF TwiceOnlyIfConcurrent
    <3>1. "migr" \in TableNames /\ Guarded("migr")
      BY DEF TableNames, Guarded
    <3>2. KeyOf("migr", r) = KeyOf("migr", s)
      BY DEF KeyOf, Key, Statement
    <3> QED BY <1>1, <3>1, <3>2 DEF TablesInv, OneRow, Unique
  <2>3. ResolvedIsCurrent
    BY <1>1, MigrationsResolved DEF TablesInv, Rows, TableNames
  <2> QED BY <2>1, <2>2, <2>3 DEF TablesSound
<1> QED BY <1>1, TablesAlways, PTL
-----------------------------------------------------------------------------
(* The triage of an item                                                   *)

(* A finite set of integers that is not empty has a largest member.        *)
LEMMA FiniteMax ==
  ASSUME NEW S, IsFiniteSet(S), S # {}, NEW g, \A x \in S : g[x] \in Int
  PROVE  \E x \in S : \A y \in S : g[y] <= g[x]
<1> DEFINE Has(T) == \E x \in T : \A y \in T : g[y] <= g[x]
           B == {k \in Nat : \A T \in SUBSET S : Cardinality(T) = k /\ T # {} => Has(T)}
<1>1. \A T \in SUBSET S : IsFiniteSet(T) /\ Cardinality(T) \in Nat
  BY FS_Subset, FS_CardinalityType
<1>2. 0 \in B
  BY <1>1, FS_EmptySet
<1>3. ASSUME NEW k \in B PROVE k + 1 \in B
  <2> SUFFICES ASSUME NEW T \in SUBSET S, Cardinality(T) = k + 1, T # {} PROVE Has(T)
    OBVIOUS
  <2>1. PICK x \in T : TRUE
    OBVIOUS
  <2> DEFINE U == T \ {x}
  <2>2. U \in SUBSET S /\ T = U \cup {x} /\ x \in S
    OBVIOUS
  <2>3. Cardinality(U) = k
    <3>1. Cardinality(U) = (k + 1) - 1
      BY <1>1, <2>1, FS_RemoveElement, SMTT(40)
    <3> QED BY <3>1
  <2> HIDE DEF U
  <2>4. CASE U = {}
    <3>1. T = {x} /\ g[x] <= g[x]
      BY <2>2, <2>4
    <3> QED BY <3>1
  <2>5. CASE U # {}
    <3>1. Has(U)
      BY <2>2, <2>3, <2>5
    <3>2. PICK u \in U : \A y \in U : g[y] <= g[u]
      BY <3>1
    <3>3. CASE g[x] <= g[u]
      <4>1. \A y \in T : g[y] <= g[u]
        BY <2>2, <3>2, <3>3
      <4> QED BY <2>2, <4>1
    <3>4. CASE ~ (g[x] <= g[u])
      <4>1. \A y \in T : g[y] \in Int /\ g[u] \in Int /\ g[x] \in Int
        BY <2>2
      <4>2. \A y \in T : g[y] <= g[x]
        BY <2>2, <3>2, <3>4, <4>1
      <4> QED BY <2>2, <4>2
    <3> QED BY <3>3, <3>4
  <2> QED BY <2>4, <2>5
<1> HIDE DEF B
<1>4. B = Nat
  BY <1>2, <1>3, NatSetInduction DEF B
<1> QED BY <1>1, <1>4 DEF B

\* The greater of two numbers, and the lesser.
LEMMA OfTwo ==
  ASSUME NEW a \in Int, NEW b \in Int
  PROVE  Max({a, b}) = (IF a >= b THEN a ELSE b) /\ Min({a, b}) = (IF a <= b THEN a ELSE b)
<1>1. \A x : x \in {a, b} => x \in Int
  OBVIOUS
<1>2. Max({a, b}) \in {a, b} /\ \A y \in {a, b} : Max({a, b}) >= y
  <2>1. \E x \in {a, b} : \A y \in {a, b} : x >= y
    <3>1. CASE a >= b
      BY <3>1
    <3>2. CASE ~ (a >= b)
      BY <3>2
    <3> QED BY <3>1, <3>2
  <2> QED BY <2>1 DEF Max
<1>3. Min({a, b}) \in {a, b} /\ \A y \in {a, b} : Min({a, b}) =< y
  <2>1. \E x \in {a, b} : \A y \in {a, b} : x =< y
    <3>1. CASE a <= b
      BY <3>1
    <3>2. CASE ~ (a <= b)
      BY <3>2
    <3> QED BY <3>1, <3>2
  <2> QED BY <2>1 DEF Min
<1> QED BY <1>1, <1>2, <1>3

\* What a match says that is not flagged, source by source.
LEMMA ExactUnflagged ==
  ASSUME NEW hint, NEW rows, ~ MatchExact(hint, rows).conflito
  PROVE  rows # {} /\ MatchExact(hint, rows).candidate.code = hint
BY DEF MatchExact, NoMatch, Matched, Candidate

(* A match by similarity that is not flagged is above its threshold.       *)
LEMMA FuzzyUnflagged ==
  ASSUME NEW like, NEW catalog, IsFiniteSet(catalog),
         like # <<>> => \A r \in catalog : like[r.text] \in Int,
         ~ MatchFuzzy(like, catalog).conflito
  PROVE  \E r \in catalog : /\ r.code = MatchFuzzy(like, catalog).candidate.code
                            /\ like[r.text] >= 820
<1>1. catalog # {} /\ like # <<>>
  BY DEF MatchFuzzy, NoMatch, Matched
<1> DEFINE g == [r \in catalog |-> like[r.text]]
           best == CHOOSE r \in catalog : \A s \in catalog : like[r.text] >= like[s.text]
<1>2. \E r \in catalog : \A s \in catalog : like[r.text] >= like[s.text]
  <2>1. \A r \in catalog : g[r] \in Int /\ g[r] = like[r.text]
    BY <1>1
  <2> HIDE DEF g
  <2>2. PICK r \in catalog : \A s \in catalog : g[s] <= g[r]
    BY <1>1, <2>1, FiniteMax
  <2> QED BY <2>1, <2>2
<1>3. best \in catalog
  BY <1>2
<1>4. MatchFuzzy(like, catalog)
        = Matched(Candidate(best.code, like[best.text], "FUZZY"), like[best.text] < FuzzyThreshold)
  BY <1>1 DEF MatchFuzzy
<1> HIDE DEF best
<1>5. like[best.text] \in Int
  BY <1>1, <1>3
<1>6. \A c, f : Matched(c, f).conflito = f /\ Matched(c, f).candidate = c
  BY DEF Matched
<1>7. ~ (like[best.text] < FuzzyThreshold)
  <2> DEFINE flag == like[best.text] < FuzzyThreshold
  <2>1. MatchFuzzy(like, catalog).conflito = flag
    BY <1>4, <1>6
  <2> HIDE DEF flag
  <2>2. ~ flag
    BY <2>1
  <2> QED BY <2>2 DEF flag
<1>8. MatchFuzzy(like, catalog).candidate.code = best.code
  BY <1>4, <1>6 DEF Candidate
<1>9. like[best.text] >= 820
  BY <1>5, <1>7 DEF FuzzyThreshold
<1> QED BY <1>3, <1>8, <1>9

(* A semantic hit that is not flagged is above its threshold.              *)
LEMMA SemanticUnflagged ==
  ASSUME NEW hits, IsFiniteSet(hits), \A h \in hits : h.score \in Int,
         ~ HitsToCandidate(hits).conflito
  PROVE  \E h \in hits : h.code = HitsToCandidate(hits).candidate.code /\ h.score >= 780
<1>1. hits # {}
  BY DEF HitsToCandidate, NoMatch, Matched
<1> DEFINE g == [h \in hits |-> h.score]
           best == CHOOSE h \in hits : \A k \in hits : h.score >= k.score
           confidence == Max({0, Min({1000, best.score})})
<1>2. \E h \in hits : \A k \in hits : h.score >= k.score
  <2>1. \A h \in hits : g[h] \in Int /\ g[h] = h.score
    OBVIOUS
  <2> HIDE DEF g
  <2>2. PICK h \in hits : \A k \in hits : g[k] <= g[h]
    BY <1>1, <2>1, FiniteMax
  <2> QED BY <2>1, <2>2
<1>3. best \in hits
  BY <1>2
<1>4. HitsToCandidate(hits)
        = Matched(Candidate(best.code, confidence, "RAG"), confidence < SemanticThreshold)
  BY <1>1 DEF HitsToCandidate
<1> HIDE DEF best
<1>5. best.score \in Int
  BY <1>3
<1>6. confidence \in Int /\ (confidence >= 780 => best.score >= 780)
  <2>1. Min({1000, best.score}) = IF 1000 <= best.score THEN 1000 ELSE best.score
    <3> DEFINE b == best.score
    <3> HIDE DEF b
    <3>1. b \in Int /\ 1000 \in Int
      BY <1>5 DEF b
    <3>2. Min({1000, b}) = IF 1000 <= b THEN 1000 ELSE b
      BY <3>1, OfTwo
    <3> QED BY <3>2 DEF b
  <2>2. Min({1000, best.score}) \in Int
    BY <1>5, <2>1
  <2>3. confidence = IF 0 >= Min({1000, best.score}) THEN 0 ELSE Min({1000, best.score})
    BY <2>2, OfTwo
  <2> HIDE DEF confidence
  <2> QED BY <1>5, <2>1, <2>2, <2>3
<1> HIDE DEF confidence
<1>7. \A c, f : Matched(c, f).conflito = f /\ Matched(c, f).candidate = c
  BY DEF Matched
<1>8. ~ (confidence < SemanticThreshold)
  BY <1>4, <1>7
<1>9. HitsToCandidate(hits).candidate.code = best.code
  BY <1>4, <1>7 DEF Candidate
<1>10. best.score >= 780
  BY <1>6, <1>8 DEF SemanticThreshold
<1> QED BY <1>3, <1>9, <1>10

(* An item that is not flagged for review rests on an NCM in force that    *)
(* was given or is similar enough, or on a sure semantic hit, whatever is  *)
(* in the tables and however similar the descriptions are: the best of     *)
(* finitely many rows, and of finitely many hits, exists (FiniteMax), and  *)
(* is unflagged only above its threshold.                                  *)
THEOREM UnflaggedIsEvident == ReferenceSpec => []UnflaggedRestsOnEvidence
<1>1. ASSUME TablesInv PROVE UnflaggedRestsOnEvidence
  <2> DEFINE ncms == tables["ncms"]
  <2>1. IsFiniteSet(ncms) /\ \A r \in ncms : r.text \in Texts
    BY <1>1 DEF TablesInv, Rows, TableNames, IsRow, Fits
  <2> SUFFICES ASSUME NEW asked \in Requests, NEW hits \in Suggestions, NEW req,
                      req = [asked EXCEPT !.day = day],
                      ~ MatchNcm(req, ncms, hits).conflito
               PROVE  \/ \E r \in ncms :
                           /\ r.code = MatchNcm(req, ncms, hits).candidate.code
                           /\ req.hint = r.code \/ (req.hint = NoCode /\ req.like[r.text] >= 820)
                      \/ /\ req.hint = NoCode
                         /\ \E h \in hits : /\ h.code = MatchNcm(req, ncms, hits).candidate.code
                                            /\ h.score >= 780
    BY DEF UnflaggedRestsOnEvidence
  <2>2. req.like = asked.like /\ (asked.like # <<>> => \A text \in Texts : asked.like[text] \in Int)
    BY RequestsAssumption
  <2>3. IsFiniteSet(hits) /\ \A h \in hits : h.score \in Int
    BY RequestsAssumption
  <2> HIDE DEF ncms
  <2>4. CASE req.hint # NoCode
    <3> DEFINE rows == GetNcm(ncms, req.hint, req.day)
    <3>1. MatchNcm(req, ncms, hits) = MatchExact(req.hint, rows)
      BY <2>4 DEF MatchNcm
    <3>2. rows \subseteq ncms /\ \A r \in rows : r.code = req.hint
      BY DEF GetNcm, InForce
    <3> HIDE DEF rows
    <3>3. rows # {} /\ MatchExact(req.hint, rows).candidate.code = req.hint
      BY <3>1, ExactUnflagged
    <3> QED BY <3>1, <3>2, <3>3
  <2>5. CASE req.hint = NoCode
    <3> DEFINE catalog == InForce(ncms, req.day)
               fuzzy == MatchFuzzy(req.like, catalog)
               semantic == HitsToCandidate(hits)
               m == MatchNcm(req, ncms, hits)
    <3>1. m = WithFallback(fuzzy, hits)
      BY <2>5 DEF MatchNcm
    <3>2. (m = fuzzy /\ ~ fuzzy.conflito) \/ (m = semantic /\ ~ semantic.conflito)
      BY <3>1 DEF WithFallback
    <3>3. catalog \subseteq ncms /\ IsFiniteSet(catalog)
      <4>1. catalog \subseteq ncms
        BY DEF InForce
      <4> HIDE DEF catalog
      <4> QED BY <2>1, <4>1, FS_Subset
    <3> HIDE DEF m, catalog
    <3>4. req.like # <<>> => \A r \in catalog : req.like[r.text] \in Int
      BY <2>1, <2>2, <3>3
    <3>5. CASE m = fuzzy /\ ~ fuzzy.conflito
      <4>1. PICK r \in catalog : r.code = fuzzy.candidate.code /\ req.like[r.text] >= 820
        BY <3>3, <3>4, <3>5, FuzzyUnflagged
      <4> QED BY <2>5, <3>3, <3>5, <4>1 DEF m
    <3>6. CASE m = semantic /\ ~ semantic.conflito
      <4>1. \E h \in hits : h.code = semantic.candidate.code /\ h.score >= 780
        BY <2>3, <3>6, SemanticUnflagged
      <4> QED BY <2>5, <3>6, <4>1 DEF m
    <3> QED BY <3>2, <3>5, <3>6
  <2> QED BY <2>4, <2>5
<1> QED BY <1>1, TablesAlways, PTL
-----------------------------------------------------------------------------
(* The answers                                                             *)

\* The rates in force that apply to a code at a destination; the narrowest.
There(req, code) ==
  {r \in tables["rates"] : r.uf = req.to /\ r.since <= req.day /\ IsPrefix(r.prefix, code)}
Narrowest(R) == {r \in R : \A s \in R : Len(s.prefix) <= Len(r.prefix)}

(* Of the rates of a state that apply to a code one is the narrowest.      *)
LEMMA OneNarrowest ==
  ASSUME TablesInv, NEW req, NEW code
  PROVE  /\ Interna(tables["rates"], req.to, code, req.day) = Narrowest(There(req, code))
         /\ \A r \in There(req, code) : r.pct \in Nat /\ r.fcp \in Nat \cup {None}
         /\ There(req, code) # {} => Narrowest(There(req, code)) # {}
         /\ \A r, s \in Narrowest(There(req, code)) : r = s
<1> DEFINE rates == tables["rates"]
           T == There(req, code)
<1>1. /\ IsFiniteSet(rates) /\ Unique("rates", rates)
      /\ \A r \in rates : r.pct \in Nat /\ r.fcp \in Nat \cup {None} /\ r.prefix \in Seq(Nat)
  BY DEF TablesInv, Rows, OneRow, TableNames, Guarded, IsRow, Fits, IsRate
<1>2. T \subseteq rates /\ \A r \in T : r.uf = req.to /\ IsPrefix(r.prefix, code)
  BY DEF There
<1>3. T = {r \in InForce(rates, req.day) : r.uf = req.to /\ IsPrefix(r.prefix, code)}
  BY DEF There, InForce
<1> HIDE DEF T, rates
<1>4. \A r \in T : r.prefix \in Seq(Nat) /\ Len(r.prefix) \in Nat
  BY <1>1, <1>2
<1>5. Interna(rates, req.to, code, req.day) = Narrowest(T)
  <2>1. Interna(rates, req.to, code, req.day) = MostSpecific(T)
    BY <1>3 DEF Interna
  <2>2. \A r, s \in T : Len(r.prefix) >= Len(s.prefix) <=> Len(s.prefix) <= Len(r.prefix)
    BY <1>4
  <2> QED BY <2>1, <2>2 DEF MostSpecific, Narrowest
<1>6. T # {} => Narrowest(T) # {}
  <2> SUFFICES ASSUME T # {} PROVE Narrowest(T) # {}
    OBVIOUS
  <2> DEFINE g == [r \in T |-> Len(r.prefix)]
  <2>1. \A r \in T : g[r] \in Int /\ g[r] = Len(r.prefix)
    BY <1>4
  <2> HIDE DEF g
  <2>2. IsFiniteSet(T)
    BY <1>1, <1>2, FS_Subset
  <2>3. PICK r \in T : \A s \in T : g[s] <= g[r]
    BY <2>1, <2>2, FiniteMax
  <2> QED BY <2>1, <2>3 DEF Narrowest
<1>7. ASSUME NEW r \in Narrowest(T), NEW s \in Narrowest(T) PROVE r = s
  <2>1. r \in T /\ s \in T /\ Len(r.prefix) <= Len(s.prefix) /\ Len(s.prefix) <= Len(r.prefix)
    BY DEF Narrowest
  <2>2. Len(r.prefix) = Len(s.prefix)
    BY <1>4, <2>1
  <2>3. /\ SubSeq(r.prefix, 1, Len(r.prefix)) = SubSeq(code, 1, Len(r.prefix))
        /\ SubSeq(s.prefix, 1, Len(s.prefix)) = SubSeq(code, 1, Len(s.prefix))
    BY <1>2, <2>1 DEF IsPrefix
  <2>4. \A p \in Seq(Nat) : SubSeq(p, 1, Len(p)) = p
    OBVIOUS
  <2>5. r.prefix = s.prefix /\ r.uf = s.uf
    BY <1>2, <1>4, <2>1, <2>2, <2>3, <2>4
  <2>6. KeyOf("rates", r) = KeyOf("rates", s)
    BY <2>5 DEF KeyOf, Key, Statement
  <2> QED BY <1>1, <1>2, <2>1, <2>6 DEF Unique
<1> QED BY <1>1, <1>2, <1>5, <1>6, <1>7 DEF T, rates

BetweenStates(from, to, importado, conteudo) ==
  IF importado /\ conteudo \notin 0..4000 THEN 400
  ELSE IF from \in SulSudeste /\ to \notin SulSudeste THEN 700 ELSE 1200

(* The rate between two states: a content that no rule covers counts as    *)
(* foreign.                                                                *)
LEMMA InterstateRate ==
  ASSUME NEW from, NEW to, NEW importado, NEW conteudo \in Nat \cup {None}
  PROVE  AliquotaInterestadual(from, to, importado, conteudo)
           = BetweenStates(from, to, importado, conteudo)
<1>1. conteudo \in Nat \/ conteudo = 0 - 1
  BY DEF None
<1>2. conteudo \notin 0..4000 <=> (conteudo = None \/ conteudo > 4000)
  <2>1. CASE conteudo \in Nat
    BY <2>1 DEF None
  <2>2. CASE conteudo = 0 - 1
    BY <2>2 DEF None
  <2> QED BY <1>1, <2>1, <2>2
<1> DEFINE foreign == conteudo \notin 0..4000
           unknown == conteudo = None \/ conteudo > 4000
           Rate(b) == IF importado /\ b THEN 400
                      ELSE IF from \in SulSudeste /\ to \notin SulSudeste THEN 700 ELSE 1200
<1>3. AliquotaInterestadual(from, to, importado, conteudo) = Rate(unknown)
  BY Zenon DEF AliquotaInterestadual
<1>4. foreign <=> unknown
  BY <1>2
<1>5. foreign \in BOOLEAN /\ unknown \in BOOLEAN
  OBVIOUS
<1> HIDE DEF foreign, unknown, Rate
<1>6. foreign = unknown
  BY <1>4, <1>5
<1>7. AliquotaInterestadual(from, to, importado, conteudo) = Rate(foreign)
  BY <1>3, <1>6
<1> QED BY <1>7, Zenon DEF BetweenStates, foreign, Rate

\* What an answer says, given the rate it rests on.
TaxSays(req, there, icms) ==
  LET full(r) == r.pct + IF r.fcp = None THEN 0 ELSE r.fcp
  IN  /\ there = {} <=> icms.interna = None
      /\ icms.difal # None <=> there # {} /\ req.from # req.to
      /\ \A r \in Narrowest(there) : icms.interna = full(r)
      /\ icms.difal # None => icms.inter + icms.difal = Max({icms.inter, icms.interna})
      /\ req.from # req.to =>
           icms.inter = BetweenStates(req.from, req.to, req.importado, req.conteudo)

(* The tax of an answer is that of the rates it was read from.             *)
LEMMA TaxOfRates ==
  ASSUME TablesInv, NEW req, NEW code, req.conteudo \in Nat \cup {None}
  PROVE  TaxSays(req, There(req, code), IcmsFor(req, code, tables["rates"]))
<1> DEFINE there == There(req, code)
           rows == Narrowest(there)
           x == CHOOSE r \in rows : TRUE
           interna == IF rows = {} THEN None ELSE Efetiva(x)
           inter == IF req.from = req.to THEN None
                    ELSE AliquotaInterestadual(req.from, req.to, req.importado, req.conteudo)
           difal == ComputeDifal(interna, inter)
           icms == IcmsFor(req, code, tables["rates"])
<1>1. icms = [interna |-> interna, inter |-> inter, difal |-> difal]
  BY OneNarrowest DEF IcmsFor, ResolveIcms
<1>2. /\ rows \subseteq there /\ (there # {} => rows # {})
      /\ \A r \in there : r.pct \in Nat /\ r.fcp \in Nat \cup {None}
      /\ rows # {} => x \in rows /\ \A r \in rows : r = x
  BY OneNarrowest DEF Narrowest
<1> HIDE DEF there, rows, x
<1>3. ASSUME NEW r \in there
      PROVE  Efetiva(r) = r.pct + (IF r.fcp = None THEN 0 ELSE r.fcp) /\ Efetiva(r) \in Nat
  <2> DEFINE fcp == r.fcp
  <2>1. fcp \in Int /\ 0 \in Int /\ r.pct \in Nat /\ fcp \in Nat \cup {-1}
    BY <1>2 DEF None
  <2> HIDE DEF fcp
  <2>2. Max({0, fcp}) = IF 0 >= fcp THEN 0 ELSE fcp
    BY <2>1, OfTwo
  <2>3. Efetiva(r) = r.pct + Max({0, fcp})
    BY DEF Efetiva, fcp
  <2>4. Max({0, fcp}) = (IF fcp = None THEN 0 ELSE fcp) /\ Max({0, fcp}) \in Nat
    BY <2>1, <2>2 DEF None
  <2> QED BY <2>1, <2>3, <2>4 DEF fcp
<1>4. /\ there = {} => interna = None
      /\ there # {} => interna \in Nat /\ rows # {} /\ interna = Efetiva(x)
  BY <1>2, <1>3
<1>5. /\ req.from # req.to =>
           inter = BetweenStates(req.from, req.to, req.importado, req.conteudo)
      /\ req.from = req.to => inter = None
  <2>1. AliquotaInterestadual(req.from, req.to, req.importado, req.conteudo) =
          BetweenStates(req.from, req.to, req.importado, req.conteudo)
    BY InterstateRate
  <2> HIDE DEF rows, x, interna, difal, icms
  <2>2. CASE req.from = req.to
    BY <2>2
  <2>3. CASE req.from # req.to
    <3>1. inter = AliquotaInterestadual(req.from, req.to, req.importado, req.conteudo)
      BY <2>3
    <3> HIDE DEF inter
    <3> QED BY <2>1, <2>3, <3>1
  <2> QED BY <2>2, <2>3
<1>6. req.from # req.to => inter \in Nat
  BY <1>5 DEF BetweenStates
<1> HIDE DEF interna, inter
<1>7. difal = IF interna = None \/ inter = None THEN None ELSE Max({0, interna - inter})
  BY DEF ComputeDifal
<1>8. ASSUME there # {}, req.from # req.to
      PROVE  difal \in Nat /\ inter + difal = Max({inter, interna})
  <2>1. interna \in Nat /\ inter \in Nat /\ interna - inter \in Int /\ interna # None /\ inter # None
    BY <1>4, <1>6, <1>8 DEF None
  <2>2. Max({0, interna - inter}) = IF 0 >= interna - inter THEN 0 ELSE interna - inter
    <3> DEFINE b == interna - inter
    <3>1. b \in Int /\ 0 \in Int
      BY <2>1
    <3> HIDE DEF b
    <3>2. Max({0, b}) = IF 0 >= b THEN 0 ELSE b
      BY <3>1, OfTwo
    <3> QED BY <3>2 DEF b
  <2>3. Max({inter, interna}) = IF inter >= interna THEN inter ELSE interna
    BY <2>1, OfTwo
  <2> HIDE DEF difal
  <2> QED BY <1>7, <2>1, <2>2, <2>3
<1>9. there = {} \/ req.from = req.to => difal = None
  BY <1>4, <1>5, <1>7
<1>10. icms.interna = interna /\ icms.inter = inter /\ icms.difal = difal
  BY <1>1
<1> HIDE DEF difal, icms
<1>11. there = {} <=> icms.interna = None
  BY <1>4, <1>10 DEF None
<1>12. icms.difal # None <=> (there # {} /\ req.from # req.to)
  BY <1>8, <1>9, <1>10 DEF None
<1>13. \A r \in rows : icms.interna = r.pct + IF r.fcp = None THEN 0 ELSE r.fcp
  BY <1>2, <1>3, <1>4, <1>10
<1>14. icms.difal # None => icms.inter + icms.difal = Max({icms.inter, icms.interna})
  BY <1>8, <1>10, <1>12
<1> QED BY <1>5, <1>10, <1>11, <1>12, <1>13, <1>14 DEF TaxSays, there, rows, icms

\* The item being classified: its imported content is a number or not there.
AskingInv ==
  asking = Nothing \/
    /\ DOMAIN asking = {"kind", "req", "candidate", "conflito"}
    /\ asking.req.conteudo \in Nat \cup {None}

(* A question under way keeps the shape of a question.                     *)
LEMMA AskingStep == ASSUME AskingInv, [ReferenceNext]_referenceVars PROVE AskingInv'
<1>1. ASSUME NEW req \in Requests, Ask(req) PROVE AskingInv'
  <2> DEFINE r == Dated(req)
             m == MatchNcm(r, tables["ncms"], {})
  <2>1. r.conteudo = req.conteudo /\ req.conteudo \in Nat \cup {None}
    BY RequestsAssumption DEF Dated
  <2> HIDE DEF r, m
  <2>2. asking' = [kind |-> "item", req |-> r, candidate |-> m.candidate, conflito |-> m.conflito]
    BY <1>1 DEF Ask, r, m
  <2>3. asking'.req = r /\ DOMAIN asking' = {"kind", "req", "candidate", "conflito"}
    BY <2>2
  <2> QED BY <2>1, <2>3 DEF AskingInv
<1>2. CASE Answer
  BY <1>2 DEF Answer, AskingInv, Nothing
<1>3. CASE asking' = asking
  BY <1>3 DEF AskingInv, Nothing
<1>4. ASSUME ~ Answer, \A req \in Requests : ~ Ask(req) PROVE asking' = asking
  BY <1>4 DEF ReferenceNext, Loading, BeginLoad, Skip, Wait, Insert, Rollback, Commit, Seed,
     GetIcms, DayPasses, referenceVars
<1> QED BY <1>1, <1>2, <1>3, <1>4

\* The answer as the property names its parts.
TaxFollows ==
  TaxSays(answer'.req, There(answer'.req, answer'.candidate.code), answer'.icms)

(* A new answer follows the rates of the tables as they are.               *)
LEMMA TaxStep ==
  ASSUME TablesInv, AskingInv, [ReferenceNext]_referenceVars, answer' # answer
  PROVE  TaxFollows
<1>1. CASE Answer
  <2> DEFINE icms == IcmsFor(asking.req, asking.candidate.code, tables["rates"])
  <2>1. answer' = With(asking, "icms", icms) /\ asking # Nothing
    BY <1>1 DEF Answer
  <2>2. DOMAIN asking = {"kind", "req", "candidate", "conflito"}
        /\ asking.req.conteudo \in Nat \cup {None}
    BY <2>1 DEF AskingInv
  <2> HIDE DEF icms
  <2>3. /\ answer'.req = asking.req /\ answer'.candidate = asking.candidate
        /\ answer'.icms = icms
    BY <2>1, <2>2 DEF With
  <2>4. TaxSays(asking.req, There(asking.req, asking.candidate.code), icms)
    BY <2>2, TaxOfRates DEF icms
  <2> QED BY <2>3, <2>4 DEF TaxFollows
<1>2. ASSUME NEW req \in Requests, GetIcms(req, req.hint) PROVE TaxFollows
  <2>0. PICK r \in {With(Dated(req), "conteudo", None)} :
             answer' = [kind |-> "rate", req |-> r,
               candidate |-> Candidate(req.hint, 1000, "ASKED"), conflito |-> FALSE,
               icms |-> IcmsFor(r, req.hint, tables["rates"])]
    BY <1>2 DEF GetIcms
  <2>1. r.conteudo = None
    BY <2>0 DEF With
  <2> DEFINE icms == IcmsFor(r, req.hint, tables["rates"])
  <2>2. answer' = [kind |-> "rate", req |-> r, candidate |-> Candidate(req.hint, 1000, "ASKED"),
                   conflito |-> FALSE, icms |-> icms]
    BY <2>0
  <2>3. TaxSays(r, There(r, req.hint), icms)
    BY <2>1, TaxOfRates
  <2> HIDE DEF icms
  <2>4. answer'.req = r /\ answer'.icms = icms /\ answer'.candidate = Candidate(req.hint, 1000, "ASKED")
    BY <2>2
  <2>5. answer'.candidate.code = req.hint
    BY <2>4 DEF Candidate
  <2> QED BY <2>3, <2>4, <2>5 DEF TaxFollows
<1>3. ASSUME ~ Answer, \A req \in Requests : ~ GetIcms(req, req.hint) PROVE answer' = answer
  BY <1>3, SMTT(40)
  DEF ReferenceNext, Loading, BeginLoad, Skip, Wait, Insert, Rollback, Commit, Seed,
     Ask, DayPasses, referenceVars
<1> QED BY <1>1, <1>2, <1>3

(* So every step that answers does.                                        *)
LEMMA TaxTruth ==
  ASSUME TablesInv, AskingInv, [ReferenceNext]_referenceVars PROVE TaxFromRatesInForce
<1> SUFFICES ASSUME answer' # answer PROVE TaxFromRatesInForce
  BY DEF TaxFromRatesInForce
<1>1. TaxFollows
  BY TaxStep
<1> QED
  BY <1>1, ZenonT(60)
  DEF TaxFollows, TaxSays, BetweenStates, There, Narrowest, TaxFromRatesInForce

\* Of the statements l has behind it: what its rows say of the IPI.
IpiLoaded(l) ==
  \A i \in 1..(Len(l.file) - Len(l.left)) :
    l.file[i].table = "ipi"
    /\ (\A j \in (i + 1)..(Len(l.file) - Len(l.left)) :
          l.file[j].table = "ipi" => Key(l.file[j]) # Key(l.file[i]))
    => \E r \in l.mine["ipi"] : KeyOf("ipi", r) = Key(l.file[i]) /\ r.pct = l.file[i].row.pct

IpiInv == \A w \in Loaders : load[w] = Nothing \/ IpiLoaded(load[w])

(* After one more statement a transaction still holds what the last        *)
(* statement on each code says.                                            *)
LEMMA IpiMovesOn ==
  ASSUME NEW l, IsLoad(l), l.left # <<>>, IpiLoaded(l),
         NEW m, m.file = l.file, m.left = Tail(l.left), NEW s, s = Head(l.left),
         s.table # "ipi" => m.mine["ipi"] = l.mine["ipi"],
         NEW x, s.table = "ipi" =>
           /\ KeyOf("ipi", x) = Key(s) /\ x.pct = s.row.pct
           /\ m.mine["ipi"] = {r \in l.mine["ipi"] : KeyOf("ipi", r) # KeyOf("ipi", x)} \cup {x}
  PROVE  IpiLoaded(m)
<1> DEFINE file == l.file
           d == Len(file) - Len(l.left)
           mine == l.mine["ipi"]
           more == m.mine["ipi"]
<1>1. d \in Nat /\ d + 1 \in 1..Len(file) /\ Len(file) - Len(m.left) = d + 1 /\ file[d + 1] = s
  <2>1. \A S : \A q \in Seq(S) : q # <<>> =>
          Len(q) \in Nat \ {0} /\ Len(Tail(q)) = Len(q) - 1 /\ Head(q) = q[1]
    OBVIOUS
  <2>2. /\ Len(l.left) \in Nat \ {0} /\ Len(m.left) = Len(l.left) - 1 /\ s = l.left[1]
        /\ Len(file) \in Nat /\ Len(l.left) <= Len(file)
    BY <2>1 DEF IsLoad
  <2>3. 1 \in 1..Len(l.left) /\ l.left[1] = file[Len(file) - Len(l.left) + 1]
    BY <2>2 DEF IsLoad
  <2> HIDE DEF file
  <2> DEFINE n == Len(file)
             k == Len(l.left)
             h == Len(m.left)
  <2>4. n \in Nat /\ k \in Nat \ {0} /\ k <= n /\ h = k - 1 /\ d = n - k
    BY <2>2
  <2>5. file[n - k + 1] = s
    BY <2>2, <2>3
  <2> HIDE DEF n, k, h, d
  <2>6. d \in Nat /\ d + 1 \in 1..n /\ n - h = d + 1
    BY <2>4
  <2> QED BY <2>4, <2>5, <2>6 DEF n, h
<1>2. \A i \in 1..d :
        file[i].table = "ipi"
        /\ (\A j \in (i + 1)..d : file[j].table = "ipi" => Key(file[j]) # Key(file[i]))
        => \E r \in mine : KeyOf("ipi", r) = Key(file[i]) /\ r.pct = file[i].row.pct
  BY DEF IpiLoaded
<1>3. /\ s.table # "ipi" => more = mine
      /\ s.table = "ipi" =>
           /\ KeyOf("ipi", x) = Key(s) /\ x.pct = s.row.pct
           /\ more = {r \in mine : KeyOf("ipi", r) # KeyOf("ipi", x)} \cup {x}
  OBVIOUS
<1> HIDE DEF file, d, mine, more
<1> SUFFICES ASSUME NEW i \in 1..(d + 1), file[i].table = "ipi",
                    \A j \in (i + 1)..(d + 1) : file[j].table = "ipi" => Key(file[j]) # Key(file[i])
             PROVE  \E r \in more : KeyOf("ipi", r) = Key(file[i]) /\ r.pct = file[i].row.pct
  <2>1. m.file = file
    BY DEF file
  <2>2. Len(m.file) - Len(m.left) = d + 1
    BY <1>1, <2>1
  <2>3. IpiLoaded(m) <=>
          \A n \in 1..(Len(m.file) - Len(m.left)) :
            m.file[n].table = "ipi"
            /\ (\A j \in (n + 1)..(Len(m.file) - Len(m.left)) :
                  m.file[j].table = "ipi" => Key(m.file[j]) # Key(m.file[n]))
            => \E r \in m.mine["ipi"] :
                 KeyOf("ipi", r) = Key(m.file[n]) /\ r.pct = m.file[n].row.pct
    BY Zenon DEF IpiLoaded
  <2> QED BY <2>1, <2>2, <2>3 DEF more
<1>4. CASE i = d + 1
  BY <1>1, <1>3, <1>4
<1>5. CASE i # d + 1
  <2>1. i \in 1..d /\ d + 1 \in (i + 1)..(d + 1)
    BY <1>1, <1>5
  <2>2. \A j \in (i + 1)..d : file[j].table = "ipi" => Key(file[j]) # Key(file[i])
    <3>1. \A j \in (i + 1)..d : j \in (i + 1)..(d + 1)
      BY <1>1, <2>1
    <3> QED BY <3>1
  <2>3. PICK r \in mine : KeyOf("ipi", r) = Key(file[i]) /\ r.pct = file[i].row.pct
    BY <1>2, <2>1, <2>2
  <2>4. s.table = "ipi" => Key(s) # Key(file[i])
    <3>1. file[d + 1].table = "ipi" => Key(file[d + 1]) # Key(file[i])
      BY <2>1
    <3> QED BY <1>1, <3>1
  <2>5. r \in more
    BY <1>3, <2>3, <2>4
  <2> QED BY <2>3, <2>5
<1> QED BY <1>4, <1>5

(* Every step keeps the invariant of the TIPI.                             *)
LEMMA IpiStep == ASSUME TablesInv, IpiInv, [ReferenceNext]_referenceVars PROVE IpiInv'
<1> SUFFICES ASSUME NEW v \in Loaders, load'[v] # Nothing PROVE IpiLoaded(load'[v])
  BY DEF IpiInv, IpiLoaded, Nothing, KeyOf, Key, Statement
<1>1. DOMAIN load = Loaders /\ \A w \in Loaders : load[w] = Nothing \/ IsLoad(load[w])
  BY DEF TablesInv, Loads
<1>2. ASSUME load'[v] = load[v] PROVE IpiLoaded(load'[v])
  BY <1>2 DEF IpiInv
<1>3. ASSUME NEW w \in Loaders, NEW kind, NEW file \in Published, BeginLoad(w, kind, file)
      PROVE  IpiLoaded(load'[v])
  <2>1. load'[w].file = file /\ load'[w].left = file /\ (v # w => load'[v] = load[v])
    BY <1>1, <1>3 DEF BeginLoad
  <2>2. Len(file) - Len(file) = 0
    BY PublishedFile
  <2>3. IpiLoaded(load'[w])
    BY <2>1, <2>2 DEF IpiLoaded
  <2> QED BY <1>2, <2>1, <2>3
<1>4. ASSUME NEW w \in Loaders, Skip(w) PROVE IpiLoaded(load'[v])
  <2>1. /\ load[w] # Nothing /\ load[w].left # <<>> /\ ~ Inserts(w)
        /\ load' = [load EXCEPT ![w] = Advanced(w)]
    BY <1>4 DEF Skip, Running
  <2>2. IsLoad(load[w]) /\ IpiLoaded(load[w])
    BY <1>1, <2>1 DEF IpiInv
  <2>3. /\ Advanced(w).file = load[w].file /\ Advanced(w).mine = load[w].mine
        /\ Advanced(w).left = Tail(load[w].left)
    BY <2>2 DEF Advanced, IsLoad
  <2>4. Current(w) = Head(load[w].left) /\ Current(w).table # "ipi"
    BY <2>1 DEF Current, Inserts
  <2>5. IpiLoaded(Advanced(w))
    BY <2>1, <2>2, <2>3, <2>4, IpiMovesOn
  <2>6. load'[w] = Advanced(w) /\ (v # w => load'[v] = load[v])
    BY <1>1, <2>1
  <2> QED BY <1>2, <2>5, <2>6
<1>5. ASSUME NEW w \in Loaders, Wait(w) PROVE IpiLoaded(load'[v])
  <2>1. load[w] # Nothing /\ load' = [load EXCEPT ![w].waits = TRUE]
    BY <1>5 DEF Wait, Running
  <2>2. IsLoad(load[w]) /\ IpiLoaded(load[w])
    BY <1>1, <2>1 DEF IpiInv
  <2>3. /\ load'[w].file = load[w].file /\ load'[w].left = load[w].left
        /\ load'[w].mine = load[w].mine /\ (v # w => load'[v] = load[v])
    BY <1>1, <2>1, <2>2 DEF IsLoad
  <2>4. IpiLoaded(load'[w])
    BY <2>2, <2>3 DEF IpiLoaded
  <2> QED BY <1>2, <2>3, <2>4
<1>6. ASSUME NEW w \in Loaders, Insert(w) PROVE IpiLoaded(load'[v])
  <2>0. PICK t \in TableNames : \E x, m : InsertsRow(w, t, x, m)
    BY <1>6, Inserted
  <2> PICK x, m : InsertsRow(w, t, x, m)
    BY <2>0
  <2>1. /\ load[w] # Nothing /\ IsLoad(load[w]) /\ load[w].left # <<>> /\ t = Current(w).table
        /\ KeyOf(t, x) = Key(Current(w)) /\ x = Stored(w)
        /\ load' = [load EXCEPT ![w] = m]
        /\ m.file = load[w].file /\ m.left = Tail(load[w].left)
        /\ \A u \in TableNames \ {t} : m.mine[u] = load[w].mine[u]
        /\ m.mine[t] = {r \in load[w].mine[t] : KeyOf(t, r) # KeyOf(t, x)} \cup {x}
    BY DEF InsertsRow
  <2>2. IpiLoaded(load[w]) /\ Current(w) = Head(load[w].left) /\ "ipi" \in TableNames
    BY <2>1 DEF IpiInv, Current, TableNames
  <2>3. IsStatement(Current(w))
    <3> DEFINE a == Advanced(w)
    <3>1. /\ DOMAIN a = DOMAIN load[w] /\ a.file = load[w].file
          /\ a.mine = load[w].mine /\ a.left = Tail(load[w].left)
      BY <2>1 DEF Advanced, IsLoad
    <3> HIDE DEF a
    <3> QED BY <2>1, <2>2, <3>1, MovesOn
  <2>4. t = "ipi" => x.pct = Current(w).row.pct
    <3> SUFFICES ASSUME t = "ipi" PROVE x.pct = Current(w).row.pct
      OBVIOUS
    <3>1. x = With(Current(w).row, "run", load[w].run)
      BY <2>1 DEF Stored
    <3>2. "pct" \in DOMAIN Current(w).row
      BY <2>1, <2>3 DEF IsStatement, Columns
    <3> QED BY <3>1, <3>2 DEF With
  <2>5. IpiLoaded(m)
    <3>1. t # "ipi" => m.mine["ipi"] = load[w].mine["ipi"]
      BY <2>1, <2>2
    <3> DEFINE s == Current(w)
    <3>2. s = Head(load[w].left) /\ t = s.table
      BY <2>1, <2>2
    <3> HIDE DEF s
    <3> QED BY <2>1, <2>2, <2>4, <3>1, <3>2, IpiMovesOn DEF s
  <2>6. load'[w] = m /\ (v # w => load'[v] = load[v])
    BY <1>1, <2>1
  <2> QED BY <1>2, <2>5, <2>6
<1>7. ASSUME NEW w \in Loaders, Rollback(w) \/ Commit(w) PROVE IpiLoaded(load'[v])
  <2>1. load' = [load EXCEPT ![w] = Nothing]
    BY <1>7 DEF Rollback, Commit
  <2>2. load'[w] = Nothing /\ (v # w => load'[v] = load[v])
    BY <1>1, <2>1
  <2> QED BY <1>2, <2>2
<1>8. CASE Seed \/ Aside
  BY <1>2, <1>8 DEF Seed, Aside
<1> QED BY <1>3, <1>4, <1>5, <1>6, <1>7, <1>8, ReferenceStep, SMTT(40)

(* It is what IpiAsLastLoaded asks for.                                    *)
LEMMA IpiTruth == ASSUME TablesInv, IpiInv PROVE IpiAsLastLoaded
<1> SUFFICES ASSUME NEW w \in Loaders, Commit(w), NEW i \in 1..Len(load[w].file),
                    load[w].file[i].table = "ipi",
                    \A j \in (i + 1)..Len(load[w].file) :
                      load[w].file[j].table = "ipi" => Key(load[w].file[j]) # Key(load[w].file[i])
             PROVE  \E r \in tables'["ipi"] : /\ Key(Statement("ipi", r)) = Key(load[w].file[i])
                                              /\ r.pct = load[w].file[i].row.pct
  BY DEF IpiAsLastLoaded
<1>1. load[w] # Nothing /\ load[w].left = <<>>
      /\ tables' = [t \in TableNames |-> (tables[t] \ Replaced(t, w)) \cup load[w].mine[t]]
  BY DEF Commit
<1>2. IpiLoaded(load[w]) /\ IsLoad(load[w])
  BY <1>1 DEF TablesInv, Loads, IpiInv
<1>3. Len(load[w].file) - Len(load[w].left) = Len(load[w].file)
  <2>1. Len(load[w].file) \in Nat /\ Len(load[w].left) = 0
    BY <1>1, <1>2 DEF IsLoad
  <2> QED BY <2>1
<1>4. PICK r \in load[w].mine["ipi"] : /\ KeyOf("ipi", r) = Key(load[w].file[i])
                                       /\ r.pct = load[w].file[i].row.pct
  BY <1>2, <1>3 DEF IpiLoaded
<1>5. load[w].mine["ipi"] \subseteq tables'["ipi"]
  BY <1>1 DEF TableNames
<1> QED BY <1>4, <1>5 DEF KeyOf

(* Every answer goes by the rates in force when it is given, and every     *)
(* code has after a load of the TIPI the IPI of the last line of that load *)
(* that names it, whatever is published, whoever loads at the same time    *)
(* and whatever is asked: there is exactly one narrowest rate in force     *)
(* (OneNarrowest), and a transaction holds, of the statements it has       *)
(* behind it, what the last one says (IpiInv).                             *)
THEOREM AnswersAreTrue == ReferenceSpec => AnswersFollowTables
<1>1. ReferenceInit => AskingInv /\ IpiInv
  BY DEF ReferenceInit, AskingInv, IpiInv
<1>2. /\ AskingInv /\ [ReferenceNext]_referenceVars => AskingInv'
      /\ TablesInv /\ IpiInv /\ [ReferenceNext]_referenceVars => IpiInv'
  BY AskingStep, IpiStep
<1>3. TablesInv /\ AskingInv /\ IpiInv /\ [ReferenceNext]_referenceVars
        => [TaxFromRatesInForce /\ IpiAsLastLoaded]_referenceVars
  BY TaxTruth, IpiTruth
<1> QED BY <1>1, <1>2, <1>3, TablesAlways, PTL DEF ReferenceSpec, AnswersFollowTables
-----------------------------------------------------------------------------
(* Flattening                                                              *)

(***************************************************************************)
(* Rows are left out of a chunk by adding nothing for them, and chunks are *)
(* put together in the order of the group: both are FlattenSeq, and the    *)
(* values its recursion takes are the joins f[0], f[1], ... of the parts.  *)
(***************************************************************************)
IsJoin(S, p, f) ==
  /\ f \in [0..Len(p) -> Seq(S)] /\ f[0] = <<>>
  /\ \A i \in 1..Len(p) : f[i] = f[i - 1] \o p[i]

(* Any sequence of sequences can be joined.                                *)
LEMMA JoinExists ==
  ASSUME NEW S, NEW p \in Seq(Seq(S))
  PROVE  \E f : IsJoin(S, p, f)
<1> DEFINE UpToHere(n, f) ==
             /\ f \in [0..n -> Seq(S)] /\ f[0] = <<>>
             /\ \A i \in 1..n : f[i] = f[i - 1] \o p[i]
           T == {n \in Nat : n <= Len(p) => \E f : UpToHere(n, f)}
<1>1. 0 \in T
  <2>1. <<>> \in Seq(S)
    OBVIOUS
  <2> DEFINE g == [k \in 0..0 |-> <<>>]
  <2>2. g \in [0..0 -> Seq(S)] /\ g[0] = <<>> /\ 1..0 = {}
    BY <2>1
  <2> HIDE DEF g
  <2>3. UpToHere(0, g)
    BY <2>2
  <2> QED BY <2>3
<1>2. ASSUME NEW n \in T PROVE n + 1 \in T
  <2>0. n \in Nat /\ (n <= Len(p) => \E f : UpToHere(n, f))
    OBVIOUS
  <2> HIDE DEF UpToHere
  <2> SUFFICES ASSUME n + 1 <= Len(p) PROVE \E f : UpToHere(n + 1, f)
    BY <2>0
  <2> USE DEF UpToHere
  <2>1. n \in Nat /\ n <= Len(p)
    BY <2>0
  <2>2. PICK f : UpToHere(n, f)
    BY <2>0, <2>1
  <2>3. p[n + 1] \in Seq(S) /\ f[n] \in Seq(S)
    BY <2>1, <2>2
  <2> DEFINE last == f[n] \o p[n + 1]
             g == [i \in 0..(n + 1) |-> IF i = n + 1 THEN last ELSE f[i]]
  <2>4. last \in Seq(S)
    BY <2>3, ConcatProperties
  <2> HIDE DEF last
  <2>5. g \in [0..(n + 1) -> Seq(S)] /\ g[0] = <<>>
    BY <2>1, <2>2, <2>4
  <2>6. ASSUME NEW i \in 1..(n + 1) PROVE g[i] = g[i - 1] \o p[i]
    <3>1. CASE i = n + 1
      <4>1. g[i] = last /\ g[i - 1] = f[n]
        BY <2>1, <3>1
      <4> QED BY <3>1, <4>1 DEF last
    <3>2. CASE i # n + 1
      <4>1. i \in 1..n /\ g[i] = f[i] /\ g[i - 1] = f[i - 1]
        BY <2>1, <3>2
      <4>2. f[i] = f[i - 1] \o p[i]
        BY <2>2, <4>1
      <4> QED BY <4>1, <4>2
    <3> QED BY <3>1, <3>2
  <2> HIDE DEF g
  <2>7. UpToHere(n + 1, g)
    BY <2>5, <2>6
  <2> QED BY <2>7
<1> HIDE DEF T
<1>3. T = Nat
  BY <1>1, <1>2, NatSetInduction DEF T
<1>4. Len(p) \in Nat /\ Len(p) <= Len(p) /\ Len(p) \in T
  BY <1>3
<1>5. PICK f : UpToHere(Len(p), f)
  BY <1>4 DEF T
<1>6. IsJoin(S, p, f)
  BY <1>5 DEF IsJoin
<1> QED BY <1>6

(* FlattenSeq joins them in order.                                         *)
LEMMA FlattenIsJoin ==
  ASSUME NEW S, NEW p \in Seq(Seq(S)), NEW f, IsJoin(S, p, f)
  PROVE  FlattenSeq(p) = f[Len(p)] /\ FlattenSeq(p) \in Seq(S)
<1> DEFINE n == Len(p)
<1>0. n \in Nat /\ f[n] \in Seq(S)
  BY DEF IsJoin
<1>1. CASE n = 0
  BY <1>1 DEF FlattenSeq, IsJoin
<1>2. CASE n # 0
  <2> DEFINE c == CHOOSE g : g = [i \in 1..Len(p) |-> IF i = 1 THEN p[i] ELSE g[i - 1] \o p[i]]
             w == [i \in 1..Len(p) |-> f[i]]
  <2>1. FlattenSeq(p) = c[Len(p)]
    BY <1>2 DEF FlattenSeq
  <2>2. w = [i \in 1..Len(p) |-> IF i = 1 THEN p[i] ELSE w[i - 1] \o p[i]]
    <3>1. ASSUME NEW i \in 1..Len(p)
          PROVE  w[i] = IF i = 1 THEN p[i] ELSE w[i - 1] \o p[i]
      <4>1. w[i] = f[i - 1] \o p[i] /\ p[i] \in Seq(S)
        BY DEF IsJoin
      <4>2. CASE i = 1
        <5>1. f[i - 1] = <<>>
          BY <4>2 DEF IsJoin
        <5> QED BY <4>1, <4>2, <5>1, ConcatEmptySeq
      <4>3. CASE i # 1
        <5>1. w[i - 1] = f[i - 1]
          BY <4>3
        <5> QED BY <4>1, <4>3, <5>1
      <4> QED BY <4>2, <4>3
    <3> QED BY <3>1
  <2> HIDE DEF w
  <2>3. c = [i \in 1..Len(p) |-> IF i = 1 THEN p[i] ELSE c[i - 1] \o p[i]]
    BY <2>2
  <2> HIDE DEF c
  <2> DEFINE T == {i \in Nat : i + 1 \in 1..Len(p) => c[i + 1] = w[i + 1]}
  <2>4. \A i \in 1..Len(p) : /\ c[i] = IF i = 1 THEN p[i] ELSE c[i - 1] \o p[i]
                             /\ w[i] = IF i = 1 THEN p[i] ELSE w[i - 1] \o p[i]
    BY <2>2, <2>3
  <2>5. 0 \in T
    BY <2>4
  <2>6. ASSUME NEW i \in T PROVE i + 1 \in T
    <3> SUFFICES ASSUME (i + 1) + 1 \in 1..Len(p) PROVE c[(i + 1) + 1] = w[(i + 1) + 1]
      OBVIOUS
    <3>1. c[i + 1] = w[i + 1] /\ i \in Nat /\ ((i + 1) + 1) - 1 = i + 1 /\ (i + 1) + 1 # 1
      BY <1>0
    <3> QED BY <2>4, <3>1
  <2> HIDE DEF T
  <2>7. T = Nat
    BY <2>5, <2>6, NatSetInduction DEF T
  <2>8. n - 1 \in Nat /\ (n - 1) + 1 = n
    BY <1>0, <1>2
  <2>9. c[n] = w[n]
    <3>1. n - 1 \in T /\ (n - 1) + 1 \in 1..Len(p)
      BY <2>7, <2>8, <1>0, <1>2
    <3>2. c[(n - 1) + 1] = w[(n - 1) + 1]
      BY <3>1 DEF T
    <3> QED BY <2>8, <3>2
  <2>10. w[n] = f[n]
    BY <1>0, <1>2 DEF w
  <2> QED BY <1>0, <2>1, <2>9, <2>10
<1> QED BY <1>1, <1>2

\* r is the parts of p that follow the first a.
IsPart(r, p, a) == a + Len(r) <= Len(p) /\ \A i \in 1..Len(r) : r[i] = p[a + i]

\* The join of consecutive parts goes on from where it began.
LEMMA JoinOfPart ==
  ASSUME NEW S, NEW p \in Seq(Seq(S)), NEW f, IsJoin(S, p, f),
         NEW r \in Seq(Seq(S)), NEW a \in Nat, IsPart(r, p, a)
  PROVE  /\ FlattenSeq(r) \in Seq(S)
         /\ f[a + Len(r)] = f[a] \o FlattenSeq(r)
<1>0. a + Len(r) <= Len(p) /\ \A i \in 1..Len(r) : r[i] = p[a + i]
  BY DEF IsPart
<1>1. PICK h : IsJoin(S, r, h)
  BY JoinExists
<1>2. FlattenSeq(r) = h[Len(r)] /\ FlattenSeq(r) \in Seq(S)
  BY <1>1, FlattenIsJoin
<1>3. Len(p) \in Nat /\ Len(r) \in Nat /\ a \in 0..Len(p) /\ f[a] \in Seq(S)
  <2>1. Len(p) \in Nat /\ Len(r) \in Nat /\ a \in 0..Len(p)
    BY <1>0
  <2> QED BY <2>1 DEF IsJoin
<1> DEFINE Whole(i) == f[a + i]
           Both(i) == f[a] \o h[i]
           T == {i \in Nat : i <= Len(r) => Whole(i) = Both(i)}
<1>4. Whole(0) = Both(0)
  <2>1. h[0] = <<>> /\ a + 0 = a
    BY <1>1 DEF IsJoin
  <2>2. f[a] \o <<>> = f[a]
    BY <1>3, ConcatEmptySeq
  <2> QED BY <2>1, <2>2
<1>5. ASSUME NEW i \in Nat, i + 1 <= Len(r), Whole(i) = Both(i) PROVE Whole(i + 1) = Both(i + 1)
  <2>1. i + 1 \in 1..Len(r) /\ a + (i + 1) \in 1..Len(p) /\ i \in 0..Len(r)
        /\ (a + (i + 1)) - 1 = a + i /\ (i + 1) - 1 = i
    BY <1>0, <1>3, <1>5, SMTT(40)
  <2>2. f[a + (i + 1)] = f[a + i] \o p[a + (i + 1)]
    BY <2>1 DEF IsJoin
  <2>3. h[i + 1] = h[i] \o r[i + 1] /\ r[i + 1] = p[a + (i + 1)] /\ h[i] \in Seq(S)
    BY <1>0, <1>1, <2>1 DEF IsJoin
  <2>4. r[i + 1] \in Seq(S)
    <3>1. \A k \in 1..Len(r) : r[k] \in Seq(S)
      OBVIOUS
    <3> QED BY <2>1, <3>1
  <2> DEFINE y == h[i]
             z == r[i + 1]
             x == f[a]
  <2>5. x \in Seq(S) /\ y \in Seq(S) /\ z \in Seq(S)
    BY <1>3, <2>3, <2>4
  <2>6. f[a + i] = x \o y
    BY <1>5
  <2>7. f[a + (i + 1)] = (x \o y) \o z /\ h[i + 1] = y \o z
    BY <2>2, <2>3, <2>6
  <2> HIDE DEF x, y, z
  <2>8. (x \o y) \o z = x \o (y \o z)
    <3>1. \A T1 : \A x1, y1, z1 \in Seq(T1) : (x1 \o y1) \o z1 = x1 \o (y1 \o z1)
      BY ConcatAssociative
    <3> QED BY <2>5, <3>1, SMTT(40)
  <2>9. f[a + (i + 1)] = x \o h[i + 1]
    BY <2>7, <2>8
  <2> QED BY <2>9 DEF x
<1> HIDE DEF Whole, Both
<1>6. 0 \in T
  BY <1>4
<1>7. ASSUME NEW i \in T PROVE i + 1 \in T
  BY <1>3, <1>5
<1> HIDE DEF T
<1>8. T = Nat
  BY <1>6, <1>7, NatSetInduction DEF T
<1>9. Whole(Len(r)) = Both(Len(r))
  <2>1. Len(r) \in T /\ Len(r) <= Len(r)
    BY <1>3, <1>8
  <2> QED BY <2>1 DEF T
<1>10. f[a + Len(r)] = f[a] \o h[Len(r)]
  BY <1>9 DEF Whole, Both
<1> QED BY <1>2, <1>10
-----------------------------------------------------------------------------
(* Chunks                                                                  *)

SheetRows == [row : Nat, kind : RowKind]

(* A sheet has one row for each kind that was given, in that order.        *)
LEMMA RowsShape ==
  ASSUME NEW s \in Seq(RowKind)
  PROVE  /\ RowsOf(s) \in Seq(SheetRows) /\ Len(RowsOf(s)) = Len(s) /\ Len(s) \in Nat
         /\ \A i \in 1..Len(s) : RowsOf(s)[i].kind = s[i]
<1>1. Len(s) \in Nat /\ \A i \in 1..Len(s) : s[i] \in RowKind
  OBVIOUS
<1>2. \A i \in 1..Len(s) : [row |-> i, kind |-> s[i]] \in SheetRows
  BY <1>1 DEF SheetRows
<1>3. RowsOf(s) \in [1..Len(s) -> SheetRows]
  BY <1>2 DEF RowsOf
<1>4. RowsOf(s) \in Seq(SheetRows) /\ Len(RowsOf(s)) = Len(s)
  BY <1>1, <1>3
<1> QED BY <1>1, <1>4 DEF RowsOf

\* There are just enough chunks.
LEMMA EnoughChunks ==
  ASSUME NEW s \in Seq(RowKind)
  PROVE  /\ Len(Chunks(s)) = (Len(s) + ChunkSize - 1) \div ChunkSize
         /\ Len(Chunks(s)) \in Nat /\ Len(s) <= Len(Chunks(s)) * ChunkSize
         /\ Len(Chunks(s)) = 0 \/ (Len(Chunks(s)) - 1) * ChunkSize < Len(s)
<1> DEFINE n == Len(s)
           c == ChunkSize
           m == (n + c - 1) \div c
<1>1. n \in Nat /\ c \in Nat \ {0}
  BY SheetAssumption
<1> HIDE DEF n, c
<1>2. m \in Nat /\ n <= m * c /\ (m = 0 \/ (m - 1) * c < n)
  BY <1>1, SMT
<1>3. Len(Chunks(s)) = m
  BY <1>2 DEF Chunks, n, c
<1>4. m = (Len(s) + ChunkSize - 1) \div ChunkSize
  BY DEF n, c
<1> HIDE DEF m
<1> QED BY <1>2, <1>3, <1>4 DEF n, c

(* Products grow with their first factor.                                  *)
LEMMA Multiples ==
  ASSUME NEW a \in Nat, NEW b \in Nat, NEW c \in Nat, a <= b
  PROVE  a * c \in Nat /\ b * c \in Nat /\ a * c <= b * c
  BY SMT

\* Where chunk k begins, and where it ends.
From(k) == (k - 1) * ChunkSize
To(s, k) == IF k * ChunkSize <= Len(s) THEN k * ChunkSize ELSE Len(s)

(* Chunk k holds the rows from From(k) to To(s, k), in the order of the    *)
(* sheet.                                                                  *)
LEMMA ChunkShape ==
  ASSUME NEW s \in Seq(RowKind), NEW k \in 1..Len(Chunks(s))
  PROVE  /\ From(k) \in Nat /\ To(s, k) \in Nat /\ From(k) < To(s, k) /\ To(s, k) <= Len(s)
         /\ Chunks(s)[k] \in Seq(SheetRows)
         /\ From(k) + Len(Chunks(s)[k]) = To(s, k)
         /\ \A i \in 1..Len(Chunks(s)[k]) : Chunks(s)[k][i] = RowsOf(s)[From(k) + i]
<1> DEFINE a == From(k)
           b == To(s, k)
           m == Len(Chunks(s))
<1>1. /\ Len(s) \in Nat /\ m \in Nat /\ k \in Nat /\ k - 1 \in Nat /\ k - 1 <= m - 1 /\ m - 1 \in Nat
      /\ ChunkSize \in Nat \ {0} /\ (m - 1) * ChunkSize < Len(s)
  BY EnoughChunks, SheetAssumption
<1>2. (k - 1) * ChunkSize <= (m - 1) * ChunkSize /\ (k - 1) * ChunkSize \in Nat
      /\ (m - 1) * ChunkSize \in Nat
  BY <1>1, Multiples
<1>3. k * ChunkSize = (k - 1) * ChunkSize + ChunkSize /\ k * ChunkSize \in Nat
  BY <1>1, SMT
<1>4. a \in Nat /\ b \in Nat /\ a < b /\ b <= Len(s)
  BY <1>1, <1>2, <1>3 DEF From, To
<1>5. Chunks(s)[k] = SubSeq(RowsOf(s), a + 1, b)
  <2> DEFINE x == k * ChunkSize
             y == Len(s)
             least == Min({x, y})
  <2>1. Chunks(s)[k] = SubSeq(RowsOf(s), (k - 1) * ChunkSize + 1, least)
    <3>1. m = (Len(s) + ChunkSize - 1) \div ChunkSize
      BY EnoughChunks
    <3> HIDE DEF m, least, x, y
    <3>2. \A i : SubSeq(RowsOf(s), (i - 1) * ChunkSize + 1, Min({i * ChunkSize, Len(s)}))
                  = SubSeq(RowsOf(s), From(i) + 1, Min({i * ChunkSize, Len(s)}))
      BY DEF From
    <3>3. Chunks(s) = [i \in 1..m |-> SubSeq(RowsOf(s), From(i) + 1, Min({i * ChunkSize, Len(s)}))]
      BY <3>1, <3>2 DEF Chunks
    <3>4. Chunks(s)[k] = SubSeq(RowsOf(s), From(k) + 1, Min({k * ChunkSize, Len(s)}))
      BY <3>3 DEF m
    <3> QED BY <3>4 DEF From, least, x, y
  <2>2. least = IF x <= y THEN x ELSE y
    <3>1. x \in Int /\ y \in Int
      BY <1>1, <1>3
    <3> HIDE DEF x, y
    <3> QED BY <3>1, OfTwo
  <2> HIDE DEF least
  <2> QED BY <2>1, <2>2 DEF From, To
<1> HIDE DEF a, b
<1>6. RowsOf(s) \in Seq(SheetRows) /\ Len(RowsOf(s)) = Len(s)
  BY RowsShape
<1>7. \A i \in (a + 1)..b : RowsOf(s)[i] \in SheetRows
  BY <1>1, <1>4, <1>6
<1>8. /\ SubSeq(RowsOf(s), a + 1, b) \in Seq(SheetRows)
      /\ Len(SubSeq(RowsOf(s), a + 1, b)) = b - (a + 1) + 1
      /\ \A i \in 1..(b - (a + 1) + 1) : SubSeq(RowsOf(s), a + 1, b)[i] = RowsOf(s)[(a + 1) + i - 1]
  <2>1. a + 1 \in Int /\ b \in Int /\ a + 1 <= b
    BY <1>4
  <2> QED BY <1>7, <2>1, SubSeqProperties
<1> DEFINE c == Chunks(s)[k]
<1>9. c \in Seq(SheetRows) /\ Len(c) = b - (a + 1) + 1
      /\ \A i \in 1..(b - (a + 1) + 1) : c[i] = RowsOf(s)[(a + 1) + i - 1]
  BY <1>5, <1>8
<1> HIDE DEF c
<1>10. a + Len(c) = b
  BY <1>4, <1>9
<1>11. ASSUME NEW i \in 1..Len(c) PROVE c[i] = RowsOf(s)[a + i]
  <2>1. i \in 1..(b - (a + 1) + 1) /\ (a + 1) + i - 1 = a + i
    BY <1>4, <1>9
  <2> QED BY <1>9, <2>1
<1> QED BY <1>4, <1>9, <1>10, <1>11 DEF a, b, c

\* What the rows of a list add, one after the other.
Outcomes(c) == [i \in 1..Len(c) |-> Outcome(c[i])]

(* Every row of a chunk has one outcome.                                   *)
LEMMA OutcomesShape ==
  ASSUME NEW c \in Seq(SheetRows)
  PROVE  /\ Outcomes(c) \in Seq(Seq(Nat)) /\ Len(Outcomes(c)) = Len(c) /\ Len(c) \in Nat
         /\ Classified(c) \in Seq(Nat)
<1>1. Len(c) \in Nat /\ \A i \in 1..Len(c) : c[i] \in SheetRows
  OBVIOUS
<1>2. \A i \in 1..Len(c) : Outcome(c[i]) \in Seq(Nat)
  <2> SUFFICES ASSUME NEW i \in 1..Len(c) PROVE Outcome(c[i]) \in Seq(Nat)
    OBVIOUS
  <2>1. c[i].row \in Nat
    BY <1>1 DEF SheetRows
  <2>2. <<c[i].row>> \in Seq(Nat) /\ <<>> \in Seq(Nat)
    BY <2>1
  <2> QED BY <2>2 DEF Outcome
<1>3. Outcomes(c) \in [1..Len(c) -> Seq(Nat)]
  BY <1>2 DEF Outcomes
<1>4. Outcomes(c) \in Seq(Seq(Nat)) /\ Len(Outcomes(c)) = Len(c)
  BY <1>1, <1>3
<1>5. PICK f : IsJoin(Nat, Outcomes(c), f)
  BY <1>4, JoinExists
<1>6. Classified(c) = FlattenSeq(Outcomes(c))
  BY DEF Classified, Outcomes
<1>7. Classified(c) \in Seq(Nat)
  BY <1>4, <1>5, <1>6, FlattenIsJoin
<1> QED BY <1>1, <1>4, <1>7

\* The chunks classified one by one, in their order, are the sheet.
LEMMA ChunksTogether ==
  ASSUME NEW s \in Seq(RowKind)
  PROVE  FlattenSeq([k \in 1..Len(Chunks(s)) |-> Classified(Chunks(s)[k])]) = Classified(RowsOf(s))
<1> DEFINE p == Outcomes(RowsOf(s))
           m == Len(Chunks(s))
           n == Len(s)
           q == [k \in 1..m |-> Classified(Chunks(s)[k])]
<1>1. /\ p \in Seq(Seq(Nat)) /\ Len(p) = n /\ n \in Nat
      /\ Classified(RowsOf(s)) = FlattenSeq(p)
  <2>1. RowsOf(s) \in Seq(SheetRows) /\ Len(RowsOf(s)) = n
    BY RowsShape
  <2>2. Classified(RowsOf(s)) = FlattenSeq(p)
    BY DEF Classified, Outcomes
  <2> QED BY <2>1, <2>2, OutcomesShape
<1>2. m \in Nat /\ n <= m * ChunkSize /\ (m = 0 \/ (m - 1) * ChunkSize < n)
  BY EnoughChunks
<1>3. PICK f : IsJoin(Nat, p, f)
  BY <1>1, JoinExists
<1>4. \A k \in 1..m : Classified(Chunks(s)[k]) \in Seq(Nat)
  BY ChunkShape, OutcomesShape
<1>5. q \in Seq(Seq(Nat)) /\ Len(q) = m
  <2>1. q \in [1..m -> Seq(Nat)]
    BY <1>4
  <2> HIDE DEF q
  <2> QED BY <1>2, <2>1
<1> DEFINE End(k) == IF k = 0 THEN 0 ELSE To(s, k)
           F == [k \in 0..m |-> f[End(k)]]
<1>6. ASSUME NEW k \in 1..m
      PROVE  /\ To(s, k) \in 0..n
             /\ f[To(s, k)] = f[From(k)] \o Classified(Chunks(s)[k])
             /\ k # 1 => From(k) = To(s, k - 1)
             /\ k = 1 => From(k) = 0
             /\ k = m => To(s, k) = n
  <2> DEFINE c == Chunks(s)[k]
             r == Outcomes(c)
  <2>1. /\ From(k) \in Nat /\ To(s, k) \in Nat /\ From(k) < To(s, k) /\ To(s, k) <= n
        /\ c \in Seq(SheetRows) /\ From(k) + Len(c) = To(s, k)
        /\ \A i \in 1..Len(c) : c[i] = RowsOf(s)[From(k) + i]
    BY ChunkShape
  <2> HIDE DEF c
  <2>2. r \in Seq(Seq(Nat)) /\ Len(r) = Len(c) /\ Len(c) \in Nat
    BY <2>1, OutcomesShape
  <2>3. \A i \in 1..Len(r) : r[i] = p[From(k) + i]
    <3> SUFFICES ASSUME NEW i \in 1..Len(r) PROVE r[i] = p[From(k) + i]
      OBVIOUS
    <3>1. i \in 1..Len(c) /\ From(k) + i \in 1..n
      BY <1>1, <2>1, <2>2, SMTT(40)
    <3>2. r[i] = Outcome(c[i])
      BY <3>1 DEF Outcomes
    <3>3. p[From(k) + i] = Outcome(RowsOf(s)[From(k) + i])
      <4>1. Len(RowsOf(s)) = n
        BY RowsShape
      <4> QED BY <3>1, <4>1 DEF Outcomes
    <3> QED BY <2>1, <3>1, <3>2, <3>3
  <2>4. Classified(c) = FlattenSeq(r)
    BY DEF Classified, Outcomes
  <2> HIDE DEF r, p
  <2>5. f[From(k) + Len(r)] = f[From(k)] \o FlattenSeq(r)
    <3>1. From(k) + Len(r) <= Len(p)
      BY <1>1, <2>1, <2>2
    <3>2. IsPart(r, p, From(k))
      BY <2>3, <3>1 DEF IsPart
    <3> DEFINE a == From(k)
    <3>3. a \in Nat /\ r \in Seq(Seq(Nat)) /\ p \in Seq(Seq(Nat)) /\ IsJoin(Nat, p, f)
          /\ IsPart(r, p, a)
      BY <1>1, <1>3, <2>1, <2>2, <3>2
    <3> HIDE DEF a
    <3>4. f[a + Len(r)] = f[a] \o FlattenSeq(r)
      BY <3>3, JoinOfPart
    <3> QED BY <3>4 DEF a
  <2>6. f[To(s, k)] = f[From(k)] \o Classified(c)
    BY <2>1, <2>2, <2>4, <2>5
  <2>7. k # 1 => From(k) = To(s, k - 1)
    BY <2>1 DEF From, To
  <2>8. k = 1 => From(k) = 0
    BY SheetAssumption DEF From
  <2>9. k = m => To(s, k) = n
    <3> DEFINE whole == m * ChunkSize
    <3>1. whole \in Int
      BY <1>2, SheetAssumption, SMT
    <3>2. n <= whole
      BY <1>2
    <3>3. To(s, m) = IF whole <= n THEN whole ELSE n
      BY DEF To
    <3> HIDE DEF whole
    <3> QED BY <1>1, <3>1, <3>2, <3>3
  <2> QED BY <1>1, <2>1, <2>6, <2>7, <2>8, <2>9 DEF c
<1> HIDE DEF p, q
<1>7. /\ \A k \in 0..m : End(k) \in 0..n
      /\ \A k \in 1..m : End(k) = To(s, k) /\ End(k - 1) = From(k)
      /\ End(0) = 0 /\ End(m) = n
  <2>1. m = 0 => n = 0
    <3>1. 0 * ChunkSize = 0
      BY SheetAssumption, SMT
    <3> QED BY <1>1, <1>2, <3>1
  <2>2. ASSUME NEW k \in 1..m PROVE End(k) = To(s, k) /\ End(k - 1) = From(k)
    <3>1. k # 0 /\ (k # 1 => k - 1 # 0) /\ (k = 1 => k - 1 = 0)
      BY <1>2
    <3> QED BY <1>6, <3>1
  <2>3. ASSUME NEW k \in 0..m PROVE End(k) \in 0..n
    <3>1. k = 0 \/ k \in 1..m
      BY <1>2
    <3>2. CASE k = 0
      BY <1>1, <3>2
    <3>3. CASE k # 0
      BY <1>6, <3>1, <3>3
    <3> QED BY <3>2, <3>3
  <2>4. End(m) = n
    <3>1. m = 0 \/ m \in 1..m
      BY <1>2
    <3> QED BY <1>6, <2>1, <3>1
  <2> QED BY <2>2, <2>3, <2>4
<1> HIDE DEF End
<1>8. IsJoin(Nat, q, F)
  <2>1. \A i \in 0..n : f[i] \in Seq(Nat)
    BY <1>1, <1>3 DEF IsJoin
  <2>2. \A k \in 0..m : f[End(k)] \in Seq(Nat)
    BY <1>7, <2>1
  <2>3. F \in [0..Len(q) -> Seq(Nat)]
    BY <1>5, <2>2
  <2>4. F[0] = <<>>
    BY <1>2, <1>3, <1>7 DEF IsJoin
  <2>5. ASSUME NEW k \in 1..m PROVE F[k] = F[k - 1] \o q[k]
    <3>1. k \in 0..m /\ k - 1 \in 0..m
      BY <1>2
    <3>2. F[k] = f[End(k)] /\ F[k - 1] = f[End(k - 1)]
      BY <3>1
    <3>3. q[k] = Classified(Chunks(s)[k])
      BY DEF q
    <3> HIDE DEF F
    <3> QED BY <1>6, <1>7, <3>2, <3>3
  <2> HIDE DEF F
  <2> QED BY <1>5, <2>3, <2>4, <2>5 DEF IsJoin
<1>10. F[m] = f[n]
  BY <1>2, <1>7
<1> HIDE DEF F
<1>9. FlattenSeq(q) = F[m] /\ FlattenSeq(p) = f[n]
  BY <1>1, <1>3, <1>5, <1>8, FlattenIsJoin
<1> QED BY <1>1, <1>9, <1>10 DEF q

\* A row that raises is in some chunk, which raises.
LEMMA RaisesInChunk ==
  ASSUME NEW s \in Seq(RowKind), Raises(RowsOf(s))
  PROVE  \E k \in 1..Len(Chunks(s)) : Raises(Chunks(s)[k])
<1> DEFINE m == Len(Chunks(s))
           c == ChunkSize
<1>1. PICK r \in 1..Len(s) : RowsOf(s)[r].kind = "poison"
  BY RowsShape DEF Raises
<1>2. Len(s) \in Nat /\ m \in Nat /\ Len(s) <= m * ChunkSize /\ c \in Nat \ {0} /\ r \in Nat
  BY EnoughChunks, SheetAssumption
<1> HIDE DEF m
<1> DEFINE k == (r + c - 1) \div c
<1>3. k \in Nat /\ r <= k * c /\ k # 0 /\ (k - 1) * c < r /\ k - 1 \in Nat
  <2> HIDE DEF c
  <2>1. r >= 1
    BY <1>1
  <2>2. k \in Nat /\ r <= k * c /\ (k = 0 \/ (k - 1) * c < r)
    BY <1>2, SMT
  <2>3. 0 * c = 0
    BY <1>2, SMT
  <2> QED BY <1>2, <2>1, <2>2, <2>3
<1> HIDE DEF k
<1>4. k <= m
  <2> SUFFICES ASSUME ~ (k <= m) PROVE FALSE
    OBVIOUS
  <2>1. m <= k - 1
    BY <1>2, <1>3
  <2>2. m * c <= (k - 1) * c /\ m * c \in Nat /\ (k - 1) * c \in Nat
    BY <1>2, <1>3, <2>1, Multiples
  <2> QED BY <1>2, <1>3, <2>2
<1>5. k \in 1..m
  BY <1>2, <1>3, <1>4
<1>6. /\ From(k) \in Nat /\ To(s, k) \in Nat
      /\ Chunks(s)[k] \in Seq(SheetRows) /\ From(k) + Len(Chunks(s)[k]) = To(s, k)
      /\ \A i \in 1..Len(Chunks(s)[k]) : Chunks(s)[k][i] = RowsOf(s)[From(k) + i]
  BY <1>5, ChunkShape DEF m
<1> DEFINE chunk == Chunks(s)[k]
           i == r - From(k)
<1>7. r <= To(s, k) /\ From(k) < r
  BY <1>3 DEF From, To
<1>8. Len(chunk) \in Nat /\ i \in 1..Len(chunk) /\ From(k) + i = r
  <2>1. Len(chunk) \in Nat
    BY <1>6
  <2> QED BY <1>2, <1>6, <1>7, <2>1
<1>9. chunk[i].kind = "poison"
  BY <1>1, <1>6, <1>8
<1> HIDE DEF chunk, i
<1>10. Raises(chunk)
  BY <1>8, <1>9 DEF Raises
<1> QED BY <1>5, <1>10 DEF chunk, m
-----------------------------------------------------------------------------
(* The enrichment of a sheet                                               *)

(***************************************************************************)
(* Whatever the order in which the chunks of a job return: what has come   *)
(* back is what the chunks are classified as, each of them once, and a job *)
(* goes on to anchor when none is missing.  So the results it joins are    *)
(* the items of the sheet, which does not change after the upload.         *)
(***************************************************************************)
\* What the chunks of a sheet come back with.
Whole(s) == {k \in 1..Len(Chunks(s)) : ~ Raises(Chunks(s)[k])}
Returns(s) == {[chunk |-> k, results |-> Classified(Chunks(s)[k])] : k \in Whole(s)}

Returning ==
  \A j \in Jobs :
    /\ returned[j] \in Seq(Returns(sheet[j]))
    /\ \A n, m \in 1..Len(returned[j]) : returned[j][n].chunk = returned[j][m].chunk => n = m
    /\ phase[j] = "none" => returned[j] = <<>>

AllBack(j) == \A k \in 1..Len(Chunks(sheet[j])) : ~ Waiting(j, k)

\* e anchors the sheet s.
Anchors(e, s) ==
  /\ e = EntryOf(e.request, Anchor(Classified(RowsOf(s))))
  /\ ~ Raises(RowsOf(s))

EnrichInv ==
  /\ phase \in [Jobs -> Phases] /\ sheet \in [Jobs -> Seq(RowKind)]
  /\ DOMAIN returned = Jobs /\ Returning
  /\ \A j \in Jobs : phase[j] = "anchoring" => AllBack(j)
  /\ \A e \in entries :
       e.request \in Jobs /\ phase[e.request] # "none" /\ Anchors(e, sheet[e.request])

(* The initial states satisfy the invariant.                               *)
LEMMA EnrichStarts == Init => EnrichInv
<1> SUFFICES ASSUME Init PROVE EnrichInv
  OBVIOUS
<1>1. phase \in [Jobs -> Phases] /\ entries = {} /\ \A j \in Jobs : phase[j] = "none"
  BY DEF Init, Phases
<1>2. sheet \in [Jobs -> Seq(RowKind)]
  <2>1. <<>> \in Seq(RowKind)
    OBVIOUS
  <2> QED BY <2>1 DEF Init
<1>3. DOMAIN returned = Jobs /\ \A j \in Jobs : returned[j] = <<>>
  BY DEF Init
<1>4. Returning
  <2> SUFFICES ASSUME NEW j \in Jobs
               PROVE  /\ returned[j] \in Seq(Returns(sheet[j]))
                      /\ \A n, m \in 1..Len(returned[j]) :
                           returned[j][n].chunk = returned[j][m].chunk => n = m
    BY <1>3 DEF Returning
  <2>1. returned[j] = <<>> /\ 1..Len(<<>>) = {}
    BY <1>3
  <2>2. \A T : <<>> \in Seq(T)
    OBVIOUS
  <2> QED BY <2>1, <2>2
<1> QED BY <1>1, <1>2, <1>3, <1>4 DEF EnrichInv

\* A job moves on, and what is stored stays.
Moves(j) ==
  /\ \E p \in Phases \ {"none"} : phase' = [phase EXCEPT ![j] = p] /\ (p = "anchoring" => AllBack(j))
  /\ UNCHANGED <<sheet, returned, entries>>

(* The steps of a job, apart from those that only move it on.              *)
LEMMA EnrichStep ==
  ASSUME EnrichInv, NEW j \in Jobs, Submit(j) \/ Work(j) \/ TaskDies(j)
  PROVE  \/ \E s \in Sheets : Upload(j, s)
         \/ \E k \in 1..Len(Chunks(sheet[j])) : ClassifyChunk(j, k)
         \/ AddEntry(j)
         \/ Moves(j)
<1>1. CASE CreateTracker(j) \/ Enqueue(j) \/ EnqueueFails(j)
  BY <1>1 DEF CreateTracker, Enqueue, EnqueueFails, Goto, Moves, Phases
<1>2. CASE Dispatch(j)
  <2> DEFINE p == IF Chunks(sheet[j]) = <<>> THEN "anchoring" ELSE "classifying"
  <2>1. p \in Phases \ {"none"} /\ phase' = [phase EXCEPT ![j] = p]
        /\ UNCHANGED <<sheet, returned, entries>>
    BY <1>2 DEF Dispatch, Goto, Phases
  <2>2. p = "anchoring" => AllBack(j)
    <3>1. Chunks(sheet[j]) = <<>> => 1..Len(Chunks(sheet[j])) = {}
      OBVIOUS
    <3> QED BY <3>1 DEF AllBack
  <2> HIDE DEF p
  <2> QED BY <2>1, <2>2 DEF Moves
<1>3. CASE \E k \in 1..Len(Chunks(sheet[j])) : ChunkRaises(j, k)
  BY <1>3 DEF ChunkRaises, Goto, Moves, Phases
<1>4. CASE Callback(j)
  BY <1>4 DEF Callback, Goto, Moves, Phases, AllBack
<1>5. CASE InsertItems(j) \/ InsertRaises(j) \/ TaskDies(j)
  BY <1>5 DEF InsertItems, InsertRaises, TaskDies, Goto, Moves, Phases
<1> QED BY <1>1, <1>2, <1>3, <1>4, <1>5 DEF Submit, Work

(* A step that only moves the job on keeps the invariant.                  *)
LEMMA MovesPreserve ==
  ASSUME EnrichInv, NEW j \in Jobs, Moves(j)
  PROVE  EnrichInv'
<1> USE DEF EnrichInv
<1>1. PICK p \in Phases \ {"none"} :
        phase' = [phase EXCEPT ![j] = p] /\ (p = "anchoring" => AllBack(j))
  BY DEF Moves
<1>2. UNCHANGED <<sheet, returned, entries>>
  BY DEF Moves
<1>3. phase' \in [Jobs -> Phases]
      /\ \A i \in Jobs : phase'[i] = IF i = j THEN p ELSE phase[i]
  BY <1>1
<1>4. Returning'
  BY <1>1, <1>2, <1>3 DEF Returning
<1>5. \A i \in Jobs : AllBack(i)' <=> AllBack(i)
  BY <1>2 DEF AllBack, Waiting
<1>6. \A i \in Jobs : phase'[i] = "anchoring" => AllBack(i)'
  BY <1>1, <1>3, <1>5
<1>7. \A e \in entries' :
        e.request \in Jobs /\ phase'[e.request] # "none" /\ Anchors(e, sheet'[e.request])
  BY <1>1, <1>2, <1>3
<1> QED BY <1>2, <1>3, <1>4, <1>6, <1>7

(* So does an upload, which cuts the sheet into chunks,                    *)
LEMMA UploadPreserves ==
  ASSUME EnrichInv, NEW j \in Jobs, NEW s \in Sheets, Upload(j, s)
  PROVE  EnrichInv'
<1> USE DEF EnrichInv
<1>1. /\ phase[j] = "none" /\ sheet' = [sheet EXCEPT ![j] = s]
      /\ phase' = [phase EXCEPT ![j] = "uploaded"] /\ UNCHANGED <<returned, entries>>
  BY DEF Upload, Goto
<1>2. s \in Seq(RowKind)
  BY SheetAssumption
<1>3. phase' \in [Jobs -> Phases] /\ sheet' \in [Jobs -> Seq(RowKind)]
      /\ phase'[j] = "uploaded"
      /\ \A i \in Jobs \ {j} : phase'[i] = phase[i] /\ sheet'[i] = sheet[i]
  BY <1>1, <1>2 DEF Phases
<1>4. Returning'
  <2>1. ASSUME NEW i \in Jobs
        PROVE  /\ returned[i] \in Seq(Returns(sheet'[i]))
               /\ \A n, m \in 1..Len(returned[i]) :
                    returned[i][n].chunk = returned[i][m].chunk => n = m
               /\ phase'[i] = "none" => returned[i] = <<>>
    <3>1. CASE i = j
      <4>1. returned[i] = <<>>
        BY <1>1, <3>1 DEF Returning
      <4>2. \A T : <<>> \in Seq(T)
        OBVIOUS
      <4> QED BY <4>1, <4>2
    <3>2. CASE i # j
      BY <1>3, <3>2 DEF Returning
    <3> QED BY <3>1, <3>2
  <2> QED BY <1>1, <2>1 DEF Returning
<1>5. ASSUME NEW i \in Jobs, phase'[i] = "anchoring" PROVE AllBack(i)'
  <2>1. i # j /\ phase[i] = "anchoring"
    BY <1>3, <1>5
  <2>2. sheet'[i] = sheet[i] /\ returned' = returned
    BY <1>1, <1>3, <2>1
  <2> QED BY <2>1, <2>2 DEF AllBack, Waiting
<1>6. \A e \in entries' :
        e.request \in Jobs /\ phase'[e.request] # "none" /\ Anchors(e, sheet'[e.request])
  <2> SUFFICES ASSUME NEW e \in entries
               PROVE  e.request \in Jobs /\ phase'[e.request] # "none" /\ Anchors(e, sheet'[e.request])
    BY <1>1
  <2>1. e.request \in Jobs /\ phase[e.request] # "none" /\ Anchors(e, sheet[e.request])
    OBVIOUS
  <2>2. e.request # j
    BY <1>1, <2>1
  <2> QED BY <1>3, <2>1, <2>2
<1> QED BY <1>1, <1>3, <1>4, <1>5, <1>6

(* a chunk that is classified, whichever comes first,                      *)
LEMMA ClassifyPreserves ==
  ASSUME EnrichInv, NEW j \in Jobs, NEW k \in 1..Len(Chunks(sheet[j])), ClassifyChunk(j, k)
  PROVE  EnrichInv'
<1> USE DEF EnrichInv
<1> DEFINE new == [chunk |-> k, results |-> Classified(Chunks(sheet[j])[k])]
           old == returned[j]
<1>1. /\ phase[j] = "classifying" /\ Waiting(j, k) /\ ~ Raises(Chunks(sheet[j])[k])
      /\ returned' = [returned EXCEPT ![j] = Append(old, new)]
      /\ UNCHANGED <<phase, sheet, entries>>
  BY DEF ClassifyChunk
<1>2. new \in Returns(sheet[j]) /\ new.chunk = k
  BY <1>1 DEF Returns, Whole
<1>3. old \in Seq(Returns(sheet[j]))
  BY DEF Returning
<1>4. \A n, m \in 1..Len(old) : old[n].chunk = old[m].chunk => n = m
  BY DEF Returning
<1>5. \A n \in 1..Len(old) : old[n].chunk # k
  BY <1>1 DEF Waiting
<1> HIDE DEF new, old
<1>6. /\ Append(old, new) \in Seq(Returns(sheet[j])) /\ Len(Append(old, new)) = Len(old) + 1
      /\ Len(old) \in Nat
      /\ \A n \in 1..(Len(old) + 1) :
           Append(old, new)[n] = IF n <= Len(old) THEN old[n] ELSE new
  BY <1>2, <1>3, AppendProperties
<1> DEFINE all == Append(old, new)
<1>7. ASSUME NEW n \in 1..Len(all), NEW m \in 1..Len(all), all[n].chunk = all[m].chunk
      PROVE  n = m
  <2>1. n \in 1..(Len(old) + 1) /\ m \in 1..(Len(old) + 1)
        /\ all[n] = (IF n <= Len(old) THEN old[n] ELSE new)
        /\ all[m] = (IF m <= Len(old) THEN old[m] ELSE new)
    BY <1>6
  <2> HIDE DEF all
  <2>2. CASE n <= Len(old) /\ m <= Len(old)
    BY <1>4, <1>6, <1>7, <2>1, <2>2
  <2>3. CASE n <= Len(old) /\ ~ (m <= Len(old))
    BY <1>2, <1>5, <1>6, <1>7, <2>1, <2>3
  <2>4. CASE ~ (n <= Len(old)) /\ m <= Len(old)
    BY <1>2, <1>5, <1>6, <1>7, <2>1, <2>4
  <2>5. CASE ~ (n <= Len(old)) /\ ~ (m <= Len(old))
    BY <1>6, <2>1, <2>5
  <2> QED BY <2>2, <2>3, <2>4, <2>5
<1>8. \A i \in Jobs : returned'[i] = IF i = j THEN all ELSE returned[i]
  BY <1>1
<1> HIDE DEF all
<1>9. Returning'
  <2>1. ASSUME NEW i \in Jobs
        PROVE  /\ returned'[i] \in Seq(Returns(sheet[i]))
               /\ \A n, m \in 1..Len(returned'[i]) :
                    returned'[i][n].chunk = returned'[i][m].chunk => n = m
               /\ phase[i] = "none" => returned'[i] = <<>>
    <3>1. CASE i = j
      <4>1. returned'[i] = all /\ all \in Seq(Returns(sheet[i])) /\ phase[i] # "none"
        BY <1>1, <1>6, <1>8, <3>1 DEF all
      <4> QED BY <1>7, <4>1
    <3>2. CASE i # j
      <4>1. returned'[i] = returned[i]
        BY <1>8, <3>2
      <4> QED BY <4>1 DEF Returning
    <3> QED BY <3>1, <3>2
  <2> QED BY <1>1, <2>1 DEF Returning
<1>10. ASSUME NEW i \in Jobs, phase'[i] = "anchoring" PROVE AllBack(i)'
  <2>1. i # j /\ phase[i] = "anchoring"
    BY <1>1, <1>10
  <2>2. sheet' = sheet /\ returned'[i] = returned[i]
    BY <1>1, <1>8, <2>1
  <2> QED BY <2>1, <2>2 DEF AllBack, Waiting
<1>11. DOMAIN returned' = Jobs
  BY <1>1
<1> QED BY <1>1, <1>9, <1>10, <1>11

\* When every chunk is back, what is joined is what the sheet is classified as.
LEMMA JoinedIsExpected ==
  ASSUME EnrichInv, NEW j \in Jobs, AllBack(j)
  PROVE  /\ Joined(j) = Classified(RowsOf(sheet[j]))
         /\ ~ Raises(RowsOf(sheet[j]))
<1> DEFINE s == sheet[j]
           m == Len(Chunks(s))
           back == {returned[j][n] : n \in 1..Len(returned[j])}
<1>1. s \in Seq(RowKind) /\ returned[j] \in Seq(Returns(s))
  BY DEF EnrichInv, Returning
<1>2. back \subseteq Returns(s)
  BY <1>1
<1>3. ASSUME NEW k \in 1..m PROVE \E r \in back : r.chunk = k
  BY <1>3 DEF AllBack, Waiting
<1>4. ASSUME NEW k \in 1..m
      PROVE  ResultsOf(j, k) = Classified(Chunks(s)[k]) /\ ~ Raises(Chunks(s)[k])
  <2> DEFINE r == CHOOSE r \in back : r.chunk = k
  <2>1. r \in back /\ r.chunk = k
    BY <1>3
  <2>2. ResultsOf(j, k) = r.results
    BY DEF ResultsOf
  <2> HIDE DEF r
  <2>3. PICK i \in Whole(s) : r = [chunk |-> i, results |-> Classified(Chunks(s)[i])]
    BY <1>2, <2>1 DEF Returns
  <2>4. i = k /\ r.results = Classified(Chunks(s)[i]) /\ ~ Raises(Chunks(s)[i])
    BY <2>1, <2>3 DEF Whole
  <2> QED BY <2>2, <2>4
<1>5. [k \in 1..m |-> ResultsOf(j, k)] = [k \in 1..m |-> Classified(Chunks(s)[k])]
  BY <1>4
<1>6. Joined(j) = FlattenSeq([k \in 1..m |-> Classified(Chunks(s)[k])])
  BY <1>5 DEF Joined
<1>7. Joined(j) = Classified(RowsOf(s))
  BY <1>1, <1>6, ChunksTogether
<1>8. ~ Raises(RowsOf(s))
  BY <1>1, <1>4, RaisesInChunk
<1> QED BY <1>7, <1>8

(* and the anchor, when all chunks are there.                              *)
LEMMA AddEntryPreserves ==
  ASSUME EnrichInv, NEW j \in Jobs, AddEntry(j)
  PROVE  EnrichInv'
<1> USE DEF EnrichInv
<1> DEFINE new == EntryOf(j, Anchor(Joined(j)))
<1>1. /\ phase[j] = "anchoring" /\ entries' = entries \cup {new}
      /\ phase' = [phase EXCEPT ![j] = "storing"] /\ UNCHANGED <<sheet, returned>>
  BY DEF AddEntry, Goto
<1>2. AllBack(j)
  BY <1>1
<1>3. new.request = j /\ Anchors(new, sheet[j])
  <2>1. new.request = j
    BY DEF EntryOf
  <2> QED BY <1>2, <2>1, JoinedIsExpected DEF Anchors
<1> HIDE DEF new
<1>4. phase' \in [Jobs -> Phases]
      /\ \A i \in Jobs : phase'[i] = IF i = j THEN "storing" ELSE phase[i]
  BY <1>1 DEF Phases
<1>5. Returning'
  BY <1>1, <1>4 DEF Returning
<1>6. \A i \in Jobs : AllBack(i)' <=> AllBack(i)
  BY <1>1 DEF AllBack, Waiting
<1>7. \A i \in Jobs : phase'[i] = "anchoring" => AllBack(i)'
  BY <1>4, <1>6
<1>8. \A e \in entries' :
        e.request \in Jobs /\ phase'[e.request] # "none" /\ Anchors(e, sheet'[e.request])
  <2> SUFFICES ASSUME NEW e \in entries'
               PROVE  e.request \in Jobs /\ phase'[e.request] # "none" /\ Anchors(e, sheet[e.request])
    BY <1>1
  <2>1. CASE e = new
    BY <1>3, <1>4, <2>1
  <2>2. CASE e \in entries
    BY <1>4, <2>2
  <2> QED BY <1>1, <2>1, <2>2
<1> QED BY <1>1, <1>4, <1>5, <1>7, <1>8

(* Every step keeps the invariant.                                         *)
LEMMA EnrichPreserved == EnrichInv /\ [Next]_vars => EnrichInv'
<1> SUFFICES ASSUME EnrichInv, [Next]_vars PROVE EnrichInv'
  OBVIOUS
<1>1. CASE UNCHANGED vars
  BY <1>1 DEF vars, EnrichInv, Returning, AllBack, Waiting
<1>2. CASE Next
  <2>1. PICK j \in Jobs : Submit(j) \/ Work(j) \/ TaskDies(j)
    BY <1>2 DEF Next
  <2> QED BY <2>1, EnrichStep, MovesPreserve, UploadPreserves, ClassifyPreserves, AddEntryPreserves
<1> QED BY <1>1, <1>2

\* A leaf of a batch fits the proof of a position when it is the leaf there.
LEMMA ItemProvable ==
  ASSUME NEW results \in Seq(Nat), NEW i \in 0..(Len(results) - 1), NEW k \in 1..Len(results)
  PROVE  FoldProof(LeafHashes(results)[k], MerkleProof(LeafHashes(results), i))
           = MerkleRoot(LeafHashes(results))
         <=> LeafHashes(results)[k] = LeafHashes(results)[i + 1]
<1> DEFINE leaves == LeafHashes(results)
           T == {LeafForItem(n, x) : n \in Nat, x \in Nat}
<1>1. Len(results) \in Nat /\ \A n \in 1..Len(results) : results[n] \in Nat
  OBVIOUS
<1>2. leaves \in [1..Len(results) -> T]
  <2>1. \A n \in 1..Len(results) : n - 1 \in Nat /\ LeafForItem(n - 1, results[n]) \in T
    BY <1>1, SMTT(40)
  <2> HIDE DEF T
  <2> QED BY <2>1 DEF LeafHashes
<1>3. leaves \in Seq(T) /\ Len(leaves) = Len(results)
  <2> HIDE DEF leaves, T
  <2> QED BY <1>1, <1>2, SMTT(40)
<1>4. \A n \in 1..Len(results) : NotNode(leaves[n])
  <2> SUFFICES ASSUME NEW n \in 1..Len(results), NEW l, NEW r, leaves[n] = Node(l, r)
               PROVE  FALSE
    BY DEF NotNode
  <2>1. DOMAIN leaves[n] = {"leaf_index", "row"}
    BY DEF LeafHashes, LeafForItem
  <2>2. DOMAIN Node(l, r) = {"left", "right"}
    BY DEF Node
  <2> HIDE DEF leaves
  <2>3. "left" \in DOMAIN leaves[n]
    BY <2>2
  <2> QED BY <2>1, <2>3
<1> HIDE DEF leaves, T
<1>5. IsLayer(leaves) /\ i \in 0..(Len(leaves) - 1)
  BY <1>1, <1>3 DEF IsLayer
<1>6. FoldProof(leaves[i + 1], MerkleProof(leaves, i)) = MerkleRoot(leaves)
  BY <1>5, ProofLeadsToRoot
<1>7. ASSUME FoldProof(leaves[k], MerkleProof(leaves, i)) = MerkleRoot(leaves)
      PROVE  leaves[k] = leaves[i + 1]
  <2>1. NotNode(leaves[k]) /\ Len(leaves) <= Len(leaves)
    BY <1>1, <1>3, <1>4
  <2> QED BY <1>5, <1>7, <2>1, ProofBinds
<1>8. FoldProof(leaves[k], MerkleProof(leaves, i)) = MerkleRoot(leaves)
      <=> leaves[k] = leaves[i + 1]
  BY <1>6, <1>7
<1> QED BY <1>8 DEF leaves

(* A job is anchored over all its items in the order of the sheet, with a  *)
(* proof for each that fits it and no other, for any sheets, any size of   *)
(* the chunks and any number of jobs, whatever order the chunks return in  *)
(* (tasks.py 60-100, anchor.py 12-70).                                     *)
THEOREM AnchorsAreSound == Spec => []AnchorSound
<1>1. ASSUME EnrichInv PROVE AnchorSound
  <2>1. ASSUME NEW j \in Jobs
        PROVE  /\ Len(returned[j]) <= Len(Chunks(sheet[j]))
               /\ \A n \in 1..Len(returned[j]) : returned[j][n].chunk \in 1..Len(Chunks(sheet[j]))
    <3> DEFINE all == returned[j]
               m == Len(Chunks(sheet[j]))
               f == [n \in 1..Len(all) |-> all[n].chunk]
    <3>1. all \in Seq(Returns(sheet[j])) /\ m \in Nat /\ Len(all) \in Nat
      <4>1. sheet[j] \in Seq(RowKind) /\ all \in Seq(Returns(sheet[j]))
        BY <1>1 DEF EnrichInv, Returning
      <4> QED BY <4>1, EnoughChunks
    <3>2. \A n \in 1..Len(all) : all[n].chunk \in 1..m
      <4>1. \A n \in 1..Len(all) : all[n] \in Returns(sheet[j])
        BY <3>1
      <4> QED BY <4>1 DEF Returns, Whole
    <3>3. \A n, l \in 1..Len(all) : all[n].chunk = all[l].chunk => n = l
      BY <1>1 DEF EnrichInv, Returning
    <3> HIDE DEF all, m
    <3>4. f \in Injection(1..Len(all), 1..m)
      BY <3>2, <3>3 DEF Injection, IsInjective
    <3> HIDE DEF f
    <3>5. IsFiniteSet(1..m) /\ Cardinality(1..m) = m /\ Cardinality(1..Len(all)) = Len(all)
      <4>1. /\ IsFiniteSet(1..m) /\ Cardinality(1..m) = IF 1 > m THEN 0 ELSE m - 1 + 1
            /\ Cardinality(1..Len(all)) = IF 1 > Len(all) THEN 0 ELSE Len(all) - 1 + 1
        BY <3>1, FS_Interval, SMTT(40)
      <4> QED BY <3>1, <4>1
    <3>6. Len(all) <= m
      BY <3>4, <3>5, FS_Injection
    <3> QED BY <3>2, <3>6 DEF all, m
  <2>2. ASSUME NEW e \in entries
        PROVE  /\ e.request \in Jobs /\ Anchors(e, sheet[e.request])
               /\ Expected(e.request) \in Seq(Nat)
               /\ e.count = Len(Expected(e.request)) /\ e.count \in Nat
               /\ e.root = MerkleRoot(LeafHashes(Expected(e.request)))
    <3>1. e.request \in Jobs /\ Anchors(e, sheet[e.request]) /\ sheet[e.request] \in Seq(RowKind)
      BY <1>1 DEF EnrichInv
    <3>2. Expected(e.request) \in Seq(Nat)
      BY <3>1, RowsShape, OutcomesShape DEF Expected
    <3>3. e = EntryOf(e.request, Anchor(Expected(e.request)))
      BY <3>1 DEF Anchors, Expected
    <3> DEFINE results == Expected(e.request)
    <3>4. EntryOf(e.request, Anchor(results)).count = Len(results)
          /\ EntryOf(e.request, Anchor(results)).root = MerkleRoot(LeafHashes(results))
      BY DEF EntryOf, Anchor
    <3> HIDE DEF results
    <3>5. e.count = Len(results) /\ e.root = MerkleRoot(LeafHashes(results))
      BY <3>3, <3>4 DEF results
    <3> QED BY <3>1, <3>2, <3>5 DEF results
  <2>3. TypeOK
    BY <1>1, <2>1, <2>2 DEF TypeOK, EnrichInv
  <2>4. AnchorCoversSheet
    BY <2>2 DEF AnchorCoversSheet, Anchors, Expected
  <2>5. EveryItemProvable
    <3> SUFFICES ASSUME NEW e \in entries, NEW i \in 0..(e.count - 1), NEW k \in 1..e.count
                 PROVE  LET leaves == LeafHashes(Expected(e.request))
                            p == InclusionProof(leaves, i, e.root)
                        IN  VerifyInclusion([p EXCEPT !.leaf_hash = leaves[k]])
                              <=> leaves[k] = p.leaf_hash
      BY DEF EveryItemProvable
    <3> DEFINE results == Expected(e.request)
               leaves == LeafHashes(results)
               p == InclusionProof(leaves, i, e.root)
               steps == MerkleProof(leaves, i)
    <3>1. results \in Seq(Nat) /\ i \in 0..(Len(results) - 1) /\ k \in 1..Len(results)
          /\ e.root = MerkleRoot(leaves)
      BY <2>2
    <3> HIDE DEF results
    <3>2. FoldProof(leaves[k], steps) = e.root <=> leaves[k] = leaves[i + 1]
      BY <3>1, ItemProvable
    <3> HIDE DEF leaves, steps
    <3>3. p.leaf_hash = leaves[i + 1]
          /\ [p EXCEPT !.leaf_hash = leaves[k]] =
               [leaf_hash |-> leaves[k], proof |-> steps, root |-> e.root]
      BY DEF InclusionProof, steps
    <3> DEFINE q == [leaf_hash |-> leaves[k], proof |-> steps, root |-> e.root]
    <3>4. q.leaf_hash = leaves[k] /\ q.proof = steps /\ q.root = e.root
      OBVIOUS
    <3> HIDE DEF q, p
    <3>5. VerifyInclusion([p EXCEPT !.leaf_hash = leaves[k]]) <=> FoldProof(leaves[k], steps) = e.root
      BY <3>3, <3>4 DEF VerifyInclusion, q
    <3> QED BY <3>2, <3>3, <3>5 DEF p, leaves, results
  <2> QED BY <2>3, <2>4, <2>5 DEF AnchorSound
<1> QED BY <1>1, EnrichStarts, EnrichPreserved, PTL DEF Spec
=============================================================================
