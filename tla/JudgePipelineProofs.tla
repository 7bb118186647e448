-------------------------- MODULE JudgePipelineProofs --------------------------
(***************************************************************************)
(* Theorems about JudgePipeline: a run that reads "done" is complete, and  *)
(* a batch that has returned failed exactly the others, whatever the two   *)
(* pools do in between.  The count of a run's outstanding votes is shown   *)
(* to be what it is meant to count: the votes of its judged cases that     *)
(* have not landed, offered or lost, and the workers that have landed one  *)
(* and not yet put it away.                                                *)
(***************************************************************************)
EXTENDS JudgePipeline, FiniteSetTheorems, TLAPS

\* A worker that has a cell in hand.
Busy(x) == x.at \in {"case", "offer", "done"}

\* The cells that nobody is through with: to be offered yet, or in hand.
OpenCells(n, ex) ==
    {c \in Cells : c >= n \/ \E w \in ExamWorkers : Busy(ex[w]) /\ ex[w].cell = c}

OpenOf(r, n, ex) == {c \in OpenCells(n, ex) : RunOf[c] = r}

\* What the feed loop and the exam workers keep: remaining counts open cells,
\* and the worker that brings it to 0 marks the run.
CellsGood(n, ex, rem, marked, tl) ==
    /\ \A w \in ExamWorkers :
          /\ Busy(ex[w]) => ex[w].cell < n
          /\ ex[w].at \in {"case", "offer"} => ex[w].case <= NCases[ex[w].cell]
          /\ ex[w].at = "case" => ex[w].slot = 1
          /\ ex[w].at = "mark" => rem[RunOf[ex[w].cell]] = 0
    /\ \A v, w \in ExamWorkers :
          Busy(ex[v]) /\ Busy(ex[w]) /\ ex[v].cell = ex[w].cell => v = w
    /\ \A r \in Runs :
          /\ rem[r] = Cardinality(OpenOf(r, n, ex))
          /\ r \in marked => rem[r] = 0
          /\ rem[r] = 0 => \/ r \in marked
                           \/ \E w \in ExamWorkers : ex[w].at = "mark" /\ RunOf[ex[w].cell] = r
    /\ tl.completed + Cardinality(OpenCells(n, ex)) = NCells
    /\ tl.dead <= tl.completed

\* Unit u is still ahead of worker x.
Ahead(x, u) ==
    /\ x.cell = u[1]
    /\ \/ x.at = "case" /\ x.case <= u[2]
       \/ x.at = "offer" /\ x.case < u[2]

\* The cases nobody has come to.
OpenUnits(n, ex) ==
    {u \in Units : u[1] >= n \/ \E w \in ExamWorkers : Ahead(ex[w], u)}

UnitOf(x) == <<x.cell, x.case>>

\* A judge worker with a vote in hand.
Hands == {"call", "settle", "drop"}

Calls(jd, u) == {g \in JudgeWorkers : jd[g].at = "call" /\ jd[g].unit = u}

\* The judged cases without their row.
Due(op, rw) == {u \in Units \ op : rw[u] = "none"}

\* Their votes that have not landed, be they offered, in a call, or lost.
Unlanded(r, op, vt, rw) ==
    {t \in Units \X (1 .. Jury) :
        RunOf[t[1][1]] = r /\ t[1] \in Due(op, rw) /\ t[2] > vt[t[1]]}

\* The workers that have landed a vote and not put it away.
Landed(r, jd) ==
    {g \in JudgeWorkers : jd[g].at \in {"settle", "drop"} /\ RunOf[jd[g].unit[1]] = r}

\* Nothing has happened to the cases op that nobody has come to.
Fresh(op, vt, rw) == \A u \in op : rw[u] = "none" /\ vt[u] = 0

\* What the judge workers have in hand.
HandsGood(op, jd, vt, rw) ==
    \A g \in JudgeWorkers :
        /\ jd[g].at \in Hands => jd[g].unit \notin op
        /\ jd[g].at = "call" => rw[jd[g].unit] = "none"
        /\ jd[g].at = "settle" => vt[jd[g].unit] = Jury

\* A case that is due waits for a vote, or for the worker that has the last one.
DueGood(op, jd, vt, rw) ==
    \A u \in Due(op, rw) :
        vt[u] < Jury \/ \E g \in JudgeWorkers : jd[g].at = "settle" /\ jd[g].unit = u

CallsFit(jd, vt) == \A u \in Units : Cardinality(Calls(jd, u)) + vt[u] <= Jury

\* The votes before the one that is offered are all there are.
OffersFit(op, ex, jd, vt, rw) ==
    \A w \in ExamWorkers : ex[w].at = "offer" =>
        /\ UnitOf(ex[w]) \in Due(op, rw)
        /\ Cardinality(Calls(jd, UnitOf(ex[w]))) + vt[UnitOf(ex[w])] < ex[w].slot

\* judgePending counts the votes that have not landed or not been put away.
Counted(op, jd, vt, rw, pd) ==
    \A r \in Runs : pd[r] = Cardinality(Unlanded(r, op, vt, rw)) + Cardinality(Landed(r, jd))

\* What the judge stage keeps.
VotesGood(op, ex, jd, vt, rw, pd) ==
    /\ Fresh(op, vt, rw) /\ HandsGood(op, jd, vt, rw) /\ DueGood(op, jd, vt, rw)
    /\ CallsFit(jd, vt) /\ OffersFit(op, ex, jd, vt, rw) /\ Counted(op, jd, vt, rw, pd)

\* A run is finished once, when both stages are through with it.
EndsGood(mn, n, ex, jd, bk, st) ==
    /\ \A r \in Runs : r \in bk.finished <=> r \in bk.cellsDone /\ bk.pending[r] = 0
    /\ \A r \in Runs : st[r] = IF r \in bk.finished THEN "done"
                               ELSE IF mn = "returned" THEN "failed" ELSE "running"
    /\ mn \in {"drain", "returned"} => \A w \in ExamWorkers : ex[w].at = "gone"
    /\ mn = "returned" => \A g \in JudgeWorkers : jd[g].at = "gone"
    /\ mn = "offer" => n <= NCells

CInv == CellsGood(next, exam, book.remaining, book.cellsDone, tally)
VInv == VotesGood(OpenUnits(next, exam), exam, judge, votes, row, book.pending)
EInv == EndsGood(main, next, exam, judge, book, status)

IInv == TypeOK /\ CInv /\ VInv /\ EInv

-----------------------------------------------------------------------------
(* Finite sets *)

\* A unit is a cell and one of its cases.
LEMMA UnitFacts ==
    /\ \A u \in Units : u = <<u[1], u[2]>> /\ u[1] \in Cells /\ u[2] \in 1 .. NCases[u[1]]
    /\ \A c \in Cells : \A k \in 1 .. NCases[c] : <<c, k>> \in Units
BY DEF Units

LEMMA CellsFinite == IsFiniteSet(Cells) /\ Cardinality(Cells) = NCells
BY FS_Interval, PipelineAssumption DEF Cells

LEMMA UnitsFinite == IsFiniteSet(Units)
<1> DEFINE f == [c \in Cells |-> {c} \X (1 .. NCases[c])]
           SS == {{c} \X (1 .. NCases[c]) : c \in Cells}
<1>1. f \in Surjection(Cells, SS)
  BY DEF Surjection
<1>2. IsFiniteSet(SS)
  <2> HIDE DEF f, SS
  <2> QED BY <1>1, CellsFinite, FS_Surjection
<1>3. \A T \in SS : IsFiniteSet(T)
  <2> SUFFICES ASSUME NEW c \in Cells PROVE IsFiniteSet({c} \X (1 .. NCases[c]))
    OBVIOUS
  <2>1. NCases[c] \in Int
    BY PipelineAssumption
  <2>2. IsFiniteSet(1 .. NCases[c])
    BY <2>1, FS_Interval
  <2>3. IsFiniteSet({c})
    BY FS_Singleton
  <2> QED BY <2>2, <2>3, FS_Product
<1>4. Units = UNION SS
  BY DEF Units
<1> HIDE DEF SS
<1> QED BY <1>2, <1>3, <1>4, FS_UNION

\* The sets that are counted are finite.
LEMMA Finite ==
    /\ \A n, ex : IsFiniteSet(OpenCells(n, ex))
    /\ \A r, n, ex : IsFiniteSet(OpenOf(r, n, ex))
    /\ \A jd, u : IsFiniteSet(Calls(jd, u))
    /\ \A r, op, vt, rw : IsFiniteSet(Unlanded(r, op, vt, rw))
    /\ \A r, jd : IsFiniteSet(Landed(r, jd))
<1>1. \A n, ex : OpenCells(n, ex) \in SUBSET Cells
  BY DEF OpenCells
<1>2. \A r, n, ex : OpenOf(r, n, ex) \in SUBSET Cells
  BY <1>1 DEF OpenOf
<1>3. \A jd, u : Calls(jd, u) \in SUBSET JudgeWorkers
  BY DEF Calls
<1>4. \A r, jd : Landed(r, jd) \in SUBSET JudgeWorkers
  BY DEF Landed
<1>5. \A r, op, vt, rw : Unlanded(r, op, vt, rw) \in SUBSET (Units \X (1 .. Jury))
  BY DEF Unlanded
<1>6. IsFiniteSet(1 .. Jury)
  BY FS_Interval, PipelineAssumption
<1>7. IsFiniteSet(Units \X (1 .. Jury))
  BY <1>6, UnitsFinite, FS_Product
<1> QED BY <1>1, <1>2, <1>3, <1>4, <1>5, <1>7, CellsFinite, PipelineAssumption, FS_Subset

\* The numbers they have.
LEMMA Numbers ==
    /\ \A n, ex : Cardinality(OpenCells(n, ex)) \in Nat
    /\ \A r, n, ex : Cardinality(OpenOf(r, n, ex)) \in Nat
    /\ \A jd, u : Cardinality(Calls(jd, u)) \in Nat
    /\ \A r, op, vt, rw : Cardinality(Unlanded(r, op, vt, rw)) \in Nat
    /\ \A r, jd : Cardinality(Landed(r, jd)) \in Nat
BY Finite, FS_CardinalityType

-----------------------------------------------------------------------------
(* Steps of the exam workers *)

\* NextCase stays with the cell.
LEMMA NextCaseFacts ==
    ASSUME NEW x \in ExamWorker, x.case <= NCases[x.cell]
    PROVE  /\ NextCase(x) \in ExamWorker /\ NextCase(x).cell = x.cell /\ Busy(NextCase(x))
           /\ NextCase(x).at \in {"case", "done"}
           /\ NextCase(x).at = "case" =>
                 /\ NextCase(x).case = x.case + 1 /\ NextCase(x).slot = 1
                 /\ x.case + 1 <= NCases[x.cell]
           /\ NextCase(x).at = "done" => x.case = NCases[x.cell]
<1>1. NCases[x.cell] \in Nat /\ x.case \in Nat \ {0} /\ 1 \in 1 .. Jury
  BY PipelineAssumption DEF ExamWorker
<1>2. CASE x.case = NCases[x.cell]
  <2>1. NextCase(x) = [x EXCEPT !.at = "done"]
    BY <1>2 DEF NextCase
  <2>2. NextCase(x) \in ExamWorker /\ NextCase(x).at = "done" /\ NextCase(x).cell = x.cell
    BY <2>1 DEF ExamWorker
  <2> QED BY <1>2, <2>2 DEF Busy
<1>3. CASE x.case # NCases[x.cell]
  <2>1. NextCase(x) = [x EXCEPT !.at = "case", !.case = x.case + 1, !.slot = 1]
    BY <1>3 DEF NextCase
  <2>2. /\ NextCase(x) \in ExamWorker /\ NextCase(x).at = "case"
        /\ NextCase(x).cell = x.cell /\ NextCase(x).case = x.case + 1 /\ NextCase(x).slot = 1
    <3> DEFINE Z(k, j) == [x EXCEPT !.at = "case", !.case = k, !.slot = j]
    <3>1. x.case + 1 \in Nat \ {0} /\ NextCase(x) = Z(x.case + 1, 1)
      BY <1>1, <2>1
    <3>2. \A k \in Nat \ {0}, j \in 1 .. Jury :
             /\ Z(k, j) \in ExamWorker /\ Z(k, j).at = "case"
             /\ Z(k, j).cell = x.cell /\ Z(k, j).case = k /\ Z(k, j).slot = j
      BY DEF ExamWorker
    <3> HIDE DEF Z
    <3> QED BY <1>1, <3>1, <3>2
  <2>3. x.case + 1 <= NCases[x.cell]
    BY <1>1, <1>3
  <2> QED BY <2>2, <2>3 DEF Busy
<1> QED BY <1>2, <1>3

\* Worker w goes on with its cell.
LEMMA GoesOn ==
    ASSUME IInv, NEW w \in ExamWorkers, Busy(exam[w]), NEW y \in ExamWorker, Busy(y),
           y.cell = exam[w].cell, y.at \in {"case", "offer"} => y.case <= NCases[y.cell],
           y.at = "case" => y.slot = 1, exam' = [exam EXCEPT ![w] = y], next' = next
    PROVE  /\ CellsGood(next', exam', book.remaining, book.cellsDone, tally)
           /\ \A u \in Units :
                 u \in OpenUnits(next', exam') <=>
                     IF u[1] = y.cell THEN Ahead(y, u) ELSE u \in OpenUnits(next, exam)
           /\ \A u \in Units : u[1] = y.cell =>
                 (u \in OpenUnits(next, exam) <=> Ahead(exam[w], u))
           /\ EndsGood(main, next', exam', judge, book, status)
<1>1. /\ exam \in [ExamWorkers -> ExamWorker] /\ next \in Nat
      /\ exam'[w] = y /\ \A v \in ExamWorkers \ {w} : exam'[v] = exam[v]
  BY PipelineAssumption DEF IInv, TypeOK
<1>2. \A v \in ExamWorkers : Busy(exam'[v]) <=> Busy(exam[v])
  BY <1>1
<1>3. \A v \in ExamWorkers : /\ exam'[v].cell = exam[v].cell
                             /\ exam'[v].at = "mark" <=> exam[v].at = "mark"
  BY <1>1 DEF Busy
<1>4. OpenCells(next', exam') = OpenCells(next, exam)
  BY <1>2, <1>3 DEF OpenCells
<1>5. \A r : OpenOf(r, next', exam') = OpenOf(r, next, exam)
  BY <1>4 DEF OpenOf
<1>6. CellsGood(next', exam', book.remaining, book.cellsDone, tally)
  <2>1. \A v \in ExamWorkers :
           /\ Busy(exam'[v]) => exam'[v].cell < next'
           /\ exam'[v].at \in {"case", "offer"} => exam'[v].case <= NCases[exam'[v].cell]
           /\ exam'[v].at = "case" => exam'[v].slot = 1
           /\ exam'[v].at = "mark" => book.remaining[RunOf[exam'[v].cell]] = 0
    BY <1>1, <1>3 DEF IInv, CInv, CellsGood
  <2>2. \A v, z \in ExamWorkers :
           Busy(exam'[v]) /\ Busy(exam'[z]) /\ exam'[v].cell = exam'[z].cell => v = z
    BY <1>2, <1>3 DEF IInv, CInv, CellsGood
  <2>3. \A r \in Runs : book.remaining[r] = 0 =>
           \/ r \in book.cellsDone
           \/ \E v \in ExamWorkers : exam'[v].at = "mark" /\ RunOf[exam'[v].cell] = r
    BY <1>3 DEF IInv, CInv, CellsGood
  <2>4. \A r \in Runs : /\ book.remaining[r] = Cardinality(OpenOf(r, next', exam'))
                        /\ r \in book.cellsDone => book.remaining[r] = 0
    BY <1>5 DEF IInv, CInv, CellsGood
  <2>5. /\ tally.completed + Cardinality(OpenCells(next', exam')) = NCells
        /\ tally.dead <= tally.completed
    BY <1>4 DEF IInv, CInv, CellsGood
  <2> QED BY <2>1, <2>2, <2>3, <2>4, <2>5 DEF CellsGood
<1>7. \A v \in ExamWorkers \ {w} : Busy(exam[v]) => exam[v].cell # exam[w].cell
  BY DEF IInv, CInv, CellsGood
<1>8. exam[w].cell < next
  BY DEF IInv, CInv, CellsGood
<1>9. \A x, u : Ahead(x, u) => Busy(x) /\ x.cell = u[1]
  BY DEF Ahead, Busy
<1>10. \A u \in Units : u[1] = y.cell => ~(u[1] >= next)
  BY <1>1, <1>8, UnitFacts DEF Cells
<1>11. EndsGood(main, next', exam', judge, book, status)
  <2>1. \A v \in ExamWorkers : exam[v].at = "gone" => exam'[v].at = "gone"
    BY <1>1 DEF Busy
  <2> QED BY <2>1 DEF IInv, EInv, EndsGood
<1>12. \A u \in Units : u[1] = y.cell =>
          /\ u \in OpenUnits(next', exam') <=> Ahead(y, u)
          /\ u \in OpenUnits(next, exam) <=> Ahead(exam[w], u)
  BY <1>1, <1>7, <1>9, <1>10 DEF OpenUnits
<1>13. \A u \in Units : u[1] # y.cell =>
          (u \in OpenUnits(next', exam') <=> u \in OpenUnits(next, exam))
  BY <1>1, <1>9 DEF OpenUnits
<1> QED BY <1>6, <1>11, <1>12, <1>13

\* Nobody's cell, and nobody's vote, changes hands.
SameWork(ex, ex2) ==
    \A w \in ExamWorkers :
        ex2[w] = ex[w] \/ {ex[w].at, ex2[w].at} \subseteq {"check", "take", "gone"}

SameHands(jd, jd2) ==
    \A g \in JudgeWorkers :
        jd2[g] = jd[g] \/ {jd[g].at, jd2[g].at} \subseteq {"check", "take", "gone"}

\* No worker begins to offer a vote.
NoOffer(ex, ex2) == \A w \in ExamWorkers : ex2[w].at = "offer" => ex2[w] = ex[w]

\* The cells stay as they are.
LEMMA SameCells ==
    ASSUME NEW n, NEW ex, NEW ex2, NEW rem, NEW marked, NEW tl, SameWork(ex, ex2),
           CellsGood(n, ex, rem, marked, tl)
    PROVE  CellsGood(n, ex2, rem, marked, tl) /\ OpenUnits(n, ex2) = OpenUnits(n, ex)
<1>1. \A w \in ExamWorkers :
         \/ ex2[w] = ex[w]
         \/ ~Busy(ex[w]) /\ ~Busy(ex2[w]) /\ ex[w].at # "mark" /\ ex2[w].at # "mark"
  BY DEF SameWork, Busy
<1>2. OpenCells(n, ex2) = OpenCells(n, ex)
  BY <1>1 DEF OpenCells
<1>3. \A r : OpenOf(r, n, ex2) = OpenOf(r, n, ex)
  BY <1>2 DEF OpenOf
<1>4. \A x : x.at \in {"case", "offer"} => Busy(x)
  BY DEF Busy
<1>5. OpenUnits(n, ex2) = OpenUnits(n, ex)
  <2>1. \A x, u : Ahead(x, u) => Busy(x)
    BY DEF Ahead, Busy
  <2> QED BY <1>1, <2>1 DEF OpenUnits
<1> HIDE DEF Busy
<1> QED BY <1>1, <1>2, <1>3, <1>4, <1>5 DEF CellsGood

\* And so do the votes, if no worker begins to offer one.
LEMMA SameVotes ==
    ASSUME NEW op, NEW ex, NEW ex2, NEW jd, NEW jd2, NEW vt, NEW rw, NEW pd,
           NoOffer(ex, ex2), SameHands(jd, jd2), VotesGood(op, ex, jd, vt, rw, pd)
    PROVE  VotesGood(op, ex2, jd2, vt, rw, pd)
<1>1. \A g \in JudgeWorkers : jd[g].at \in Hands \/ jd2[g].at \in Hands => jd2[g] = jd[g]
  BY DEF SameHands, Hands
<1>2. "call" \in Hands /\ "settle" \in Hands /\ "drop" \in Hands
  BY DEF Hands
<1>3. \A u : Calls(jd2, u) = Calls(jd, u)
  BY <1>1, <1>2 DEF Calls
<1>4. \A r : Landed(r, jd2) = Landed(r, jd)
  BY <1>1, <1>2 DEF Landed
<1>5. HandsGood(op, jd2, vt, rw)
  BY <1>1, <1>2 DEF VotesGood, HandsGood
<1>6. DueGood(op, jd2, vt, rw)
  BY <1>1, <1>2 DEF VotesGood, DueGood
<1>7. CallsFit(jd2, vt)
  BY <1>3 DEF VotesGood, CallsFit
<1>8. OffersFit(op, ex2, jd2, vt, rw)
  BY <1>3 DEF VotesGood, OffersFit, NoOffer
<1>9. Counted(op, jd2, vt, rw, pd)
  BY <1>4 DEF VotesGood, Counted
<1> QED BY <1>5, <1>6, <1>7, <1>8, <1>9 DEF VotesGood

\* The cases of K have their rows now, and the others what they had.
Filled(K, rw, rw2) ==
    /\ \A u \in K : rw2[u] # "none"
    /\ \A u \in Units \ K : rw2[u] = rw[u]

OfUnits(jd) == \A g \in JudgeWorkers : jd[g].unit \in Units

\* Worker w comes past the cases of K, and each of them has its row.
LEMMA Passes ==
    ASSUME NEW op \in SUBSET Units, NEW ex, NEW ex2, NEW jd, NEW vt, NEW rw, NEW rw2, NEW pd,
           VotesGood(op, ex, jd, vt, rw, pd), OfUnits(jd),
           NEW K \in SUBSET op, Filled(K, rw, rw2), NoOffer(ex, ex2)
    PROVE  VotesGood(op \ K, ex2, jd, vt, rw2, pd)
<1>1. Due(op \ K, rw2) = Due(op, rw)
  BY DEF Due, Filled
<1>2. \A r : Unlanded(r, op \ K, vt, rw2) = Unlanded(r, op, vt, rw)
  BY <1>1 DEF Unlanded
<1>3. HandsGood(op \ K, jd, vt, rw2)
  BY DEF VotesGood, HandsGood, Hands, Filled, OfUnits
<1>4. Fresh(op \ K, vt, rw2)
  BY DEF VotesGood, Fresh, Filled
<1>5. DueGood(op \ K, jd, vt, rw2)
  BY <1>1 DEF VotesGood, DueGood
<1>6. OffersFit(op \ K, ex2, jd, vt, rw2)
  BY <1>1 DEF VotesGood, OffersFit, NoOffer
<1>7. Counted(op \ K, jd, vt, rw2, pd)
  BY <1>2 DEF VotesGood, Counted
<1> QED BY <1>3, <1>4, <1>5, <1>6, <1>7 DEF VotesGood

\* The same as a step: what was ahead of w and is not any more has its row.
LEMMA Executes ==
    ASSUME IInv, NEW w \in ExamWorkers, exam[w].at \in {"case", "offer"},
           NEW y \in ExamWorker, Busy(y), y.at # "offer", y.cell = exam[w].cell,
           y.at = "case" => y.case <= NCases[y.cell] /\ y.slot = 1,
           exam' = [exam EXCEPT ![w] = y],
           UNCHANGED <<main, next, judge, votes, book, tally, status>>,
           \A u \in Units : u[1] = y.cell /\ Ahead(y, u) => Ahead(exam[w], u),
           \A u \in Units :
               IF u[1] = y.cell /\ Ahead(exam[w], u) /\ ~Ahead(y, u)
               THEN row'[u] # "none" ELSE row'[u] = row[u]
    PROVE  CInv' /\ VInv' /\ EInv'
<1> DEFINE op == OpenUnits(next, exam)
           op2 == OpenUnits(next', exam')
           K == {u \in Units : u[1] = y.cell /\ Ahead(exam[w], u) /\ ~Ahead(y, u)}
<1>1. Busy(exam[w])
  BY DEF Busy
<1>2. /\ CellsGood(next', exam', book.remaining, book.cellsDone, tally)
      /\ \A u \in Units : u \in op2 <=> IF u[1] = y.cell THEN Ahead(y, u) ELSE u \in op
      /\ \A u \in Units : u[1] = y.cell => (u \in op <=> Ahead(exam[w], u))
      /\ EndsGood(main, next', exam', judge, book, status)
  BY <1>1, GoesOn
<1>3. op \in SUBSET Units /\ op2 \in SUBSET Units
  BY DEF OpenUnits
<1> HIDE DEF op, op2
<1>4. op2 = op \ K /\ K \in SUBSET op
  BY <1>2, <1>3
<1>5. Filled(K, row, row')
  BY DEF Filled
<1> HIDE DEF K
<1>6. NoOffer(exam, exam')
  BY DEF IInv, TypeOK, NoOffer
<1>7. OfUnits(judge)
  BY DEF IInv, TypeOK, JudgeWorker, OfUnits
<1>8. VotesGood(op, exam, judge, votes, row, book.pending)
  BY DEF IInv, VInv, op
<1>9. VotesGood(op2, exam', judge, votes, row', book.pending)
  BY <1>3, <1>4, <1>5, <1>6, <1>7, <1>8, Passes
<1>10. CInv' /\ EInv'
  BY <1>2 DEF CInv, EInv
<1>11. VInv'
  BY <1>9 DEF VInv, op2
<1> QED BY <1>10, <1>11

\* evalModel gives up before the first case.
LEMMA GiveUpStep ==
    ASSUME IInv, NEW w \in ExamWorkers, NEW what \in {"skipped", "stored"}, GiveUp(w, what)
    PROVE  CInv' /\ VInv' /\ EInv'
<1> DEFINE y == [exam[w] EXCEPT !.at = "done"]
<1>1. exam[w] \in ExamWorker /\ exam[w].at = "case" /\ exam[w].case = 1
  BY DEF GiveUp, IInv, TypeOK
<1>2. y \in ExamWorker /\ y.at = "done" /\ y.cell = exam[w].cell
  BY <1>1 DEF ExamWorker
<1>3. exam' = [exam EXCEPT ![w] = y]
  BY DEF GiveUp
<1>4. \A u \in Units : row'[u] = IF u[1] = exam[w].cell /\ u[2] >= 1 THEN what ELSE row[u]
  BY DEF GiveUp, RowsFrom
<1>5. UNCHANGED <<main, next, judge, votes, book, tally, status>>
  BY DEF GiveUp
<1> HIDE DEF y
<1>6. \A u \in Units : u[2] >= 1
  <2>1. \A u \in Units : u[2] \in 1 .. NCases[u[1]] /\ NCases[u[1]] \in Nat
    BY UnitFacts, PipelineAssumption
  <2> QED BY <2>1
<1>7. \A u : u[1] = y.cell => ~Ahead(y, u)
  BY <1>2 DEF Ahead
<1>8. \A u \in Units : u[1] = y.cell => Ahead(exam[w], u)
  BY <1>1, <1>2, <1>6 DEF Ahead
<1>9. \A u \in Units :
         IF u[1] = y.cell /\ Ahead(exam[w], u) /\ ~Ahead(y, u)
         THEN row'[u] # "none" ELSE row'[u] = row[u]
  BY <1>2, <1>4, <1>6, <1>7, <1>8
<1> QED BY <1>1, <1>2, <1>3, <1>5, <1>7, <1>9, Executes DEF Busy

\* Past one case: what NextCase leaves ahead.
LEMMA NextAhead ==
    ASSUME NEW x \in ExamWorker, x.case <= NCases[x.cell], NEW u \in Units, u[1] = x.cell
    PROVE  Ahead(NextCase(x), u) <=> x.case < u[2]
<1>1. u[2] \in 1 .. NCases[x.cell] /\ NCases[x.cell] \in Nat /\ x.case \in Nat
  BY UnitFacts, PipelineAssumption DEF ExamWorker
<1> QED BY <1>1, NextCaseFacts DEF Ahead

\* A case without votes: worker w goes on to the next one, or opens its circuit.
LEMMA OneCaseStep ==
    ASSUME IInv, NEW w \in ExamWorkers, exam[w].at = "case",
           NEW x \in ExamWorker, x.at = "case", x.cell = exam[w].cell, x.case = exam[w].case,
           exam' = [exam EXCEPT ![w] = NextCase(x)],
           row' = [row EXCEPT ![<<x.cell, x.case>>] = "stored"],
           UNCHANGED <<main, next, judge, votes, book, tally, status>>
    PROVE  CInv' /\ VInv' /\ EInv'
<1>1. x.case <= NCases[x.cell] /\ x.case \in Nat
  BY DEF IInv, CInv, CellsGood, ExamWorker
<1>2. row \in [Units -> {"none", "stored", "skipped"}]
  BY DEF IInv, TypeOK
<1>3. \A u \in Units : u[1] = x.cell =>
          (Ahead(exam[w], u) <=> x.case <= u[2]) /\ (Ahead(NextCase(x), u) <=> x.case < u[2])
  BY <1>1, NextAhead DEF Ahead
<1>4. \A u \in Units : u = <<x.cell, x.case>> <=> u[1] = x.cell /\ u[2] = x.case
  BY UnitFacts
<1>5. \A u \in Units : u[2] \in Nat
  BY UnitFacts, PipelineAssumption
<1>6. \A u \in Units :
         IF u[1] = x.cell /\ Ahead(exam[w], u) /\ ~Ahead(NextCase(x), u)
         THEN row'[u] # "none" ELSE row'[u] = row[u]
  BY <1>1, <1>2, <1>3, <1>4, <1>5
<1>7. \A u \in Units : u[1] = x.cell /\ Ahead(NextCase(x), u) => Ahead(exam[w], u)
  BY <1>1, <1>3, <1>5
<1>8. /\ NextCase(x) \in ExamWorker /\ Busy(NextCase(x)) /\ NextCase(x).cell = x.cell
      /\ NextCase(x).at # "offer"
      /\ NextCase(x).at = "case" => NextCase(x).case <= NCases[x.cell] /\ NextCase(x).slot = 1
  BY <1>1, NextCaseFacts
<1> DEFINE y == NextCase(x)
<1> HIDE DEF y
<1> QED BY <1>6, <1>7, <1>8, Executes DEF y

\* The answer that is missing: the case has a null row, or all that are left.
LEMMA UnansweredStep ==
    ASSUME IInv, NEW w \in ExamWorkers, Unanswered(w)
    PROVE  CInv' /\ VInv' /\ EInv'
<1> DEFINE Z(k) == [exam[w] EXCEPT !.failed = k]
           x == [exam[w] EXCEPT !.failed = @ + 1]
           y == [x EXCEPT !.at = "done"]
<1>1. exam[w] \in ExamWorker /\ exam[w].at = "case" /\ exam[w].failed + 1 \in Nat
  BY DEF Unanswered, IInv, TypeOK, ExamWorker
<1>2. x \in ExamWorker /\ x.at = "case" /\ x.cell = exam[w].cell /\ x.case = exam[w].case
  <2>1. \A k \in Nat : /\ Z(k) \in ExamWorker /\ Z(k).at = exam[w].at
                        /\ Z(k).cell = exam[w].cell /\ Z(k).case = exam[w].case
    BY <1>1 DEF ExamWorker
  <2>2. x = Z(exam[w].failed + 1)
    OBVIOUS
  <2> HIDE DEF Z, x
  <2> QED BY <1>1, <2>1, <2>2
<1>3. y \in ExamWorker /\ y.at = "done" /\ y.cell = exam[w].cell
  <2> HIDE DEF x
  <2> QED BY <1>2 DEF ExamWorker
<1>4. UNCHANGED <<main, next, judge, votes, book, tally, status>>
  BY DEF Unanswered
<1>5. \/ row' = RowsFrom(w, x.case, "stored") /\ exam' = [exam EXCEPT ![w] = y]
      \/ /\ row' = [row EXCEPT ![<<x.cell, x.case>>] = "stored"]
         /\ exam' = [exam EXCEPT ![w] = NextCase(x)]
  BY DEF Unanswered
<1> HIDE DEF x, y
<1>6. CASE row' = RowsFrom(w, x.case, "stored") /\ exam' = [exam EXCEPT ![w] = y]
  <2>1. \A u \in Units :
           row'[u] = IF u[1] = exam[w].cell /\ u[2] >= x.case THEN "stored" ELSE row[u]
    BY <1>6 DEF RowsFrom
  <2>2. \A u : u[1] = y.cell => ~Ahead(y, u)
    BY <1>3 DEF Ahead
  <2>3. \A u \in Units : u[1] = y.cell => (Ahead(exam[w], u) <=> u[2] >= x.case)
    <3>1. x.case \in Nat /\ \A u \in Units : u[2] \in Nat
      BY <1>2, UnitFacts, PipelineAssumption DEF ExamWorker
    <3> QED BY <1>1, <1>2, <1>3, <3>1 DEF Ahead
  <2>4. \A u \in Units :
           IF u[1] = y.cell /\ Ahead(exam[w], u) /\ ~Ahead(y, u)
           THEN row'[u] # "none" ELSE row'[u] = row[u]
    BY <1>3, <2>1, <2>2, <2>3
  <2> QED BY <1>1, <1>3, <1>4, <1>6, <2>2, <2>4, Executes DEF Busy
<1>7. CASE /\ row' = [row EXCEPT ![<<x.cell, x.case>>] = "stored"]
           /\ exam' = [exam EXCEPT ![w] = NextCase(x)]
  BY <1>1, <1>2, <1>4, <1>7, OneCaseStep
<1> QED BY <1>5, <1>6, <1>7

\* A case no jury is asked about.
LEMMA RuledStep ==
    ASSUME IInv, NEW w \in ExamWorkers, Ruled(w)
    PROVE  CInv' /\ VInv' /\ EInv'
<1> DEFINE x == [exam[w] EXCEPT !.answered = TRUE, !.failed = 0]
<1>1. exam[w] \in ExamWorker /\ exam[w].at = "case"
  BY DEF Ruled, IInv, TypeOK
<1>2. x \in ExamWorker /\ x.at = "case" /\ x.cell = exam[w].cell /\ x.case = exam[w].case
  BY <1>1 DEF ExamWorker
<1>3. /\ UNCHANGED <<main, next, judge, votes, book, tally, status>>
      /\ row' = [row EXCEPT ![<<x.cell, x.case>>] = "stored"]
      /\ exam' = [exam EXCEPT ![w] = NextCase(x)]
  BY DEF Ruled
<1> HIDE DEF x
<1> QED BY <1>1, <1>2, <1>3, OneCaseStep

\* The votes that are not offered stay outstanding.
LEMMA OfferStopsStep ==
    ASSUME IInv, NEW w \in ExamWorkers, OfferStops(w)
    PROVE  CInv' /\ VInv' /\ EInv'
<1> DEFINE x == exam[w]
           y == NextCase(x)
<1>1. x \in ExamWorker /\ x.at = "offer" /\ x.case <= NCases[x.cell]
  BY DEF OfferStops, IInv, TypeOK, CInv, CellsGood
<1>2. /\ y \in ExamWorker /\ Busy(y) /\ y.at # "offer" /\ y.cell = x.cell
      /\ y.at = "case" => y.case <= NCases[y.cell] /\ y.slot = 1
  BY <1>1, NextCaseFacts
<1>3. \A u \in Units : u[1] = y.cell => (Ahead(y, u) <=> Ahead(x, u))
  BY <1>1, <1>2, NextAhead DEF Ahead
<1>4. /\ UNCHANGED <<main, next, judge, votes, row, book, tally, status>>
      /\ exam' = [exam EXCEPT ![w] = y]
  BY DEF OfferStops
<1> HIDE DEF y
<1> QED BY <1>1, <1>2, <1>3, <1>4, Executes

-----------------------------------------------------------------------------
(* Votes *)

\* Worker w comes to the first vote of u, and no other worker moves.
FirstOffer(ex, ex2, w, u) ==
    /\ ex2[w].at = "offer" /\ UnitOf(ex2[w]) = u /\ ex2[w].slot = 1
    /\ \A v \in ExamWorkers \ {w} : ex2[v] = ex[v]

\* The votes of u join the outstanding ones of its run.
JuryAdded(pd, pd2, u) ==
    \A r \in Runs : pd2[r] = IF r = RunOf[u[1]] THEN pd[r] + Jury ELSE pd[r]

\* enqueueVotes: a case nobody has come to is due, with all its votes to land.
LEMMA Enqueues ==
    ASSUME NEW op \in SUBSET Units, NEW ex, NEW ex2, NEW jd, NEW vt, NEW rw, NEW pd, NEW pd2,
           VotesGood(op, ex, jd, vt, rw, pd), NEW u \in op,
           NEW w \in ExamWorkers, FirstOffer(ex, ex2, w, u), JuryAdded(pd, pd2, u)
    PROVE  VotesGood(op \ {u}, ex2, jd, vt, rw, pd2)
<1> DEFINE New == {u} \X (1 .. Jury)
           R == RunOf[u[1]]
<1>0. /\ ex2[w].at = "offer" /\ UnitOf(ex2[w]) = u /\ ex2[w].slot = 1
      /\ \A v \in ExamWorkers \ {w} : ex2[v] = ex[v]
      /\ \A r \in Runs : pd2[r] = IF r = RunOf[u[1]] THEN pd[r] + Jury ELSE pd[r]
  BY DEF FirstOffer, JuryAdded
<1>1. rw[u] = "none" /\ vt[u] = 0 /\ Jury \in Nat \ {0}
  BY PipelineAssumption DEF VotesGood, Fresh
<1>2. Due(op \ {u}, rw) = Due(op, rw) \cup {u} /\ u \notin Due(op, rw)
  BY <1>1 DEF Due
<1>3. Unlanded(R, op \ {u}, vt, rw) = Unlanded(R, op, vt, rw) \cup New
  <2>1. \A k \in 1 .. Jury : k > vt[u]
    BY <1>1
  <2>2. \A t \in Units \X (1 .. Jury) : t \in New <=> t[1] = u
    OBVIOUS
  <2>3. \A t \in Units \X (1 .. Jury) : t[1] \in Units /\ t[2] \in 1 .. Jury
    OBVIOUS
  <2>4. New \subseteq Units \X (1 .. Jury)
    OBVIOUS
  <2>5. \A o : Unlanded(R, o, vt, rw) \subseteq Units \X (1 .. Jury)
    BY DEF Unlanded
  <2> HIDE DEF New
  <2>6. ASSUME NEW t \in Units \X (1 .. Jury)
        PROVE  t \in Unlanded(R, op \ {u}, vt, rw) <=> t \in Unlanded(R, op, vt, rw) \/ t \in New
    <3>1. CASE t[1] = u
      BY <1>2, <2>1, <2>2, <2>3, <3>1 DEF Unlanded
    <3>2. CASE t[1] # u
      BY <1>2, <2>2, <2>3, <3>2 DEF Unlanded
    <3> QED BY <3>1, <3>2
  <2> QED BY <2>4, <2>5, <2>6
<1>4. \A r : r # R => Unlanded(r, op \ {u}, vt, rw) = Unlanded(r, op, vt, rw)
  BY <1>2 DEF Unlanded
<1>5. Unlanded(R, op, vt, rw) \cap New = {}
  BY <1>2 DEF Unlanded
<1>6. IsFiniteSet(New) /\ Cardinality(New) = Jury
  <2>1. IsFiniteSet({u}) /\ Cardinality({u}) = 1
    BY FS_Singleton
  <2>2. IsFiniteSet(1 .. Jury) /\ Cardinality(1 .. Jury) = Jury
    BY <1>1, FS_Interval
  <2>3. /\ Cardinality(New) = Cardinality({u}) * Cardinality(1 .. Jury)
        /\ IsFiniteSet(New)
    BY <2>1, <2>2, FS_Product
  <2> HIDE DEF New
  <2>4. Cardinality(New) = 1 * Jury
    BY <2>1, <2>2, <2>3
  <2> QED BY <1>1, <2>3, <2>4
<1> HIDE DEF New
<1>7. Cardinality(Unlanded(R, op \ {u}, vt, rw)) = Cardinality(Unlanded(R, op, vt, rw)) + Jury
  <2>1. IsFiniteSet(Unlanded(R, op, vt, rw)) /\ Cardinality(Unlanded(R, op, vt, rw)) \in Nat
    BY Finite, Numbers
  <2>2. Cardinality(Unlanded(R, op, vt, rw) \cup New)
            = Cardinality(Unlanded(R, op, vt, rw)) + Jury - Cardinality({})
    BY <1>5, <1>6, <2>1, FS_Union
  <2>3. Cardinality({}) = 0
    BY FS_EmptySet
  <2>4. \A n \in Nat : n + Jury - 0 = n + Jury
    BY <1>1
  <2> QED BY <1>3, <2>1, <2>2, <2>3, <2>4
<1>8. Fresh(op \ {u}, vt, rw)
  BY DEF VotesGood, Fresh
<1>9. HandsGood(op \ {u}, jd, vt, rw)
  BY DEF VotesGood, HandsGood
<1>10. DueGood(op \ {u}, jd, vt, rw)
  BY <1>1, <1>2 DEF VotesGood, DueGood
<1>11. OffersFit(op \ {u}, ex2, jd, vt, rw)
  <2>1. Calls(jd, u) = {}
    BY DEF VotesGood, HandsGood, Calls, Hands
  <2>2. Cardinality(Calls(jd, u)) + vt[u] < ex2[w].slot
    BY <1>0, <1>1, <2>1, FS_EmptySet
  <2>3. \A v \in ExamWorkers \ {w} : ex2[v].at = "offer" =>
            /\ UnitOf(ex2[v]) \in Due(op \ {u}, rw)
            /\ Cardinality(Calls(jd, UnitOf(ex2[v]))) + vt[UnitOf(ex2[v])] < ex2[v].slot
    BY <1>0, <1>2 DEF VotesGood, OffersFit
  <2> QED BY <1>0, <1>2, <2>2, <2>3 DEF OffersFit
<1>12. Counted(op \ {u}, jd, vt, rw, pd2)
  <2> SUFFICES ASSUME NEW r \in Runs
               PROVE  pd2[r] = Cardinality(Unlanded(r, op \ {u}, vt, rw))
                               + Cardinality(Landed(r, jd))
    BY DEF Counted
  <2>1. pd[r] = Cardinality(Unlanded(r, op, vt, rw)) + Cardinality(Landed(r, jd))
    BY DEF VotesGood, Counted
  <2>2. /\ Cardinality(Unlanded(r, op, vt, rw)) \in Nat /\ Cardinality(Landed(r, jd)) \in Nat
        /\ Cardinality(Unlanded(r, op \ {u}, vt, rw)) \in Nat
    BY Numbers
  <2>3. CASE r = R
    BY <1>0, <1>1, <1>7, <2>1, <2>2, <2>3
  <2>4. CASE r # R
    BY <1>0, <1>4, <2>1, <2>4
  <2> QED BY <2>3, <2>4
<1> QED BY <1>8, <1>9, <1>10, <1>11, <1>12 DEF VotesGood

\* A judged case: its votes are counted, then offered.
LEMMA JudgedStep ==
    ASSUME IInv, NEW w \in ExamWorkers, Judged(w)
    PROVE  CInv' /\ VInv' /\ EInv'
<1> DEFINE x == exam[w]
           y == [x EXCEPT !.answered = TRUE, !.failed = 0, !.at = "offer"]
           u == UnitOf(x)
           r == RunOf[x.cell]
           op == OpenUnits(next, exam)
           op2 == OpenUnits(next', exam')
           pd2 == [book.pending EXCEPT ![r] = @ + Jury]
<1>1. x \in ExamWorker /\ x.at = "case" /\ x.case <= NCases[x.cell] /\ x.slot = 1 /\ x.cell < next
  BY DEF Judged, IInv, TypeOK, CInv, CellsGood, Busy
<1>2. /\ y \in ExamWorker /\ y.at = "offer" /\ y.cell = x.cell /\ y.case = x.case /\ y.slot = 1
  BY <1>1 DEF ExamWorker
<1>3. /\ exam' = [exam EXCEPT ![w] = y]
      /\ UNCHANGED <<main, next, judge, votes, row, tally, ctx, status>>
      /\ book' = [book EXCEPT !.pending[r] = @ + Jury]
  BY DEF Judged
<1>4. x.cell \in Cells /\ r \in Runs /\ NCases[x.cell] \in Nat /\ x.case \in Nat \ {0}
  BY <1>1, PipelineAssumption DEF ExamWorker
<1>5. u \in Units /\ u[1] = x.cell /\ u[2] = x.case
  BY <1>1, <1>4, UnitFacts DEF UnitOf
<1>6. /\ book'.pending = pd2 /\ book'.remaining = book.remaining
      /\ book'.cellsDone = book.cellsDone /\ book'.finished = book.finished
  BY <1>3 DEF IInv, TypeOK
<1>7. \A s \in Runs : book'.pending[s] = IF s = r THEN book.pending[s] + Jury ELSE book.pending[s]
  BY <1>4, <1>6 DEF IInv, TypeOK
<1>8. exam'[w] = y /\ \A v \in ExamWorkers \ {w} : exam'[v] = exam[v]
  BY <1>3 DEF IInv, TypeOK
<1> HIDE DEF y
<1>9. Busy(x) /\ Busy(y)
  BY <1>1, <1>2 DEF Busy
<1>10. /\ CellsGood(next', exam', book.remaining, book.cellsDone, tally)
       /\ \A t \in Units : t \in op2 <=> IF t[1] = y.cell THEN Ahead(y, t) ELSE t \in op
       /\ \A t \in Units : t[1] = y.cell => (t \in op <=> Ahead(x, t))
       /\ EndsGood(main, next', exam', judge, book, status)
  <2>1. next' = next
    BY <1>3
  <2> QED BY <1>1, <1>2, <1>3, <1>9, <2>1, GoesOn
<1>11. op \in SUBSET Units /\ op2 \in SUBSET Units
  BY DEF OpenUnits
<1>12. \A t \in Units : t[1] = x.cell =>
          /\ Ahead(x, t) <=> x.case <= t[2]
          /\ Ahead(y, t) <=> x.case < t[2]
          /\ t = u <=> t[2] = x.case
  BY <1>1, <1>2, UnitFacts DEF Ahead, UnitOf
<1>13. \A t \in Units : t[2] \in Nat
  BY UnitFacts, PipelineAssumption
<1> HIDE DEF op, op2, u
<1>14. \A t \in Units : t \in op2 <=> t \in op /\ t # u
  <2>1. \A t \in Units : t[1] = x.cell => (Ahead(y, t) <=> Ahead(x, t) /\ t # u)
    BY <1>4, <1>12, <1>13
  <2> QED BY <1>2, <1>5, <1>10, <2>1
<1>15. u \in op
  BY <1>2, <1>4, <1>5, <1>10, <1>12
<1>16. op2 = op \ {u}
  BY <1>11, <1>14
<1>17. UnitOf(exam'[w]) = u /\ exam'[w].at = "offer" /\ exam'[w].slot = 1
  BY <1>2, <1>8 DEF UnitOf, u
<1>18. VotesGood(op2, exam', judge, votes, row, book'.pending)
  <2>1. VotesGood(op, exam, judge, votes, row, book.pending)
    BY DEF IInv, VInv, op
  <2>2. JuryAdded(book.pending, book'.pending, u)
    BY <1>5, <1>7 DEF JuryAdded
  <2>3. FirstOffer(exam, exam', w, u)
    BY <1>8, <1>17 DEF FirstOffer
  <2>4. VotesGood(op \ {u}, exam', judge, votes, row, book'.pending)
    BY <1>11, <1>15, <2>1, <2>2, <2>3, Enqueues
  <2> QED BY <1>16, <2>4
<1>19. VInv'
  BY <1>3, <1>18 DEF VInv, op2
<1>20. CInv'
  BY <1>3, <1>6, <1>10 DEF CInv
<1>21. r \notin book.cellsDone
  <2>1. x.cell \in OpenOf(r, next, exam)
    BY <1>4, <1>9 DEF OpenOf, OpenCells
  <2>2. Cardinality(OpenOf(r, next, exam)) # 0
    <3>1. IsFiniteSet(OpenOf(r, next, exam)) /\ OpenOf(r, next, exam) # {}
      BY <2>1, Finite
    <3> QED BY <3>1, FS_EmptySet
  <2> QED BY <1>4, <2>2 DEF IInv, CInv, CellsGood
<1>22. EInv'
  <2>1. \A s \in Runs : s \in book'.finished <=> s \in book'.cellsDone /\ book'.pending[s] = 0
    <3> SUFFICES ASSUME NEW s \in Runs
                 PROVE  s \in book'.finished <=> s \in book'.cellsDone /\ book'.pending[s] = 0
      OBVIOUS
    <3>1. s \in book.finished <=> s \in book.cellsDone /\ book.pending[s] = 0
      BY DEF IInv, EInv, EndsGood
    <3> QED BY <1>6, <1>7, <1>21, <3>1
  <2> QED BY <1>3, <1>6, <1>10, <2>1 DEF EInv, EndsGood
<1> QED BY <1>19, <1>20, <1>22

\* A judge worker takes the vote on u that worker w offers.
LEMMA TakesCall ==
    ASSUME NEW op \in SUBSET Units, NEW ex, NEW ex2, NEW jd, NEW jd2, NEW vt, NEW rw, NEW pd,
           VotesGood(op, ex, jd, vt, rw, pd), OfUnits(jd),
           vt \in [Units -> Nat], NEW w \in ExamWorkers, ex \in [ExamWorkers -> ExamWorker],
           ex[w].at = "offer",
           NEW g \in JudgeWorkers, jd[g].at = "take",
           jd2[g] = [at |-> "call", unit |-> UnitOf(ex[w])],
           \A h \in JudgeWorkers \ {g} : jd2[h] = jd[h],
           \A v \in ExamWorkers \ {w} :
               ex2[v] = ex[v] /\ (ex[v].at = "offer" => UnitOf(ex[v]) # UnitOf(ex[w])),
           ex2[w].at = "offer" => UnitOf(ex2[w]) = UnitOf(ex[w]) /\ ex2[w].slot = ex[w].slot + 1
    PROVE  VotesGood(op, ex2, jd2, vt, rw, pd)
<1> DEFINE u == UnitOf(ex[w])
<1>1. u \in Due(op, rw) /\ Cardinality(Calls(jd, u)) + vt[u] < ex[w].slot
  BY DEF VotesGood, OffersFit
<1>2. u \in Units /\ u \notin op /\ rw[u] = "none"
  BY <1>1 DEF Due
<1>3. vt[u] \in Nat /\ ex[w].slot \in 1 .. Jury /\ Jury \in Nat /\ ex[w].slot \in Nat
  BY <1>2, PipelineAssumption DEF ExamWorker
<1> HIDE DEF u
<1>4. Calls(jd2, u) = Calls(jd, u) \cup {g} /\ g \notin Calls(jd, u)
  BY DEF Calls, u
<1>5. \A t : t # u => Calls(jd2, t) = Calls(jd, t)
  BY DEF Calls, u
<1>6. Cardinality(Calls(jd, u)) \in Nat /\ IsFiniteSet(Calls(jd, u))
  BY Finite, Numbers
<1>7. Cardinality(Calls(jd2, u)) = Cardinality(Calls(jd, u)) + 1
  <2>1. Cardinality(Calls(jd, u) \cup {g})
            = IF g \in Calls(jd, u) THEN Cardinality(Calls(jd, u))
              ELSE Cardinality(Calls(jd, u)) + 1
    BY <1>6, FS_AddElement
  <2> QED BY <1>4, <2>1
<1>8. \A r : Landed(r, jd2) = Landed(r, jd)
  BY DEF Landed
<1>9. HandsGood(op, jd2, vt, rw)
  <2>1. jd2[g].at = "call" /\ jd2[g].unit = u
    BY DEF u
  <2>2. \A h \in JudgeWorkers \ {g} :
           /\ jd2[h].at \in Hands => jd2[h].unit \notin op
           /\ jd2[h].at = "call" => rw[jd2[h].unit] = "none"
           /\ jd2[h].at = "settle" => vt[jd2[h].unit] = Jury
    BY DEF VotesGood, HandsGood
  <2> QED BY <1>2, <2>1, <2>2 DEF HandsGood
<1>10. DueGood(op, jd2, vt, rw)
  <2> SUFFICES ASSUME NEW t \in Due(op, rw), ~(vt[t] < Jury)
               PROVE  \E h \in JudgeWorkers : jd2[h].at = "settle" /\ jd2[h].unit = t
    BY DEF DueGood
  <2>1. PICK h \in JudgeWorkers : jd[h].at = "settle" /\ jd[h].unit = t
    BY DEF VotesGood, DueGood
  <2> QED BY <2>1
<1>11. CallsFit(jd2, vt)
  <2>1. Cardinality(Calls(jd2, u)) + vt[u] <= Jury
    BY <1>1, <1>3, <1>6, <1>7 DEF u
  <2>2. \A t \in Units \ {u} : Cardinality(Calls(jd2, t)) + vt[t] <= Jury
    BY <1>5 DEF VotesGood, CallsFit
  <2> QED BY <2>1, <2>2 DEF CallsFit
<1>12. OffersFit(op, ex2, jd2, vt, rw)
  <2>1. \A v \in ExamWorkers \ {w} : ex2[v].at = "offer" =>
           /\ UnitOf(ex2[v]) \in Due(op, rw)
           /\ Cardinality(Calls(jd2, UnitOf(ex2[v]))) + vt[UnitOf(ex2[v])] < ex2[v].slot
    BY <1>5 DEF VotesGood, OffersFit, u
  <2>2. ex2[w].at = "offer" =>
           /\ UnitOf(ex2[w]) \in Due(op, rw)
           /\ Cardinality(Calls(jd2, UnitOf(ex2[w]))) + vt[UnitOf(ex2[w])] < ex2[w].slot
    <3>1. Cardinality(Calls(jd2, u)) + vt[u] < ex[w].slot + 1
      BY <1>1, <1>3, <1>6, <1>7 DEF u
    <3> QED BY <1>1, <3>1 DEF u
  <2> QED BY <2>1, <2>2 DEF OffersFit
<1>13. Counted(op, jd2, vt, rw, pd)
  BY <1>8 DEF VotesGood, Counted
<1>14. Fresh(op, vt, rw)
  BY DEF VotesGood
<1> QED BY <1>9, <1>10, <1>11, <1>12, <1>13, <1>14 DEF VotesGood

\* The vote changes hands.
LEMMA OfferStep ==
    ASSUME IInv, NEW w \in ExamWorkers, NEW g \in JudgeWorkers, Offer(w, g)
    PROVE  CInv' /\ VInv' /\ EInv'
<1> DEFINE x == exam[w]
           Z(k) == [x EXCEPT !.slot = k]
           y == IF x.slot = Jury THEN NextCase(x) ELSE [x EXCEPT !.slot = @ + 1]
           op == OpenUnits(next, exam)
           op2 == OpenUnits(next', exam')
<1>1. /\ x \in ExamWorker /\ x.at = "offer" /\ x.case <= NCases[x.cell]
      /\ judge[g].at = "take" /\ judge \in [JudgeWorkers -> JudgeWorker]
      /\ exam \in [ExamWorkers -> ExamWorker] /\ votes \in [Units -> 0 .. Jury]
  BY DEF Offer, IInv, TypeOK, CInv, CellsGood
<1>2. /\ exam' = [exam EXCEPT ![w] = y]
      /\ judge' = [judge EXCEPT ![g] = [at |-> "call", unit |-> UnitOf(x)]]
      /\ UNCHANGED <<main, next, votes, row, book, tally, ctx, status>>
  BY DEF Offer, UnitOf
<1>3. x.slot # Jury => x.slot + 1 \in 1 .. Jury
  BY <1>1, PipelineAssumption DEF ExamWorker
<1>4. x.slot # Jury =>
         /\ y \in ExamWorker /\ y.at = "offer" /\ y.cell = x.cell /\ y.case = x.case
         /\ y.slot = x.slot + 1
  <2>1. \A k \in 1 .. Jury : /\ Z(k) \in ExamWorker /\ Z(k).at = x.at /\ Z(k).cell = x.cell
                             /\ Z(k).case = x.case /\ Z(k).slot = k
    BY <1>1 DEF ExamWorker
  <2>2. x.slot # Jury => y = Z(x.slot + 1)
    OBVIOUS
  <2> HIDE DEF Z, y
  <2> QED BY <1>1, <1>3, <2>1, <2>2
<1>5. x.slot = Jury => y = NextCase(x)
  OBVIOUS
<1> HIDE DEF Z, y
<1>6. /\ y \in ExamWorker /\ Busy(y) /\ y.cell = x.cell
      /\ y.at \in {"case", "offer"} => y.case <= NCases[y.cell]
      /\ y.at = "case" => y.slot = 1
      /\ y.at = "offer" => x.slot # Jury
  BY <1>1, <1>4, <1>5, NextCaseFacts DEF Busy
<1>7. \A t \in Units : t[1] = y.cell => (Ahead(y, t) <=> Ahead(x, t))
  <2>1. CASE x.slot = Jury
    BY <1>1, <1>5, <1>6, <2>1, NextAhead DEF Ahead
  <2>2. CASE x.slot # Jury
    BY <1>1, <1>4, <2>2 DEF Ahead
  <2> QED BY <2>1, <2>2
<1>8. Busy(x)
  BY <1>1 DEF Busy
<1>9. /\ CellsGood(next', exam', book.remaining, book.cellsDone, tally)
      /\ \A t \in Units : t \in op2 <=> IF t[1] = y.cell THEN Ahead(y, t) ELSE t \in op
      /\ \A t \in Units : t[1] = y.cell => (t \in op <=> Ahead(x, t))
      /\ EndsGood(main, next', exam', judge, book, status)
  <2>1. next' = next
    BY <1>2
  <2> QED BY <1>2, <1>6, <1>8, <2>1, GoesOn
<1>10. op \in SUBSET Units /\ op2 \in SUBSET Units
  BY DEF OpenUnits
<1> HIDE DEF op, op2
<1>11. op2 = op
  BY <1>7, <1>9, <1>10
<1>12. \A v \in ExamWorkers \ {w} : exam[v].at = "offer" => UnitOf(exam[v]) # UnitOf(x)
  BY <1>8 DEF IInv, CInv, CellsGood, UnitOf, Busy
<1>13. VotesGood(op2, exam', judge', votes, row, book.pending)
  <2>1. VotesGood(op, exam, judge, votes, row, book.pending)
    BY DEF IInv, VInv, op
  <2>2. OfUnits(judge)
    BY <1>1 DEF JudgeWorker, OfUnits
  <2>3. votes \in [Units -> Nat]
    BY <1>1, PipelineAssumption
  <2>4. /\ judge'[g] = [at |-> "call", unit |-> UnitOf(x)]
        /\ \A h \in JudgeWorkers \ {g} : judge'[h] = judge[h]
    BY <1>1, <1>2
  <2>5. exam'[w] = y /\ \A v \in ExamWorkers \ {w} : exam'[v] = exam[v]
    BY <1>1, <1>2
  <2>6. y.at = "offer" => UnitOf(y) = UnitOf(x) /\ y.slot = x.slot + 1
    BY <1>4, <1>6 DEF UnitOf
  <2>7. \A v \in ExamWorkers \ {w} :
           exam'[v] = exam[v] /\ (exam[v].at = "offer" => UnitOf(exam[v]) # UnitOf(x))
    BY <1>12, <2>5
  <2>8. exam'[w].at = "offer" => UnitOf(exam'[w]) = UnitOf(x) /\ exam'[w].slot = x.slot + 1
    BY <2>5, <2>6
  <2>9. exam \in [ExamWorkers -> ExamWorker] /\ exam[w].at = "offer" /\ judge[g].at = "take"
    BY <1>1
  <2>10. VotesGood(op, exam', judge', votes, row, book.pending)
    BY <1>10, <2>1, <2>2, <2>3, <2>4, <2>7, <2>8, <2>9, TakesCall
  <2> QED BY <1>11, <2>10
<1>14. VInv'
  BY <1>2, <1>13 DEF VInv, op2
<1>15. CInv'
  BY <1>2, <1>9 DEF CInv
<1>16. EInv'
  <2>1. main # "returned"
    BY <1>1 DEF IInv, EInv, EndsGood
  <2> QED BY <1>2, <1>9, <2>1 DEF EInv, EndsGood
<1> QED BY <1>14, <1>15, <1>16

\* Judge worker g, with the vote on u in hand, goes on to a.
Moves(jd, jd2, g, u, a) ==
    /\ jd[g].unit = u /\ jd2[g].unit = u /\ jd2[g].at = a
    /\ \A h \in JudgeWorkers \ {g} : jd2[h] = jd[h]

\* One more vote on u.
OneMore(vt, vt2, u) == vt2[u] = vt[u] + 1 /\ \A t \in Units \ {u} : vt2[t] = vt[t]

\* The slots that are offered are those of the jury.
SlotsFit(ex) == \A w \in ExamWorkers : ex[w].at = "offer" => ex[w].slot \in 1 .. Jury

\* A vote lands: one that was to land is one that is to be put away.
LEMMA Lands ==
    ASSUME NEW op \in SUBSET Units, NEW ex, NEW jd, NEW jd2, NEW vt, NEW vt2, NEW rw, NEW pd,
           VotesGood(op, ex, jd, vt, rw, pd), OfUnits(jd), vt \in [Units -> Nat],
           NEW g \in JudgeWorkers, jd[g].at = "call", NEW u,
           Moves(jd, jd2, g, u, IF vt[u] + 1 = Jury THEN "settle" ELSE "drop"),
           OneMore(vt, vt2, u)
    PROVE  VotesGood(op, ex, jd2, vt2, rw, pd) /\ vt2[u] <= Jury
<1> DEFINE R == RunOf[u[1]]
           c == Cardinality(Calls(jd, u))
<1> USE DEF Moves
<1>1. u \in Units /\ u \notin op /\ rw[u] = "none" /\ Jury \in Nat \ {0} /\ vt[u] \in Nat
  BY PipelineAssumption DEF OfUnits, VotesGood, HandsGood, Hands
<1>2. u \in Due(op, rw)
  BY <1>1 DEF Due
<1>3. Calls(jd2, u) = Calls(jd, u) \ {g} /\ g \in Calls(jd, u)
  BY DEF Calls
<1>4. \A t : t # u => Calls(jd2, t) = Calls(jd, t)
  BY DEF Calls
<1>5. IsFiniteSet(Calls(jd, u)) /\ c \in Nat
  BY Finite, Numbers
<1>6. Cardinality(Calls(jd2, u)) = c - 1 /\ c # 0
  <2>1. Cardinality(Calls(jd, u) \ {g})
            = IF g \in Calls(jd, u) THEN c - 1 ELSE c
    BY <1>5, FS_RemoveElement
  <2>2. c # 0
    BY <1>3, <1>5, FS_EmptySet
  <2> QED BY <1>3, <2>1, <2>2
<1> HIDE DEF c
<1>7. c + vt[u] <= Jury
  BY <1>1 DEF VotesGood, CallsFit, c
<1>8. vt[u] < Jury /\ vt[u] + 1 <= Jury /\ vt[u] + 1 \in 1 .. Jury
  BY <1>1, <1>5, <1>6, <1>7
<1>9. vt2[u] = vt[u] + 1 /\ \A t \in Units \ {u} : vt2[t] = vt[t]
  BY DEF OneMore
<1>10. Cardinality(Calls(jd2, u)) + vt2[u] = c + vt[u]
  BY <1>1, <1>5, <1>6, <1>9
<1>11. Fresh(op, vt2, rw)
  BY <1>1, <1>9 DEF VotesGood, Fresh
<1>12. HandsGood(op, jd2, vt2, rw)
  <2>1. \A h \in JudgeWorkers \ {g} : jd[h].at = "settle" => jd[h].unit \in Units \ {u}
    BY <1>1, <1>8 DEF VotesGood, HandsGood, OfUnits
  <2>2. \A h \in JudgeWorkers \ {g} :
           /\ jd2[h].at \in Hands => jd2[h].unit \notin op
           /\ jd2[h].at = "call" => rw[jd2[h].unit] = "none"
           /\ jd2[h].at = "settle" => vt2[jd2[h].unit] = Jury
    BY <1>9, <2>1 DEF VotesGood, HandsGood
  <2>3. /\ jd2[g].at # "call" /\ jd2[g].unit = u
        /\ jd2[g].at = "settle" => vt2[u] = Jury
    BY <1>9
  <2> QED BY <1>1, <2>2, <2>3 DEF HandsGood
<1>13. DueGood(op, jd2, vt2, rw)
  <2> SUFFICES ASSUME NEW t \in Due(op, rw), ~(vt2[t] < Jury)
               PROVE  \E h \in JudgeWorkers : jd2[h].at = "settle" /\ jd2[h].unit = t
    BY DEF DueGood
  <2>1. CASE t = u
    BY <1>1, <1>8, <1>9, <2>1
  <2>2. CASE t # u
    <3>1. ~(vt[t] < Jury)
      BY <1>9, <2>2 DEF Due
    <3>2. PICK h \in JudgeWorkers : jd[h].at = "settle" /\ jd[h].unit = t
      BY <3>1 DEF VotesGood, DueGood
    <3> QED BY <3>2
  <2> QED BY <2>1, <2>2
<1>14. CallsFit(jd2, vt2)
  BY <1>4, <1>7, <1>9, <1>10 DEF VotesGood, CallsFit
<1>15. OffersFit(op, ex, jd2, vt2, rw)
  <2> SUFFICES ASSUME NEW v \in ExamWorkers, ex[v].at = "offer"
               PROVE  /\ UnitOf(ex[v]) \in Due(op, rw)
                      /\ Cardinality(Calls(jd2, UnitOf(ex[v]))) + vt2[UnitOf(ex[v])] < ex[v].slot
    BY DEF OffersFit
  <2>1. /\ UnitOf(ex[v]) \in Due(op, rw)
        /\ Cardinality(Calls(jd, UnitOf(ex[v]))) + vt[UnitOf(ex[v])] < ex[v].slot
    BY DEF VotesGood, OffersFit
  <2>2. UnitOf(ex[v]) \in Units
    BY <2>1 DEF Due
  <2> QED BY <1>4, <1>9, <1>10, <2>1, <2>2 DEF c
<1>16. Counted(op, jd2, vt2, rw, pd)
  <2> DEFINE gone == <<u, vt[u] + 1>>
  <2>1. /\ Unlanded(R, op, vt2, rw) = Unlanded(R, op, vt, rw) \ {gone}
        /\ gone \in Unlanded(R, op, vt, rw)
    <3>1. \A k \in 1 .. Jury : k > vt[u] + 1 <=> k > vt[u] /\ k # vt[u] + 1
      BY <1>1
    <3>2. \A t \in Units \X (1 .. Jury) : t = gone <=> t[1] = u /\ t[2] = vt[u] + 1
      OBVIOUS
    <3>3. gone \in Units \X (1 .. Jury) /\ gone[1] = u /\ gone[2] = vt[u] + 1
      BY <1>1, <1>8
    <3>4. gone \in Unlanded(R, op, vt, rw)
      BY <1>1, <1>2, <3>3 DEF Unlanded
    <3> HIDE DEF gone
    <3>5. \A t \in Units \X (1 .. Jury) :
             t \in Unlanded(R, op, vt2, rw) <=> t \in Unlanded(R, op, vt, rw) /\ t # gone
      <4> SUFFICES ASSUME NEW t \in Units \X (1 .. Jury)
                   PROVE  t \in Unlanded(R, op, vt2, rw)
                              <=> t \in Unlanded(R, op, vt, rw) /\ t # gone
        OBVIOUS
      <4>1. t[1] \in Units /\ t[2] \in 1 .. Jury
        OBVIOUS
      <4>2. CASE t[1] = u
        BY <1>9, <3>1, <3>2, <4>1, <4>2 DEF Unlanded
      <4>3. CASE t[1] # u
        BY <1>9, <3>2, <4>1, <4>3 DEF Unlanded
      <4> QED BY <4>2, <4>3
    <3>6. \A n, v : Unlanded(R, op, v, n) \subseteq Units \X (1 .. Jury)
      BY DEF Unlanded
    <3> QED BY <3>4, <3>5, <3>6
  <2>2. \A r : r # R => Unlanded(r, op, vt2, rw) = Unlanded(r, op, vt, rw)
    BY <1>9 DEF Unlanded, Due
  <2>3. Landed(R, jd2) = Landed(R, jd) \cup {g} /\ g \notin Landed(R, jd)
    BY DEF Landed
  <2>4. \A r : r # R => Landed(r, jd2) = Landed(r, jd)
    BY DEF Landed
  <2>5. /\ IsFiniteSet(Unlanded(R, op, vt, rw)) /\ Cardinality(Unlanded(R, op, vt, rw)) \in Nat
        /\ IsFiniteSet(Landed(R, jd)) /\ Cardinality(Landed(R, jd)) \in Nat
    BY Finite, Numbers
  <2> HIDE DEF gone
  <2>6. Cardinality(Unlanded(R, op, vt2, rw)) = Cardinality(Unlanded(R, op, vt, rw)) - 1
    <3>1. Cardinality(Unlanded(R, op, vt, rw) \ {gone})
              = IF gone \in Unlanded(R, op, vt, rw) THEN Cardinality(Unlanded(R, op, vt, rw)) - 1
                ELSE Cardinality(Unlanded(R, op, vt, rw))
      BY <2>5, FS_RemoveElement
    <3> QED BY <2>1, <3>1
  <2>7. Cardinality(Landed(R, jd2)) = Cardinality(Landed(R, jd)) + 1
    <3>1. Cardinality(Landed(R, jd) \cup {g})
              = IF g \in Landed(R, jd) THEN Cardinality(Landed(R, jd))
                ELSE Cardinality(Landed(R, jd)) + 1
      BY <2>5, FS_AddElement
    <3> QED BY <2>3, <3>1
  <2>8. Cardinality(Unlanded(R, op, vt2, rw)) + Cardinality(Landed(R, jd2))
            = Cardinality(Unlanded(R, op, vt, rw)) + Cardinality(Landed(R, jd))
    BY <2>5, <2>6, <2>7
  <2> QED BY <2>2, <2>4, <2>8 DEF VotesGood, Counted
<1>17. vt2[u] <= Jury
  BY <1>8, <1>9
<1> QED BY <1>11, <1>12, <1>13, <1>14, <1>15, <1>16, <1>17 DEF VotesGood

\* The verdict is in.
LEMMA LandVoteStep ==
    ASSUME IInv, NEW g \in JudgeWorkers, LandVote(g)
    PROVE  CInv' /\ VInv' /\ EInv' /\ votes' \in [Units -> 0 .. Jury]
<1> DEFINE u == judge[g].unit
           op == OpenUnits(next, exam)
<1>1. /\ judge \in [JudgeWorkers -> JudgeWorker] /\ votes \in [Units -> 0 .. Jury]
      /\ judge[g].at = "call" /\ Jury \in Nat \ {0}
  BY PipelineAssumption DEF LandVote, IInv, TypeOK
<1>2. u \in Units /\ OfUnits(judge) /\ votes \in [Units -> Nat] /\ votes[u] \in Nat
  BY <1>1 DEF JudgeWorker, OfUnits
<1>3. /\ UNCHANGED <<main, next, exam, row, book, tally, ctx, status>>
      /\ votes' = [votes EXCEPT ![u] = @ + 1]
      /\ judge' = [judge EXCEPT ![g].at = IF votes[u] + 1 = Jury THEN "settle" ELSE "drop"]
  BY DEF LandVote
<1>4. /\ Moves(judge, judge', g, u, IF votes[u] + 1 = Jury THEN "settle" ELSE "drop")
      /\ OneMore(votes, votes', u)
  BY <1>1, <1>2, <1>3 DEF JudgeWorker, Moves, OneMore
<1>5. VotesGood(op, exam, judge, votes, row, book.pending) /\ op \in SUBSET Units
  BY DEF IInv, VInv, OpenUnits
<1> HIDE DEF op
<1>6. VotesGood(op, exam, judge', votes', row, book.pending) /\ votes'[u] <= Jury
  <2>1. judge[g].at = "call"
    BY <1>1
  <2> HIDE DEF u
  <2> QED BY <1>2, <1>4, <1>5, <2>1, Lands
<1>7. VInv'
  BY <1>3, <1>6 DEF VInv, op
<1>8. CInv'
  BY <1>3 DEF IInv, CInv
<1>9. EInv'
  <2>1. main # "returned"
    BY <1>1 DEF IInv, EInv, EndsGood
  <2> QED BY <1>3, <2>1 DEF IInv, EInv, EndsGood
<1>10. votes' \in [Units -> 0 .. Jury]
  <2>1. votes'[u] \in 0 .. Jury
    BY <1>1, <1>2, <1>3, <1>6
  <2> QED BY <1>1, <1>2, <1>3, <2>1
<1> QED BY <1>7, <1>8, <1>9, <1>10

\* The last vote of u writes its row: nothing that was to land is missed.
LEMMA Settles ==
    ASSUME NEW op \in SUBSET Units, NEW ex, NEW jd, NEW jd2, NEW vt, NEW rw, NEW rw2, NEW pd,
           VotesGood(op, ex, jd, vt, rw, pd), OfUnits(jd), vt \in [Units -> Nat],
           NEW g \in JudgeWorkers, jd[g].at = "settle", NEW u, Moves(jd, jd2, g, u, "drop"),
           SlotsFit(ex), Filled({u}, rw, rw2)
    PROVE  VotesGood(op, ex, jd2, vt, rw2, pd)
<1> USE DEF Moves, Filled
<1>1. u \in Units /\ u \notin op /\ vt[u] = Jury /\ Jury \in Nat \ {0}
  BY PipelineAssumption DEF OfUnits, VotesGood, HandsGood, Hands
<1>2. \A t : Calls(jd2, t) = Calls(jd, t)
  BY DEF Calls
<1>3. \A r : Landed(r, jd2) = Landed(r, jd)
  BY DEF Landed
<1>4. Due(op, rw2) = Due(op, rw) \ {u}
  BY <1>1 DEF Due
<1>5. Calls(jd, u) = {}
  <2>1. Cardinality(Calls(jd, u)) + Jury <= Jury
    BY <1>1 DEF VotesGood, CallsFit
  <2>2. Cardinality(Calls(jd, u)) \in Nat /\ IsFiniteSet(Calls(jd, u))
    BY Finite, Numbers
  <2>3. Cardinality(Calls(jd, u)) = 0
    BY <1>1, <2>1, <2>2
  <2> QED BY <2>2, <2>3, FS_EmptySet
<1>6. \A r : Unlanded(r, op, vt, rw2) = Unlanded(r, op, vt, rw)
  <2>1. \A t \in Units \X (1 .. Jury) : t[2] > vt[t[1]] => t[1] # u
    BY <1>1
  <2> QED BY <1>4, <2>1 DEF Unlanded
<1>7. Fresh(op, vt, rw2)
  BY <1>1 DEF VotesGood, Fresh
<1>8. HandsGood(op, jd2, vt, rw2)
  <2>1. \A h \in JudgeWorkers : jd[h].at = "call" => jd[h].unit \in Units \ {u}
    BY <1>5 DEF OfUnits, Calls
  <2>2. \A h \in JudgeWorkers \ {g} :
           /\ jd2[h].at \in Hands => jd2[h].unit \notin op
           /\ jd2[h].at = "call" => rw2[jd2[h].unit] = "none"
           /\ jd2[h].at = "settle" => vt[jd2[h].unit] = Jury
    BY <2>1 DEF VotesGood, HandsGood
  <2> QED BY <1>1, <2>2 DEF HandsGood
<1>9. DueGood(op, jd2, vt, rw2)
  <2> SUFFICES ASSUME NEW t \in Due(op, rw2), ~(vt[t] < Jury)
               PROVE  \E h \in JudgeWorkers : jd2[h].at = "settle" /\ jd2[h].unit = t
    BY DEF DueGood
  <2>1. PICK h \in JudgeWorkers : jd[h].at = "settle" /\ jd[h].unit = t
    BY <1>4 DEF VotesGood, DueGood
  <2> QED BY <1>4, <2>1
<1>10. CallsFit(jd2, vt)
  BY <1>2 DEF VotesGood, CallsFit
<1>11. OffersFit(op, ex, jd2, vt, rw2)
  <2> SUFFICES ASSUME NEW v \in ExamWorkers, ex[v].at = "offer"
               PROVE  /\ UnitOf(ex[v]) \in Due(op, rw2)
                      /\ Cardinality(Calls(jd2, UnitOf(ex[v]))) + vt[UnitOf(ex[v])] < ex[v].slot
    BY DEF OffersFit
  <2>1. /\ UnitOf(ex[v]) \in Due(op, rw)
        /\ Cardinality(Calls(jd, UnitOf(ex[v]))) + vt[UnitOf(ex[v])] < ex[v].slot
    BY DEF VotesGood, OffersFit
  <2>2. UnitOf(ex[v]) # u
    <3>1. ex[v].slot <= Jury /\ ex[v].slot \in Nat
      BY <1>1 DEF SlotsFit
    <3>2. Cardinality(Calls(jd, u)) \in Nat
      BY Numbers
    <3> QED BY <1>1, <2>1, <3>1, <3>2
  <2> QED BY <1>2, <1>4, <2>1, <2>2
<1>12. Counted(op, jd2, vt, rw2, pd)
  BY <1>3, <1>6 DEF VotesGood, Counted
<1> QED BY <1>7, <1>8, <1>9, <1>10, <1>11, <1>12 DEF VotesGood

\* The last vote of a case is settled.
LEMMA SettleStep ==
    ASSUME IInv, NEW g \in JudgeWorkers, SettleSample(g)
    PROVE  CInv' /\ VInv' /\ EInv'
<1> DEFINE u == judge[g].unit
           op == OpenUnits(next, exam)
<1>1. /\ judge \in [JudgeWorkers -> JudgeWorker] /\ votes \in [Units -> 0 .. Jury]
      /\ judge[g].at = "settle" /\ row \in [Units -> {"none", "stored", "skipped"}]
      /\ exam \in [ExamWorkers -> ExamWorker]
  BY DEF SettleSample, IInv, TypeOK
<1>2. u \in Units /\ OfUnits(judge) /\ votes \in [Units -> Nat]
  BY <1>1, PipelineAssumption DEF JudgeWorker, OfUnits
<1>3. /\ UNCHANGED <<main, next, exam, votes, book, tally, ctx, status>>
      /\ row' = [row EXCEPT ![u] = "stored"] /\ judge' = [judge EXCEPT ![g].at = "drop"]
  BY DEF SettleSample
<1>4. Moves(judge, judge', g, u, "drop") /\ Filled({u}, row, row')
  BY <1>1, <1>2, <1>3 DEF JudgeWorker, Moves, Filled
<1>5. SlotsFit(exam)
  BY <1>1 DEF ExamWorker, SlotsFit
<1>6. VotesGood(op, exam, judge, votes, row, book.pending) /\ op \in SUBSET Units
  BY DEF IInv, VInv, OpenUnits
<1> HIDE DEF op
<1>7. VotesGood(op, exam, judge', votes, row', book.pending)
  <2>1. judge[g].at = "settle"
    BY <1>1
  <2> HIDE DEF u
  <2> QED BY <1>2, <1>4, <1>5, <1>6, <2>1, Settles
<1>8. VInv'
  BY <1>3, <1>7 DEF VInv, op
<1>9. CInv'
  BY <1>3 DEF IInv, CInv
<1>10. EInv'
  <2>1. main # "returned"
    BY <1>1 DEF IInv, EInv, EndsGood
  <2> QED BY <1>3, <2>1 DEF IInv, EInv, EndsGood
<1> QED BY <1>8, <1>9, <1>10

-----------------------------------------------------------------------------
(* The books *)

\* The books b are those of the other runs, and what r was finished for it still has.
BooksOf(b, r) ==
    /\ b.finished = book.finished
    /\ \A s \in Runs \ {r} : /\ s \in b.cellsDone <=> s \in book.cellsDone
                             /\ b.pending[s] = book.pending[s]
    /\ r \in book.finished => r \in b.cellsDone /\ b.pending[r] = 0

\* Booked finishes r exactly when both stages are through with it.
LEMMA BookedEnds ==
    ASSUME IInv, main # "returned", NEW r \in Runs, NEW b, BooksOf(b, r), Booked(b, r),
           b \in [pending : [Runs -> Nat], remaining : [Runs -> 0 .. NCells],
                  cellsDone : SUBSET Runs, finished : SUBSET Runs]
    PROVE  /\ book'.pending = b.pending /\ book'.remaining = b.remaining
           /\ book'.cellsDone = b.cellsDone
           /\ \A s \in Runs : s \in book'.finished <=> s \in b.cellsDone /\ b.pending[s] = 0
           /\ \A s \in Runs : status'[s] = IF s \in book'.finished THEN "done" ELSE "running"
<1> USE DEF BooksOf
<1>1. /\ \A s \in Runs : s \in book.finished <=> s \in book.cellsDone /\ book.pending[s] = 0
      /\ \A s \in Runs : status[s] = IF s \in book.finished THEN "done" ELSE "running"
      /\ status \in [Runs -> {"running", "done", "failed"}]
  BY DEF IInv, EInv, EndsGood, TypeOK
<1>2. \A s \in Runs \ {r} : s \in book.finished <=> s \in b.cellsDone /\ b.pending[s] = 0
  BY <1>1
<1>3. CASE Finished(b, r)
  <2>1. /\ book' = [b EXCEPT !.finished = @ \cup {r}]
        /\ status' = [status EXCEPT ![r] = "done"]
    BY <1>3 DEF Booked
  <2>2. /\ book'.pending = b.pending /\ book'.remaining = b.remaining
        /\ book'.cellsDone = b.cellsDone /\ book'.finished = book.finished \cup {r}
    BY <2>1
  <2>3. r \in b.cellsDone /\ b.pending[r] = 0
    BY <1>3 DEF Finished
  <2>4. \A s \in Runs : status'[s] = IF s = r THEN "done" ELSE status[s]
    BY <1>1, <2>1
  <2> QED BY <1>1, <1>2, <2>2, <2>3, <2>4
<1>4. CASE ~Finished(b, r)
  <2>1. book' = b /\ status' = status
    BY <1>4 DEF Booked
  <2>2. r \in book.finished <=> r \in b.cellsDone /\ b.pending[r] = 0
    BY <1>4 DEF Finished
  <2> QED BY <1>1, <1>2, <2>1, <2>2
<1> QED BY <1>3, <1>4

\* The worker that puts its vote away looks whether the run is over.
LEMMA DropStep ==
    ASSUME IInv, NEW g \in JudgeWorkers, DecrementPending(g)
    PROVE  CInv' /\ VInv' /\ EInv' /\ book'.pending \in [Runs -> Nat]
           /\ book'.remaining = book.remaining
<1> DEFINE r == RunOf[judge[g].unit[1]]
           b == [book EXCEPT !.pending[r] = @ - 1]
           op == OpenUnits(next, exam)
           P == book.pending[r]
<1>1. /\ judge \in [JudgeWorkers -> JudgeWorker] /\ judge[g].at = "drop"
      /\ book \in [pending : [Runs -> Nat], remaining : [Runs -> 0 .. NCells],
                   cellsDone : SUBSET Runs, finished : SUBSET Runs]
  BY DEF DecrementPending, IInv, TypeOK
<1>2. judge[g].unit \in Units /\ r \in Runs
  BY <1>1, UnitFacts, PipelineAssumption DEF JudgeWorker
<1>3. /\ UNCHANGED <<main, next, exam, votes, row, tally, ctx>>
      /\ Booked(b, r) /\ judge' = [judge EXCEPT ![g] = Waiting]
  BY DEF DecrementPending
<1>4. VotesGood(op, exam, judge, votes, row, book.pending)
  BY DEF IInv, VInv
<1>5. /\ judge'[g].at = "check" /\ \A h \in JudgeWorkers \ {g} : judge'[h] = judge[h]
  BY <1>1, <1>3 DEF Waiting
<1>6. Landed(r, judge') = Landed(r, judge) \ {g} /\ g \in Landed(r, judge)
  BY <1>1, <1>5 DEF Landed
<1>7. \A s : s # r => Landed(s, judge') = Landed(s, judge)
  BY <1>1, <1>5 DEF Landed
<1>8. \A u : Calls(judge', u) = Calls(judge, u)
  BY <1>1, <1>5 DEF Calls
<1> HIDE DEF op, r
<1>9. /\ IsFiniteSet(Landed(r, judge)) /\ Cardinality(Landed(r, judge)) \in Nat
      /\ Cardinality(Unlanded(r, op, votes, row)) \in Nat /\ Cardinality(Landed(r, judge')) \in Nat
  BY Finite, Numbers
<1>10. Cardinality(Landed(r, judge')) = Cardinality(Landed(r, judge)) - 1
  <2>1. Cardinality(Landed(r, judge) \ {g})
            = IF g \in Landed(r, judge) THEN Cardinality(Landed(r, judge)) - 1
              ELSE Cardinality(Landed(r, judge))
    BY <1>9, FS_RemoveElement
  <2> QED BY <1>6, <2>1
<1>11. P = Cardinality(Unlanded(r, op, votes, row)) + Cardinality(Landed(r, judge))
  BY <1>2, <1>4 DEF VotesGood, Counted
<1>12. /\ P - 1 \in Nat /\ P # 0
       /\ P - 1 = Cardinality(Unlanded(r, op, votes, row)) + Cardinality(Landed(r, judge'))
  BY <1>9, <1>10, <1>11
<1>13. /\ b \in [pending : [Runs -> Nat], remaining : [Runs -> 0 .. NCells],
                 cellsDone : SUBSET Runs, finished : SUBSET Runs]
       /\ b.pending[r] = P - 1 /\ \A s \in Runs \ {r} : b.pending[s] = book.pending[s]
       /\ b.remaining = book.remaining /\ b.cellsDone = book.cellsDone
       /\ b.finished = book.finished
  <2> DEFINE Z(k) == [book EXCEPT !.pending[r] = k]
  <2>1. \A k \in Nat :
           /\ Z(k) \in [pending : [Runs -> Nat], remaining : [Runs -> 0 .. NCells],
                        cellsDone : SUBSET Runs, finished : SUBSET Runs]
           /\ Z(k).pending[r] = k /\ \A s \in Runs \ {r} : Z(k).pending[s] = book.pending[s]
           /\ Z(k).remaining = book.remaining /\ Z(k).cellsDone = book.cellsDone
           /\ Z(k).finished = book.finished
    BY <1>1, <1>2
  <2>2. b = Z(P - 1)
    OBVIOUS
  <2> HIDE DEF Z, b, P
  <2> QED BY <1>12, <2>1, <2>2
<1> HIDE DEF b
<1>14. main # "returned" /\ r \notin book.finished
  <2>1. r \in book.finished => P = 0
    BY <1>2 DEF IInv, EInv, EndsGood
  <2> QED BY <1>1, <1>12, <2>1 DEF IInv, EInv, EndsGood
<1>15. BooksOf(b, r)
  BY <1>13, <1>14 DEF BooksOf
<1>16. /\ book'.pending = b.pending /\ book'.remaining = b.remaining
       /\ book'.cellsDone = b.cellsDone
       /\ \A s \in Runs : s \in book'.finished <=> s \in b.cellsDone /\ b.pending[s] = 0
       /\ \A s \in Runs : status'[s] = IF s \in book'.finished THEN "done" ELSE "running"
  BY <1>2, <1>3, <1>13, <1>14, <1>15, BookedEnds
<1>17. CInv'
  BY <1>3, <1>13, <1>16 DEF IInv, CInv
<1>18. EInv'
  <2>1. \A s \in Runs : s \in book'.finished <=> s \in book'.cellsDone /\ book'.pending[s] = 0
    BY <1>16
  <2>2. main' # "returned" /\ main' = main /\ next' = next /\ exam' = exam
    BY <1>3, <1>14
  <2> QED BY <1>16, <2>1, <2>2 DEF IInv, EInv, EndsGood
<1>19. VInv'
  <2>1. Counted(op, judge', votes, row, book'.pending)
    <3> SUFFICES ASSUME NEW s \in Runs
                 PROVE  book'.pending[s] = Cardinality(Unlanded(s, op, votes, row))
                                           + Cardinality(Landed(s, judge'))
      BY DEF Counted
    <3>1. CASE s = r
      BY <1>12, <1>13, <1>16, <3>1
    <3>2. CASE s # r
      BY <1>4, <1>7, <1>13, <1>16, <3>2 DEF VotesGood, Counted
    <3> QED BY <3>1, <3>2
  <2>2. HandsGood(op, judge', votes, row)
    BY <1>4, <1>5 DEF VotesGood, HandsGood, Hands
  <2>3. DueGood(op, judge', votes, row)
    <3> SUFFICES ASSUME NEW t \in Due(op, row), ~(votes[t] < Jury)
                 PROVE  \E h \in JudgeWorkers : judge'[h].at = "settle" /\ judge'[h].unit = t
      BY DEF DueGood
    <3>1. PICK h \in JudgeWorkers : judge[h].at = "settle" /\ judge[h].unit = t
      BY <1>4 DEF VotesGood, DueGood
    <3> QED BY <1>1, <1>5, <3>1
  <2>4. CallsFit(judge', votes) /\ OffersFit(op, exam, judge', votes, row)
    BY <1>4, <1>8 DEF VotesGood, CallsFit, OffersFit
  <2>5. Fresh(op, votes, row)
    BY <1>4 DEF VotesGood
  <2> QED BY <1>3, <2>1, <2>2, <2>3, <2>4, <2>5 DEF VInv, VotesGood, op
<1>20. book'.pending \in [Runs -> Nat] /\ book'.remaining = book.remaining
  BY <1>13, <1>16
<1> QED BY <1>17, <1>18, <1>19, <1>20

\* The worker that was through with the last cell says so.
LEMMA MarkStep ==
    ASSUME IInv, NEW w \in ExamWorkers, MarkCellsDone(w)
    PROVE  CInv' /\ VInv' /\ EInv' /\ book'.pending = book.pending
           /\ book'.remaining = book.remaining
<1> DEFINE r == RunOf[exam[w].cell]
           b == [book EXCEPT !.cellsDone = @ \cup {r}]
<1>1. /\ exam \in [ExamWorkers -> ExamWorker] /\ exam[w].at = "mark"
      /\ book \in [pending : [Runs -> Nat], remaining : [Runs -> 0 .. NCells],
                   cellsDone : SUBSET Runs, finished : SUBSET Runs]
  BY DEF MarkCellsDone, IInv, TypeOK
<1>2. exam[w].cell \in Cells /\ r \in Runs
  BY <1>1, PipelineAssumption DEF ExamWorker
<1>3. /\ UNCHANGED <<main, next, judge, votes, row, tally, ctx>>
      /\ Booked(b, r) /\ exam' = [exam EXCEPT ![w] = Idle]
  BY DEF MarkCellsDone
<1>4. /\ b \in [pending : [Runs -> Nat], remaining : [Runs -> 0 .. NCells],
                cellsDone : SUBSET Runs, finished : SUBSET Runs]
      /\ b.pending = book.pending /\ b.remaining = book.remaining
      /\ b.cellsDone = book.cellsDone \cup {r} /\ b.finished = book.finished
  BY <1>1, <1>2
<1>5. exam'[w] = Idle /\ \A v \in ExamWorkers \ {w} : exam'[v] = exam[v]
  BY <1>1, <1>3
<1>6. Idle.at = "check" /\ ~Busy(Idle) /\ ~Busy(exam[w])
  BY <1>1 DEF Idle, Busy
<1> HIDE DEF b, r
<1>7. main # "returned"
  BY <1>1 DEF IInv, EInv, EndsGood
<1>8. BooksOf(b, r)
  BY <1>2, <1>4 DEF BooksOf, IInv, EInv, EndsGood
<1>9. /\ book'.pending = b.pending /\ book'.remaining = b.remaining
      /\ book'.cellsDone = b.cellsDone
      /\ \A s \in Runs : s \in book'.finished <=> s \in b.cellsDone /\ b.pending[s] = 0
      /\ \A s \in Runs : status'[s] = IF s \in book'.finished THEN "done" ELSE "running"
  BY <1>2, <1>3, <1>4, <1>7, <1>8, BookedEnds
<1>10. book.remaining[r] = 0
  BY <1>1 DEF IInv, CInv, CellsGood, r
<1>11. OpenCells(next, exam') = OpenCells(next, exam)
  BY <1>5, <1>6 DEF OpenCells
<1>12. \A s : OpenOf(s, next, exam') = OpenOf(s, next, exam)
  BY <1>11 DEF OpenOf
<1>13. OpenUnits(next, exam') = OpenUnits(next, exam)
  <2>1. \A x, u : Ahead(x, u) => Busy(x)
    BY DEF Ahead, Busy
  <2> QED BY <1>5, <1>6, <2>1 DEF OpenUnits
<1>14. CInv'
  <2>1. \A v \in ExamWorkers :
           /\ Busy(exam'[v]) => exam'[v].cell < next
           /\ exam'[v].at \in {"case", "offer"} => exam'[v].case <= NCases[exam'[v].cell]
           /\ exam'[v].at = "case" => exam'[v].slot = 1
           /\ exam'[v].at = "mark" => book.remaining[RunOf[exam'[v].cell]] = 0
    BY <1>5, <1>6 DEF IInv, CInv, CellsGood
  <2>2. \A v, z \in ExamWorkers :
           Busy(exam'[v]) /\ Busy(exam'[z]) /\ exam'[v].cell = exam'[z].cell => v = z
    BY <1>5, <1>6 DEF IInv, CInv, CellsGood
  <2>3. \A s \in Runs :
           /\ book.remaining[s] = Cardinality(OpenOf(s, next, exam'))
           /\ s \in b.cellsDone => book.remaining[s] = 0
    BY <1>4, <1>10, <1>12 DEF IInv, CInv, CellsGood
  <2>4. ASSUME NEW s \in Runs, book.remaining[s] = 0, s \notin b.cellsDone
        PROVE  \E v \in ExamWorkers : exam'[v].at = "mark" /\ RunOf[exam'[v].cell] = s
    <3>1. PICK v \in ExamWorkers : exam[v].at = "mark" /\ RunOf[exam[v].cell] = s
      BY <1>4, <2>4 DEF IInv, CInv, CellsGood
    <3>2. v # w
      BY <1>4, <2>4, <3>1 DEF r
    <3> QED BY <1>5, <3>1, <3>2
  <2>5. /\ tally.completed + Cardinality(OpenCells(next, exam')) = NCells
        /\ tally.dead <= tally.completed
    BY <1>11 DEF IInv, CInv, CellsGood
  <2> HIDE DEF Busy
  <2>6. CellsGood(next, exam', book.remaining, b.cellsDone, tally)
    BY <2>1, <2>2, <2>3, <2>4, <2>5 DEF CellsGood
  <2> QED BY <1>3, <1>4, <1>9, <2>6 DEF CInv
<1>15. VInv'
  <2>1. NoOffer(exam, exam')
    BY <1>5, <1>6 DEF NoOffer
  <2>2. SameHands(judge, judge)
    BY DEF SameHands
  <2>3. VotesGood(OpenUnits(next, exam), exam', judge, votes, row, book.pending)
    BY <2>1, <2>2, SameVotes DEF IInv, VInv
  <2> QED BY <1>3, <1>4, <1>9, <1>13, <2>3 DEF VInv
<1>16. EInv'
  <2>1. \A s \in Runs : s \in book'.finished <=> s \in book'.cellsDone /\ book'.pending[s] = 0
    BY <1>9
  <2>2. main' \notin {"drain", "returned"} /\ main' = main /\ next' = next
    BY <1>1, <1>3 DEF IInv, EInv, EndsGood
  <2> QED BY <1>9, <2>1, <2>2 DEF IInv, EInv, EndsGood
<1> QED BY <1>4, <1>9, <1>14, <1>15, <1>16

-----------------------------------------------------------------------------
(* Cells *)

\* A cell is over: its run has one less, and the worker of the last marks it.
LEMMA AccountStep ==
    ASSUME IInv, NEW w \in ExamWorkers, Account(w)
    PROVE  CInv' /\ VInv' /\ EInv' /\ book'.remaining \in [Runs -> 0 .. NCells]
           /\ book'.pending = book.pending /\ tally.completed + 1 <= NCells
<1> DEFINE x == exam[w]
           c == x.cell
           r == RunOf[c]
           y == IF book.remaining[r] = 1 THEN [x EXCEPT !.at = "mark"] ELSE Idle
           N(s) == Cardinality(OpenOf(s, next, exam))
           M == Cardinality(OpenCells(next, exam))
<1>1. /\ exam \in [ExamWorkers -> ExamWorker] /\ x.at = "done" /\ x \in ExamWorker /\ Busy(x)
      /\ book \in [pending : [Runs -> Nat], remaining : [Runs -> 0 .. NCells],
                   cellsDone : SUBSET Runs, finished : SUBSET Runs]
      /\ tally \in [completed : 0 .. NCells, dead : 0 .. NCells] /\ next \in 1 .. NCells + 1
  BY DEF Account, IInv, TypeOK, Busy
<1>2. c \in Cells /\ r \in Runs /\ NCells \in Nat
  BY <1>1, PipelineAssumption DEF ExamWorker
<1>3. /\ UNCHANGED <<main, next, judge, votes, row, status>>
      /\ exam' = [exam EXCEPT ![w] = y]
      /\ book' = [book EXCEPT !.remaining[r] = @ - 1]
      /\ tally'.completed = tally.completed + 1
      /\ tally'.dead = tally.dead + IF x.answered THEN 0 ELSE 1
  BY DEF Account
<1>4. exam'[w] = y /\ \A v \in ExamWorkers \ {w} : exam'[v] = exam[v]
  BY <1>1, <1>3
<1>5. /\ y.at = IF book.remaining[r] = 1 THEN "mark" ELSE "check"
      /\ y.at = "mark" => y.cell = c
      /\ ~Busy(y)
  BY <1>1 DEF Idle, Busy, ExamWorker
<1> HIDE DEF y
<1>6. \A v \in ExamWorkers \ {w} : Busy(exam[v]) => exam[v].cell # c
  BY <1>1 DEF IInv, CInv, CellsGood
<1>7. c < next
  BY <1>1 DEF IInv, CInv, CellsGood
<1>8. OpenCells(next, exam') = OpenCells(next, exam) \ {c} /\ c \in OpenCells(next, exam)
  <2>1. c \in Int /\ next \in Int /\ ~(c >= next)
    BY <1>1, <1>2, <1>7 DEF Cells
  <2>2. \A d \in Cells : (\E v \in ExamWorkers : Busy(exam'[v]) /\ exam'[v].cell = d)
                            <=> (\E v \in ExamWorkers : Busy(exam[v]) /\ exam[v].cell = d) /\ d # c
    BY <1>1, <1>4, <1>5, <1>6
  <2> HIDE DEF x, c
  <2>3. c \in OpenCells(next, exam)
    BY <1>1, <1>2 DEF OpenCells, x, c
  <2> QED BY <2>1, <2>2, <2>3 DEF OpenCells
<1>9. /\ OpenOf(r, next, exam') = OpenOf(r, next, exam) \ {c} /\ c \in OpenOf(r, next, exam)
      /\ \A s : s # r => OpenOf(s, next, exam') = OpenOf(s, next, exam)
  BY <1>8 DEF OpenOf
<1>10. /\ IsFiniteSet(OpenOf(r, next, exam)) /\ IsFiniteSet(OpenCells(next, exam))
       /\ M \in Nat /\ \A s : N(s) \in Nat
  BY Finite, Numbers
<1>11. Cardinality(OpenOf(r, next, exam')) = N(r) - 1 /\ N(r) # 0
  <2>1. Cardinality(OpenOf(r, next, exam) \ {c})
            = IF c \in OpenOf(r, next, exam) THEN N(r) - 1 ELSE N(r)
    BY <1>10, FS_RemoveElement
  <2>2. N(r) # 0
    BY <1>9, <1>10, FS_EmptySet
  <2> QED BY <1>9, <2>1, <2>2
<1>12. Cardinality(OpenCells(next, exam')) = M - 1 /\ M # 0
  <2>1. Cardinality(OpenCells(next, exam) \ {c})
            = IF c \in OpenCells(next, exam) THEN M - 1 ELSE M
    BY <1>10, FS_RemoveElement
  <2>2. M # 0
    BY <1>8, <1>10, FS_EmptySet
  <2> QED BY <1>8, <2>1, <2>2
<1>13. \A s \in Runs : book.remaining[s] = N(s)
  BY DEF IInv, CInv, CellsGood
<1>14. tally.completed + M = NCells /\ tally.dead <= tally.completed
  BY DEF IInv, CInv, CellsGood
<1> HIDE DEF N, M, c, r
<1>15. book.remaining[r] \in 0 .. NCells /\ book.remaining[r] - 1 \in 0 .. NCells
  <2>1. book.remaining[r] \in 0 .. NCells /\ book.remaining[r] # 0
    BY <1>1, <1>2, <1>11, <1>13
  <2> QED BY <1>2, <2>1
<1>16. /\ book'.remaining = [book.remaining EXCEPT ![r] = @ - 1]
       /\ book'.pending = book.pending /\ book'.cellsDone = book.cellsDone
       /\ book'.finished = book.finished
  BY <1>1, <1>3
<1>17. /\ book'.remaining[r] = book.remaining[r] - 1
       /\ \A s \in Runs \ {r} : book'.remaining[s] = book.remaining[s]
       /\ book'.remaining \in [Runs -> 0 .. NCells]
  BY <1>1, <1>2, <1>15, <1>16
<1>18. /\ r \notin book.cellsDone
       /\ \A v \in ExamWorkers : exam[v].at = "mark" => RunOf[exam[v].cell] # r
  BY <1>2, <1>11, <1>13 DEF IInv, CInv, CellsGood
<1>19. CInv'
  <2>1. \A v \in ExamWorkers :
           /\ Busy(exam'[v]) => exam'[v].cell < next
           /\ exam'[v].at \in {"case", "offer"} => exam'[v].case <= NCases[exam'[v].cell]
           /\ exam'[v].at = "case" => exam'[v].slot = 1
    BY <1>4, <1>5 DEF IInv, CInv, CellsGood, Busy
  <2>2. \A v \in ExamWorkers : exam'[v].at = "mark" => book'.remaining[RunOf[exam'[v].cell]] = 0
    <3> SUFFICES ASSUME NEW v \in ExamWorkers, exam'[v].at = "mark"
                 PROVE  book'.remaining[RunOf[exam'[v].cell]] = 0
      OBVIOUS
    <3>1. CASE v = w
      <4>1. book.remaining[r] = 1 /\ y.cell = c
        BY <1>4, <1>5, <3>1
      <4> QED BY <1>4, <1>17, <3>1, <4>1 DEF r
    <3>2. CASE v # w
      <4>1. exam'[v] = exam[v] /\ RunOf[exam[v].cell] # r
        BY <1>4, <1>18, <3>2
      <4>2. exam[v].cell \in Cells /\ RunOf[exam[v].cell] \in Runs
        BY <1>1, PipelineAssumption DEF ExamWorker
      <4>3. book.remaining[RunOf[exam[v].cell]] = 0
        BY <4>1 DEF IInv, CInv, CellsGood
      <4> QED BY <1>17, <4>1, <4>2, <4>3
    <3> QED BY <3>1, <3>2
  <2>3. \A v, z \in ExamWorkers :
           Busy(exam'[v]) /\ Busy(exam'[z]) /\ exam'[v].cell = exam'[z].cell => v = z
    BY <1>4, <1>5 DEF IInv, CInv, CellsGood
  <2>4. ASSUME NEW s \in Runs
        PROVE  /\ book'.remaining[s] = Cardinality(OpenOf(s, next, exam'))
               /\ s \in book.cellsDone => book'.remaining[s] = 0
               /\ book'.remaining[s] = 0 =>
                    \/ s \in book.cellsDone
                    \/ \E v \in ExamWorkers : exam'[v].at = "mark" /\ RunOf[exam'[v].cell] = s
    <3>1. CASE s = r
      <4>1. book'.remaining[s] = Cardinality(OpenOf(s, next, exam')) /\ s \notin book.cellsDone
        BY <1>2, <1>11, <1>13, <1>17, <1>18, <3>1
      <4>2. book'.remaining[s] = 0 => exam'[w].at = "mark" /\ RunOf[exam'[w].cell] = s
        <5>1. book'.remaining[s] = 0 => book.remaining[r] = 1
          BY <1>15, <1>17, <3>1
        <5> QED BY <1>4, <1>5, <3>1, <5>1 DEF r
      <4> QED BY <4>1, <4>2
    <3>2. CASE s # r
      <4>1. book'.remaining[s] = book.remaining[s] /\ OpenOf(s, next, exam') = OpenOf(s, next, exam)
        BY <1>9, <1>17, <3>2
      <4>2. /\ book.remaining[s] = Cardinality(OpenOf(s, next, exam))
            /\ s \in book.cellsDone => book.remaining[s] = 0
            /\ book.remaining[s] = 0 =>
                 \/ s \in book.cellsDone
                 \/ \E v \in ExamWorkers : exam[v].at = "mark" /\ RunOf[exam[v].cell] = s
        BY DEF IInv, CInv, CellsGood
      <4>3. \A v \in ExamWorkers : exam[v].at = "mark" => exam'[v] = exam[v]
        BY <1>1, <1>4
      <4> QED BY <4>1, <4>2, <4>3
    <3> QED BY <3>1, <3>2
  <2>5. tally'.completed + Cardinality(OpenCells(next, exam')) = NCells
    BY <1>1, <1>2, <1>3, <1>10, <1>12, <1>14
  <2>6. tally'.dead <= tally'.completed
    <3>1. tally.dead \in Nat /\ tally.completed \in Nat
      BY <1>1, <1>2
    <3>2. CASE x.answered
      BY <1>3, <1>14, <3>1, <3>2
    <3>3. CASE ~x.answered
      BY <1>3, <1>14, <3>1, <3>3
    <3> QED BY <3>2, <3>3
  <2> HIDE DEF Busy
  <2>7. CellsGood(next, exam', book'.remaining, book.cellsDone, tally')
    BY <2>1, <2>2, <2>3, <2>4, <2>5, <2>6 DEF CellsGood
  <2> QED BY <1>3, <1>16, <2>7 DEF CInv
<1>20. OpenUnits(next, exam') = OpenUnits(next, exam)
  <2>1. \A u : ~Ahead(exam[w], u) /\ ~Ahead(exam'[w], u)
    BY <1>1, <1>4, <1>5 DEF Ahead
  <2> QED BY <1>4, <2>1 DEF OpenUnits
<1>21. VInv'
  <2>1. NoOffer(exam, exam')
    BY <1>4, <1>5 DEF NoOffer
  <2>2. SameHands(judge, judge)
    BY DEF SameHands
  <2>3. VotesGood(OpenUnits(next, exam), exam', judge, votes, row, book.pending)
    BY <2>1, <2>2, SameVotes DEF IInv, VInv
  <2> QED BY <1>3, <1>16, <1>20, <2>3 DEF VInv
<1>22. EInv'
  <2>1. main \notin {"drain", "returned"}
    BY <1>1 DEF IInv, EInv, EndsGood
  <2> QED BY <1>3, <1>16, <2>1 DEF IInv, EInv, EndsGood
<1>23. tally.completed + 1 <= NCells
  BY <1>1, <1>2, <1>10, <1>12, <1>14
<1> QED BY <1>16, <1>17, <1>19, <1>21, <1>22, <1>23

\* A worker takes the next cell: it was open, and it stays open.
LEMMA FeedStep ==
    ASSUME IInv, NEW w \in ExamWorkers, Feed(w)
    PROVE  CInv' /\ VInv' /\ EInv' /\ next \in Cells
<1> DEFINE y == [Idle EXCEPT !.at = "case", !.cell = next]
<1>1. /\ exam \in [ExamWorkers -> ExamWorker] /\ exam[w].at = "take" /\ main = "offer"
      /\ next \in 1 .. NCells + 1 /\ next <= NCells /\ NCells \in Nat
  BY PipelineAssumption DEF Feed, IInv, TypeOK, EInv, EndsGood
<1>2. next \in Cells /\ NCases[next] \in Nat \ {0}
  BY <1>1, PipelineAssumption DEF Cells
<1>3. /\ UNCHANGED <<judge, votes, row, book, tally, ctx, status>>
      /\ exam' = [exam EXCEPT ![w] = y] /\ next' = next + 1 /\ main' = "check"
  BY DEF Feed
<1>4. y.at = "case" /\ y.cell = next /\ y.case = 1 /\ y.slot = 1 /\ Busy(y)
  BY DEF Idle, Busy
<1> HIDE DEF y
<1>5. exam'[w] = y /\ \A v \in ExamWorkers \ {w} : exam'[v] = exam[v]
  BY <1>1, <1>3
<1>6. ~Busy(exam[w])
  BY <1>1 DEF Busy
<1>7. \A v \in ExamWorkers : Busy(exam[v]) => exam[v].cell < next
  BY DEF IInv, CInv, CellsGood
<1>8. \A d \in Cells : d >= next <=> d >= next + 1 \/ d = next
  BY <1>1 DEF Cells
<1>9. OpenCells(next', exam') = OpenCells(next, exam)
  <2>1. \A d \in Cells : (\E v \in ExamWorkers : Busy(exam'[v]) /\ exam'[v].cell = d)
                            <=> \/ \E v \in ExamWorkers : Busy(exam[v]) /\ exam[v].cell = d
                                \/ d = next
    BY <1>4, <1>5, <1>6
  <2> QED BY <1>3, <1>8, <2>1 DEF OpenCells
<1>10. \A s : OpenOf(s, next', exam') = OpenOf(s, next, exam)
  BY <1>9 DEF OpenOf
<1>11. OpenUnits(next', exam') = OpenUnits(next, exam)
  <2>1. \A u \in Units : u[1] \in Cells /\ u[2] \in 1 .. NCases[u[1]] /\ NCases[u[1]] \in Nat
    BY UnitFacts, PipelineAssumption
  <2>2. \A u \in Units : Ahead(y, u) <=> u[1] = next
    <3>1. \A u \in Units : u[2] >= 1
      BY <2>1
    <3> QED BY <1>4, <3>1 DEF Ahead
  <2>3. \A u : ~Ahead(exam[w], u)
    BY <1>1 DEF Ahead
  <2>4. \A u \in Units : (\E v \in ExamWorkers : Ahead(exam'[v], u))
                            <=> (\E v \in ExamWorkers : Ahead(exam[v], u)) \/ u[1] = next
    BY <1>5, <2>2, <2>3
  <2> QED BY <1>3, <1>8, <2>1, <2>4 DEF OpenUnits
<1>12. CInv'
  <2>1. \A v \in ExamWorkers : Busy(exam'[v]) => exam'[v].cell < next + 1
    <3> SUFFICES ASSUME NEW v \in ExamWorkers, Busy(exam'[v]) PROVE exam'[v].cell < next + 1
      OBVIOUS
    <3>1. CASE v = w
      BY <1>1, <1>4, <1>5, <3>1
    <3>2. CASE v # w
      <4>1. exam'[v].cell < next /\ exam'[v].cell \in Int
        BY <1>1, <1>5, <1>7, <3>2 DEF ExamWorker, Cells
      <4> QED BY <1>1, <4>1
    <3> QED BY <3>1, <3>2
  <2>2. \A v \in ExamWorkers :
           /\ exam'[v].at \in {"case", "offer"} => exam'[v].case <= NCases[exam'[v].cell]
           /\ exam'[v].at = "case" => exam'[v].slot = 1
           /\ exam'[v].at = "mark" => book.remaining[RunOf[exam'[v].cell]] = 0
    <3>1. 1 <= NCases[next]
      BY <1>2
    <3> QED BY <1>4, <1>5, <3>1 DEF IInv, CInv, CellsGood
  <2>3. \A v, z \in ExamWorkers :
           Busy(exam'[v]) /\ Busy(exam'[z]) /\ exam'[v].cell = exam'[z].cell => v = z
    <3>1. \A v \in ExamWorkers \ {w} : Busy(exam[v]) => exam[v].cell # next
      <4>1. ~(next < next)
        BY <1>1
      <4> QED BY <1>7, <4>1
    <3> QED BY <1>4, <1>5, <3>1 DEF IInv, CInv, CellsGood
  <2>4. ASSUME NEW s \in Runs
        PROVE  /\ book.remaining[s] = Cardinality(OpenOf(s, next', exam'))
               /\ s \in book.cellsDone => book.remaining[s] = 0
               /\ book.remaining[s] = 0 =>
                    \/ s \in book.cellsDone
                    \/ \E v \in ExamWorkers : exam'[v].at = "mark" /\ RunOf[exam'[v].cell] = s
    <3>1. \A v \in ExamWorkers : exam[v].at = "mark" => exam'[v] = exam[v]
      BY <1>1, <1>5
    <3> QED BY <1>10, <3>1 DEF IInv, CInv, CellsGood
  <2>5. /\ tally.completed + Cardinality(OpenCells(next', exam')) = NCells
        /\ tally.dead <= tally.completed
    BY <1>9 DEF IInv, CInv, CellsGood
  <2> HIDE DEF Busy
  <2>6. \A v \in ExamWorkers : Busy(exam'[v]) => exam'[v].cell < next'
    BY <1>3, <2>1
  <2>7. CellsGood(next', exam', book.remaining, book.cellsDone, tally)
    BY <2>6, <2>2, <2>3, <2>4, <2>5 DEF CellsGood
  <2> QED BY <1>3, <2>7 DEF CInv
<1>13. VInv'
  <2>1. NoOffer(exam, exam')
    BY <1>4, <1>5 DEF NoOffer
  <2>2. SameHands(judge, judge)
    BY DEF SameHands
  <2>3. VotesGood(OpenUnits(next, exam), exam', judge, votes, row, book.pending)
    BY <2>1, <2>2, SameVotes DEF IInv, VInv
  <2> QED BY <1>3, <1>11, <2>3 DEF VInv
<1>14. EInv'
  BY <1>1, <1>3 DEF IInv, EInv, EndsGood
<1> QED BY <1>2, <1>12, <1>13, <1>14

-----------------------------------------------------------------------------
(* The other steps *)

\* A step that moves neither a cell nor a vote.
LEMMA QuietStep ==
    ASSUME IInv, SameWork(exam, exam'), SameHands(judge, judge'),
           UNCHANGED <<next, votes, row, book, tally, status>>
    PROVE  CInv' /\ VInv'
<1>1. /\ CellsGood(next, exam', book.remaining, book.cellsDone, tally)
      /\ OpenUnits(next, exam') = OpenUnits(next, exam)
  BY SameCells DEF IInv, CInv
<1>2. NoOffer(exam, exam')
  BY DEF SameWork, NoOffer
<1>3. VotesGood(OpenUnits(next, exam), exam', judge', votes, row, book.pending)
  BY <1>2, SameVotes DEF IInv, VInv
<1> QED BY <1>1, <1>3 DEF CInv, VInv

\* The feed loop and the end of the batch.
LEMMA MainSteps ==
    ASSUME IInv, FeedCheck \/ FeedStops \/ CloseJudgeQueue \/ Tail \/ Cancel \/ Deadline
    PROVE  IInv'
<1>1. /\ main' \in {"check", "offer", "wait", "drain", "returned"}
      /\ ctx' \in [canceled : BOOLEAN, expired : BOOLEAN]
      /\ status' \in [Runs -> {"running", "done", "failed"}]
      /\ UNCHANGED <<next, exam, judge, votes, row, book, tally>>
  <2>1. /\ main \in {"check", "offer", "wait", "drain", "returned"}
        /\ ctx \in [canceled : BOOLEAN, expired : BOOLEAN]
        /\ status \in [Runs -> {"running", "done", "failed"}]
    BY DEF IInv, TypeOK
  <2>2. CASE FeedCheck
    <3>1. ctx' = ctx \/ ctx' = [ctx EXCEPT !.canceled = @ \/ Expired]
      BY <2>2 DEF FeedCheck, Guard
    <3>2. Expired \in BOOLEAN
      BY <2>1 DEF Expired
    <3>3. ctx' \in [canceled : BOOLEAN, expired : BOOLEAN]
      BY <2>1, <3>1, <3>2, Zenon
    <3> QED BY <2>1, <2>2, <3>3 DEF FeedCheck
  <2>3. CASE FeedStops
    BY <2>1, <2>3 DEF FeedStops
  <2>4. CASE CloseJudgeQueue
    BY <2>1, <2>4 DEF CloseJudgeQueue
  <2>5. CASE Tail
    BY <2>1, <2>5 DEF Tail
  <2>6. CASE Cancel
    BY <2>1, <2>6 DEF Cancel
  <2>7. CASE Deadline
    BY <2>1, <2>7 DEF Deadline
  <2> QED BY <2>2, <2>3, <2>4, <2>5, <2>6, <2>7
<1>2. TypeOK'
  BY <1>1 DEF IInv, TypeOK
<1>3. CInv' /\ VInv'
  BY <1>1 DEF IInv, CInv, VInv
<1>4. EInv'
  <2> DEFINE Fin == \A r \in Runs :
                        r \in book.finished <=> r \in book.cellsDone /\ book.pending[r] = 0
  <2>1. Fin
    BY DEF IInv, EInv, EndsGood
  <2> HIDE DEF Fin
  <2>2. CASE Tail
    <3>1. /\ main = "drain" /\ main' = "returned" /\ Gone(judge)
          /\ status' = [r \in Runs |-> IF r \in book.finished THEN status[r] ELSE "failed"]
      BY <2>2 DEF Tail
    <3>2. /\ \A w \in ExamWorkers : exam'[w].at = "gone"
          /\ \A g \in JudgeWorkers : judge'[g].at = "gone"
      BY <1>1, <3>1 DEF IInv, EInv, EndsGood, TypeOK, Gone
    <3>3. \A r \in Runs : status'[r] = IF r \in book.finished THEN "done" ELSE "failed"
      BY <3>1 DEF IInv, EInv, EndsGood
    <3> QED BY <1>1, <2>1, <3>1, <3>2, <3>3 DEF EInv, EndsGood, Fin
  <2>3. CASE CloseJudgeQueue
    <3>1. main = "wait" /\ main' = "drain" /\ Gone(exam) /\ status' = status
      BY <2>3 DEF CloseJudgeQueue
    <3>2. \A w \in ExamWorkers : exam'[w].at = "gone"
      BY <1>1, <3>1 DEF IInv, TypeOK, Gone
    <3> QED BY <1>1, <2>1, <3>1, <3>2 DEF IInv, EInv, EndsGood, Fin
  <2>4. CASE FeedCheck \/ FeedStops
    <3>1. /\ main \in {"check", "offer"} /\ main' \in {"offer", "wait"} /\ status' = status
          /\ main' = "offer" => ~(next > NCells)
      BY <2>4 DEF FeedCheck, FeedStops
    <3>2. ~(next > NCells) => next <= NCells
      BY PipelineAssumption DEF IInv, TypeOK
    <3> QED BY <1>1, <2>1, <3>1, <3>2 DEF IInv, EInv, EndsGood, Fin
  <2>5. CASE Cancel \/ Deadline
    <3>1. main' = main /\ status' = status
      BY <2>5 DEF Cancel, Deadline
    <3> QED BY <1>1, <3>1 DEF IInv, EInv, EndsGood
  <2> QED BY <2>2, <2>3, <2>4, <2>5
<1> QED BY <1>2, <1>3, <1>4 DEF IInv

\* A worker between two pieces of work.
LEMMA IdleSteps ==
    /\ \A w \in ExamWorkers : IInv /\ (ExamCheck(w) \/ ExamLeaves(w)) => IInv'
    /\ \A g \in JudgeWorkers : IInv /\ (JudgeCheck(g) \/ JudgeLeaves(g)) => IInv'
<1>1. ASSUME IInv, NEW w \in ExamWorkers, ExamCheck(w) \/ ExamLeaves(w)
      PROVE  IInv'
  <2>1. /\ exam \in [ExamWorkers -> ExamWorker] /\ ctx \in [canceled : BOOLEAN, expired : BOOLEAN]
        /\ exam[w] \in ExamWorker
    BY <1>1 DEF IInv, TypeOK
  <2>2. /\ exam[w].at \in {"check", "take"}
        /\ \/ exam' = [exam EXCEPT ![w].at = "gone"]
           \/ exam[w].at = "check" /\ exam' = [exam EXCEPT ![w].at = "take"]
        /\ UNCHANGED <<main, next, judge, votes, row, book, tally, status>>
        /\ ctx' = ctx \/ ctx' = [ctx EXCEPT !.canceled = @ \/ Expired]
    BY <1>1 DEF ExamCheck, ExamLeaves, Guard
  <2>3. /\ exam' \in [ExamWorkers -> ExamWorker] /\ exam'[w].at \in {"take", "gone"}
        /\ \A v \in ExamWorkers \ {w} : exam'[v] = exam[v]
    BY <2>1, <2>2 DEF ExamWorker
  <2>4. ctx' \in [canceled : BOOLEAN, expired : BOOLEAN]
    <3>1. Expired \in BOOLEAN
      BY <2>1 DEF Expired
    <3>2. CASE ctx' = ctx
      BY <2>1, <3>2
    <3>3. CASE ctx' = [ctx EXCEPT !.canceled = @ \/ Expired]
      BY <2>1, <3>1, <3>3, Zenon
    <3> QED BY <2>2, <3>2, <3>3
  <2>5. TypeOK'
    BY <1>1, <2>2, <2>3, <2>4 DEF IInv, TypeOK
  <2>6. SameWork(exam, exam') /\ SameHands(judge, judge')
    BY <2>2, <2>3 DEF SameWork, SameHands
  <2>7. CInv' /\ VInv'
    BY <1>1, <2>2, <2>6, QuietStep
  <2>8. EInv'
    <3>1. main \notin {"drain", "returned"}
      BY <1>1, <2>2 DEF IInv, EInv, EndsGood
    <3> QED BY <1>1, <2>2, <3>1 DEF IInv, EInv, EndsGood
  <2> QED BY <2>5, <2>7, <2>8 DEF IInv
<1>2. ASSUME IInv, NEW g \in JudgeWorkers, JudgeCheck(g) \/ JudgeLeaves(g)
      PROVE  IInv'
  <2>1. judge \in [JudgeWorkers -> JudgeWorker] /\ judge[g] \in JudgeWorker
    BY <1>2 DEF IInv, TypeOK
  <2>2. /\ judge[g].at \in {"check", "take"}
        /\ \/ judge' = [judge EXCEPT ![g].at = "gone"]
           \/ judge' = [judge EXCEPT ![g].at = "take"]
        /\ UNCHANGED <<main, next, exam, votes, row, book, tally, ctx, status>>
    BY <1>2 DEF JudgeCheck, JudgeLeaves
  <2>3. /\ judge' \in [JudgeWorkers -> JudgeWorker] /\ judge'[g].at \in {"take", "gone"}
        /\ \A h \in JudgeWorkers \ {g} : judge'[h] = judge[h]
    BY <2>1, <2>2 DEF JudgeWorker
  <2>4. TypeOK'
    BY <1>2, <2>2, <2>3 DEF IInv, TypeOK
  <2>5. SameWork(exam, exam') /\ SameHands(judge, judge')
    BY <2>2, <2>3 DEF SameWork, SameHands
  <2>6. CInv' /\ VInv'
    BY <1>2, <2>2, <2>5, QuietStep
  <2>7. EInv'
    <3>1. main # "returned"
      BY <1>2, <2>2 DEF IInv, EInv, EndsGood
    <3> QED BY <1>2, <2>2, <3>1 DEF IInv, EInv, EndsGood
  <2> QED BY <2>4, <2>6, <2>7 DEF IInv
<1> QED BY <1>1, <1>2

-----------------------------------------------------------------------------
(* Types *)

\* A worker stays a worker, wherever it goes on.
LEMMA ExamTypes ==
    ASSUME IInv, NEW w \in ExamWorkers,
           \/ \E what \in {"skipped", "stored"} : GiveUp(w, what)
           \/ Unanswered(w) \/ Ruled(w) \/ Judged(w) \/ OfferStops(w)
    PROVE  /\ exam' \in [ExamWorkers -> ExamWorker]
           /\ row' \in [Units -> {"none", "stored", "skipped"}]
<1> DEFINE x == exam[w]
           F(k) == [x EXCEPT !.failed = k]
           D(k) == [F(k) EXCEPT !.at = "done"]
           A == [x EXCEPT !.answered = TRUE, !.failed = 0]
           O == [x EXCEPT !.answered = TRUE, !.failed = 0, !.at = "offer"]
<1>1. /\ exam \in [ExamWorkers -> ExamWorker] /\ x \in ExamWorker
      /\ row \in [Units -> {"none", "stored", "skipped"}] /\ x.failed + 1 \in Nat
  BY DEF IInv, TypeOK, ExamWorker
<1>2. x.at \in {"case", "offer"} => x.case <= NCases[x.cell]
  BY DEF IInv, CInv, CellsGood
<1>3. \A k \in Nat : /\ F(k) \in ExamWorker /\ F(k).cell = x.cell /\ F(k).case = x.case
                     /\ D(k) \in ExamWorker
  BY <1>1 DEF ExamWorker
<1>4. /\ A \in ExamWorker /\ A.cell = x.cell /\ A.case = x.case
      /\ O \in ExamWorker /\ [x EXCEPT !.at = "done"] \in ExamWorker
  BY <1>1 DEF ExamWorker
<1>5. \A k, what : what \in {"stored", "skipped"} =>
          RowsFrom(w, k, what) \in [Units -> {"none", "stored", "skipped"}]
  BY <1>1 DEF RowsFrom
<1>6. \A u : [row EXCEPT ![u] = "stored"] \in [Units -> {"none", "stored", "skipped"}]
  BY <1>1
<1>7. \A y \in ExamWorker : [exam EXCEPT ![w] = y] \in [ExamWorkers -> ExamWorker]
  BY <1>1
<1>8. CASE \E what \in {"skipped", "stored"} : GiveUp(w, what)
  <2>1. PICK what \in {"skipped", "stored"} : GiveUp(w, what)
    BY <1>8
  <2>2. row' = RowsFrom(w, 1, what) /\ exam' = [exam EXCEPT ![w] = [x EXCEPT !.at = "done"]]
    BY <2>1 DEF GiveUp
  <2> QED BY <1>4, <1>5, <1>7, <2>2
<1>9. CASE Unanswered(w)
  <2> DEFINE k == x.failed + 1
  <2>1. /\ x.at = "case"
        /\ \/ row' = RowsFrom(w, F(k).case, "stored")
           \/ row' = [row EXCEPT ![<<F(k).cell, F(k).case>>] = "stored"]
        /\ \/ exam' = [exam EXCEPT ![w] = D(k)]
           \/ exam' = [exam EXCEPT ![w] = NextCase(F(k))]
    BY <1>9 DEF Unanswered
  <2>2. k \in Nat
    BY <1>1
  <2> HIDE DEF k, F, D
  <2>3. NextCase(F(k)) \in ExamWorker /\ D(k) \in ExamWorker
    BY <1>2, <1>3, <2>1, <2>2, NextCaseFacts
  <2> QED BY <1>5, <1>6, <1>7, <2>1, <2>3
<1>10. CASE Ruled(w)
  <2>1. /\ x.at = "case" /\ row' = [row EXCEPT ![<<A.cell, A.case>>] = "stored"]
        /\ exam' = [exam EXCEPT ![w] = NextCase(A)]
    BY <1>10 DEF Ruled
  <2> HIDE DEF A
  <2>2. NextCase(A) \in ExamWorker
    BY <1>2, <1>4, <2>1, NextCaseFacts
  <2> QED BY <1>6, <1>7, <2>1, <2>2
<1>11. CASE Judged(w)
  <2>1. row' = row /\ exam' = [exam EXCEPT ![w] = O]
    BY <1>11 DEF Judged
  <2> HIDE DEF O
  <2> QED BY <1>1, <1>4, <1>7, <2>1
<1>12. CASE OfferStops(w)
  <2>1. row' = row /\ exam' = [exam EXCEPT ![w] = NextCase(x)] /\ x.at = "offer"
    BY <1>12 DEF OfferStops
  <2>2. NextCase(x) \in ExamWorker
    BY <1>1, <1>2, <2>1, NextCaseFacts
  <2> QED BY <1>1, <1>7, <2>1, <2>2
<1> QED BY <1>8, <1>9, <1>10, <1>11, <1>12

\* The exam workers' steps.
LEMMA ExamineGood ==
    ASSUME IInv, NEW w \in ExamWorkers, Examine(w)
    PROVE  IInv'
<1>1. CASE ExamCheck(w) \/ ExamLeaves(w)
  BY <1>1, IdleSteps
<1>2. CASE \/ \E what \in {"skipped", "stored"} : GiveUp(w, what)
           \/ Unanswered(w) \/ Ruled(w) \/ OfferStops(w)
  <2>1. CInv' /\ VInv' /\ EInv'
    BY <1>2, GiveUpStep, UnansweredStep, RuledStep, OfferStopsStep
  <2>2. UNCHANGED <<main, next, judge, votes, book, tally, ctx, status>>
    BY <1>2 DEF GiveUp, Unanswered, Ruled, OfferStops
  <2> QED BY <1>2, <2>1, <2>2, ExamTypes DEF IInv, TypeOK
<1>3. CASE Judged(w)
  <2>1. CInv' /\ VInv' /\ EInv'
    BY <1>3, JudgedStep
  <2> DEFINE r == RunOf[exam[w].cell]
             P == [book.pending EXCEPT ![r] = @ + Jury]
  <2>2. /\ UNCHANGED <<main, next, judge, votes, tally, ctx, status>>
        /\ book' = [book EXCEPT !.pending[r] = @ + Jury]
    BY <1>3 DEF Judged
  <2>3. exam[w].cell \in Cells /\ r \in Runs /\ Jury \in Nat
    BY PipelineAssumption DEF IInv, TypeOK, ExamWorker
  <2>4. book \in [pending : [Runs -> Nat], remaining : [Runs -> 0 .. NCells],
                  cellsDone : SUBSET Runs, finished : SUBSET Runs]
    BY DEF IInv, TypeOK
  <2>5. P \in [Runs -> Nat]
    BY <2>3, <2>4
  <2>6. book' = [book EXCEPT !.pending = P]
    BY <2>2, <2>4
  <2> HIDE DEF P
  <2>7. book' \in [pending : [Runs -> Nat], remaining : [Runs -> 0 .. NCells],
                   cellsDone : SUBSET Runs, finished : SUBSET Runs]
    BY <2>4, <2>5, <2>6
  <2> QED BY <1>3, <2>1, <2>2, <2>7, ExamTypes DEF IInv, TypeOK
<1>4. CASE Account(w)
  <2>1. CInv' /\ VInv' /\ EInv' /\ book'.remaining \in [Runs -> 0 .. NCells]
           /\ book'.pending = book.pending /\ tally.completed + 1 <= NCells
    BY <1>4, AccountStep
  <2>2. UNCHANGED <<main, next, judge, votes, row, status>>
    BY <1>4 DEF Account
  <2>3. book' \in [pending : [Runs -> Nat], remaining : [Runs -> 0 .. NCells],
                   cellsDone : SUBSET Runs, finished : SUBSET Runs]
    <3> DEFINE Q == [book.remaining EXCEPT ![RunOf[exam[w].cell]] = @ - 1]
    <3>1. book \in [pending : [Runs -> Nat], remaining : [Runs -> 0 .. NCells],
                    cellsDone : SUBSET Runs, finished : SUBSET Runs]
      BY DEF IInv, TypeOK
    <3>2. book' = [book EXCEPT !.remaining = Q]
      BY <1>4, <3>1 DEF Account
    <3> HIDE DEF Q
    <3>3. Q \in [Runs -> 0 .. NCells]
      BY <2>1, <3>1, <3>2
    <3> QED BY <3>1, <3>2, <3>3
  <2>4. exam' \in [ExamWorkers -> ExamWorker]
    <3>1. exam \in [ExamWorkers -> ExamWorker] /\ 1 \in Cells /\ 1 \in 1 .. Jury
      BY PipelineAssumption DEF IInv, TypeOK, Cells
    <3>2. Idle \in ExamWorker /\ [exam[w] EXCEPT !.at = "mark"] \in ExamWorker
      BY <3>1 DEF Idle, ExamWorker
    <3> HIDE DEF Idle
    <3> QED BY <1>4, <3>1, <3>2 DEF Account
  <2>5. tally' \in [completed : 0 .. NCells, dead : 0 .. NCells]
    <3> DEFINE d == tally.dead + IF exam[w].answered THEN 0 ELSE 1
    <3>1. /\ tally.completed \in 0 .. NCells /\ tally.dead \in 0 .. NCells /\ NCells \in Nat
          /\ tally.dead <= tally.completed
      BY PipelineAssumption DEF IInv, TypeOK, CInv, CellsGood
    <3>2. d \in 0 .. NCells
      <4>1. CASE exam[w].answered
        BY <3>1, <4>1
      <4>2. CASE ~exam[w].answered
        BY <2>1, <3>1, <4>2
      <4> QED BY <4>1, <4>2
    <3>3. tally.completed + 1 \in 0 .. NCells
      BY <2>1, <3>1
    <3>4. tally' = [completed |-> tally.completed + 1, dead |-> d]
      BY <1>4 DEF Account
    <3> HIDE DEF d
    <3> QED BY <3>2, <3>3, <3>4
  <2>6. ctx' \in [canceled : BOOLEAN, expired : BOOLEAN]
    <3>1. ctx \in [canceled : BOOLEAN, expired : BOOLEAN]
      BY DEF IInv, TypeOK
    <3>2. PICK a \in BOOLEAN : ctx' = [ctx EXCEPT !.canceled = a]
      BY <1>4, Zenon DEF Account
    <3> QED BY <3>1, <3>2
  <2> QED BY <2>1, <2>2, <2>3, <2>4, <2>5, <2>6 DEF IInv, TypeOK
<1>5. CASE MarkCellsDone(w)
  <2>1. CInv' /\ VInv' /\ EInv'
    BY <1>5, MarkStep
  <2>2. UNCHANGED <<main, next, judge, votes, row, tally, ctx>>
    BY <1>5 DEF MarkCellsDone
  <2>3. /\ book' \in [pending : [Runs -> Nat], remaining : [Runs -> 0 .. NCells],
                      cellsDone : SUBSET Runs, finished : SUBSET Runs]
        /\ status' \in [Runs -> {"running", "done", "failed"}]
    <3> DEFINE r == RunOf[exam[w].cell]
               b == [book EXCEPT !.cellsDone = @ \cup {r}]
               c == [b EXCEPT !.finished = @ \cup {r}]
    <3>1. r \in Runs
      BY PipelineAssumption DEF IInv, TypeOK, ExamWorker
    <3>2. /\ book \in [pending : [Runs -> Nat], remaining : [Runs -> 0 .. NCells],
                       cellsDone : SUBSET Runs, finished : SUBSET Runs]
          /\ status \in [Runs -> {"running", "done", "failed"}]
      BY DEF IInv, TypeOK
    <3>3. b \in [pending : [Runs -> Nat], remaining : [Runs -> 0 .. NCells],
                 cellsDone : SUBSET Runs, finished : SUBSET Runs]
      BY <3>1, <3>2
    <3>4. c \in [pending : [Runs -> Nat], remaining : [Runs -> 0 .. NCells],
                 cellsDone : SUBSET Runs, finished : SUBSET Runs]
      <4> HIDE DEF b, r
      <4> QED BY <3>1, <3>3
    <3>5. \/ book' = c /\ status' = [status EXCEPT ![r] = "done"]
          \/ book' = b /\ status' = status
      BY <1>5 DEF MarkCellsDone, Booked
    <3> HIDE DEF b, c, r
    <3> QED BY <3>2, <3>3, <3>4, <3>5
  <2>4. exam' \in [ExamWorkers -> ExamWorker]
    <3>1. exam \in [ExamWorkers -> ExamWorker] /\ 1 \in Cells /\ 1 \in 1 .. Jury
      BY PipelineAssumption DEF IInv, TypeOK, Cells
    <3>2. Idle \in ExamWorker
      BY <3>1 DEF Idle, ExamWorker
    <3> HIDE DEF Idle
    <3> QED BY <1>5, <3>1, <3>2 DEF MarkCellsDone
  <2> QED BY <2>1, <2>2, <2>3, <2>4 DEF IInv, TypeOK
<1> QED BY <1>1, <1>2, <1>3, <1>4, <1>5 DEF Examine

\* The judge workers' steps.
LEMMA VoteGood ==
    ASSUME IInv, NEW g \in JudgeWorkers, Vote(g)
    PROVE  IInv'
<1>1. judge \in [JudgeWorkers -> JudgeWorker]
  BY DEF IInv, TypeOK
<1>2. CASE JudgeCheck(g) \/ JudgeLeaves(g)
  BY <1>2, IdleSteps
<1>3. CASE LandVote(g)
  <2>1. CInv' /\ VInv' /\ EInv' /\ votes' \in [Units -> 0 .. Jury]
    BY <1>3, LandVoteStep
  <2>2. UNCHANGED <<main, next, exam, row, book, tally, ctx, status>>
    BY <1>3 DEF LandVote
  <2>3. judge' \in [JudgeWorkers -> JudgeWorker]
    <3>1. \/ judge' = [judge EXCEPT ![g].at = "settle"]
          \/ judge' = [judge EXCEPT ![g].at = "drop"]
      BY <1>3 DEF LandVote
    <3> QED BY <1>1, <3>1 DEF JudgeWorker
  <2> QED BY <2>1, <2>2, <2>3 DEF IInv, TypeOK
<1>4. CASE SettleSample(g)
  <2>1. CInv' /\ VInv' /\ EInv'
    BY <1>4, SettleStep
  <2>2. UNCHANGED <<main, next, exam, votes, book, tally, ctx, status>>
    BY <1>4 DEF SettleSample
  <2>3. judge' \in [JudgeWorkers -> JudgeWorker]
    BY <1>1, <1>4 DEF SettleSample, JudgeWorker
  <2>4. row' \in [Units -> {"none", "stored", "skipped"}]
    BY <1>4 DEF SettleSample, IInv, TypeOK
  <2> QED BY <2>1, <2>2, <2>3, <2>4 DEF IInv, TypeOK
<1>5. CASE DecrementPending(g)
  <2>1. CInv' /\ VInv' /\ EInv' /\ book'.pending \in [Runs -> Nat]
           /\ book'.remaining = book.remaining
    BY <1>5, DropStep
  <2>2. UNCHANGED <<main, next, exam, votes, row, tally, ctx>>
    BY <1>5 DEF DecrementPending
  <2>3. judge' \in [JudgeWorkers -> JudgeWorker]
    <3>1. judge' = [judge EXCEPT ![g] = [at |-> "check", unit |-> judge'[g].unit]]
          /\ judge'[g].unit = <<1, 1>>
      BY <1>1, <1>5 DEF DecrementPending, Waiting
    <3>2. <<1, 1>> \in Units
      <4>1. 1 \in Cells
        BY PipelineAssumption DEF Cells
      <4>2. 1 \in 1 .. NCases[1]
        BY <4>1, PipelineAssumption
      <4> QED BY <4>1, <4>2, UnitFacts
    <3> QED BY <1>1, <3>1, <3>2 DEF JudgeWorker
  <2>4. /\ book' \in [pending : [Runs -> Nat], remaining : [Runs -> 0 .. NCells],
                      cellsDone : SUBSET Runs, finished : SUBSET Runs]
        /\ status' \in [Runs -> {"running", "done", "failed"}]
    <3> DEFINE r == RunOf[judge[g].unit[1]]
               P == [book.pending EXCEPT ![r] = @ - 1]
               b == [book EXCEPT !.pending = P]
               c == [b EXCEPT !.finished = @ \cup {r}]
    <3>1. r \in Runs
      BY <1>1, UnitFacts, PipelineAssumption DEF JudgeWorker
    <3>2. /\ book \in [pending : [Runs -> Nat], remaining : [Runs -> 0 .. NCells],
                       cellsDone : SUBSET Runs, finished : SUBSET Runs]
          /\ status \in [Runs -> {"running", "done", "failed"}]
      BY DEF IInv, TypeOK
    <3>3. \/ book' = c /\ status' = [status EXCEPT ![r] = "done"]
          \/ book' = b /\ status' = status
      BY <1>5, <3>2 DEF DecrementPending, Booked
    <3> HIDE DEF P, r
    <3>4. P \in [Runs -> Nat]
      BY <2>1, <3>2, <3>3
    <3>5. b \in [pending : [Runs -> Nat], remaining : [Runs -> 0 .. NCells],
                 cellsDone : SUBSET Runs, finished : SUBSET Runs]
      BY <3>2, <3>4
    <3>6. c \in [pending : [Runs -> Nat], remaining : [Runs -> 0 .. NCells],
                 cellsDone : SUBSET Runs, finished : SUBSET Runs]
      <4> HIDE DEF b
      <4> QED BY <3>1, <3>5
    <3> HIDE DEF b, c
    <3> QED BY <3>2, <3>3, <3>5, <3>6
  <2> QED BY <2>1, <2>2, <2>3, <2>4 DEF IInv, TypeOK
<1> QED BY <1>2, <1>3, <1>4, <1>5 DEF Vote

\* The steps in which a cell or a vote changes hands.
LEMMA HandoversGood ==
    ASSUME IInv, NEW w \in ExamWorkers,
           Feed(w) \/ \E g \in JudgeWorkers : Offer(w, g)
    PROVE  IInv'
<1>1. CASE Feed(w)
  <2>1. CInv' /\ VInv' /\ EInv' /\ next \in Cells
    BY <1>1, FeedStep
  <2>2. /\ UNCHANGED <<judge, votes, row, book, tally, ctx, status>>
        /\ main' = "check" /\ next' = next + 1
        /\ exam' = [exam EXCEPT ![w] = [Idle EXCEPT !.at = "case", !.cell = next]]
    BY <1>1 DEF Feed
  <2>3. next' \in 1 .. NCells + 1
    BY <2>1, <2>2, PipelineAssumption DEF Cells
  <2>4. exam' \in [ExamWorkers -> ExamWorker]
    <3>1. exam \in [ExamWorkers -> ExamWorker] /\ 1 \in 1 .. Jury /\ 1 \in Cells
      BY PipelineAssumption DEF IInv, TypeOK, Cells
    <3>2. Idle \in ExamWorker
      BY <3>1 DEF Idle, ExamWorker
    <3>3. [Idle EXCEPT !.at = "case", !.cell = next] \in ExamWorker
      BY <2>1, <3>2 DEF ExamWorker
    <3> QED BY <2>2, <3>1, <3>3
  <2> QED BY <2>1, <2>2, <2>3, <2>4 DEF IInv, TypeOK
<1>2. ASSUME NEW g \in JudgeWorkers, Offer(w, g)
      PROVE  IInv'
  <2> DEFINE x == exam[w]
             Z(k) == [x EXCEPT !.slot = k]
  <2>1. CInv' /\ VInv' /\ EInv'
    BY <1>2, OfferStep
  <2>2. /\ UNCHANGED <<main, next, votes, row, book, tally, ctx, status>> /\ x.at = "offer"
        /\ judge' = [judge EXCEPT ![g] = [at |-> "call", unit |-> <<x.cell, x.case>>]]
        /\ exam' = [exam EXCEPT ![w] = IF x.slot = Jury THEN NextCase(x) ELSE Z(x.slot + 1)]
    BY <1>2 DEF Offer
  <2>3. /\ exam \in [ExamWorkers -> ExamWorker] /\ judge \in [JudgeWorkers -> JudgeWorker]
        /\ x \in ExamWorker /\ x.case <= NCases[x.cell]
    BY <2>2 DEF IInv, TypeOK, CInv, CellsGood
  <2>4. <<x.cell, x.case>> \in Units
    <3>1. x.cell \in Cells /\ x.case \in Nat \ {0} /\ NCases[x.cell] \in Nat
      BY <2>3, PipelineAssumption DEF ExamWorker
    <3>2. x.case \in 1 .. NCases[x.cell]
      BY <2>3, <3>1
    <3> QED BY <3>1, <3>2, UnitFacts
  <2>5. judge' \in [JudgeWorkers -> JudgeWorker]
    BY <2>2, <2>3, <2>4 DEF JudgeWorker
  <2>6. NextCase(x) \in ExamWorker
    BY <2>3, NextCaseFacts
  <2>7. x.slot # Jury => Z(x.slot + 1) \in ExamWorker
    <3>1. \A k \in 1 .. Jury : Z(k) \in ExamWorker
      BY <2>3 DEF ExamWorker
    <3>2. x.slot # Jury => x.slot + 1 \in 1 .. Jury
      BY <2>3, PipelineAssumption DEF ExamWorker
    <3> HIDE DEF Z
    <3> QED BY <3>1, <3>2
  <2> HIDE DEF Z
  <2>8. exam' \in [ExamWorkers -> ExamWorker]
    BY <2>2, <2>3, <2>6, <2>7
  <2> QED BY <2>1, <2>2, <2>5, <2>8 DEF IInv, TypeOK
<1> QED BY <1>1, <1>2

-----------------------------------------------------------------------------
(* The theorems *)

\* Nothing is offered yet: every cell is open, and nothing is due.
LEMMA InitGood == Init => IInv
<1> SUFFICES ASSUME Init PROVE IInv
  OBVIOUS
<1> USE DEF Init
<1>1. NCells \in Nat \ {0} /\ 1 \in Cells /\ Jury \in Nat \ {0} /\ 1 \in 1 .. Jury
  BY PipelineAssumption DEF Cells
<1>2. <<1, 1>> \in Units
  <2>1. 1 \in 1 .. NCases[1]
    BY <1>1, PipelineAssumption
  <2> QED BY <1>1, <2>1, UnitFacts
<1>3. \A w \in ExamWorkers : exam[w].at = "check"
  BY DEF Idle
<1>4. \A g \in JudgeWorkers : judge[g].at = "check"
  BY DEF Waiting
<1>5. OpenCells(next, exam) = Cells
  <2>1. \A c \in Cells : c >= 1
    BY <1>1 DEF Cells
  <2> QED BY <2>1 DEF OpenCells
<1>6. OpenUnits(next, exam) = Units
  <2>1. \A u \in Units : u[1] >= 1
    BY UnitFacts, PipelineAssumption DEF Cells
  <2> QED BY <2>1 DEF OpenUnits
<1>7. \A r : OpenOf(r, next, exam) = {c \in Cells : RunOf[c] = r}
  BY <1>5 DEF OpenOf
<1>8. \A r \in Runs : book.remaining[r] = Cardinality(OpenOf(r, next, exam))
  BY <1>7
<1>9. \A r \in Runs : book.remaining[r] \in 0 .. NCells /\ book.remaining[r] # 0
  <2> SUFFICES ASSUME NEW r \in Runs
               PROVE  book.remaining[r] \in 0 .. NCells /\ book.remaining[r] # 0
    OBVIOUS
  <2>1. OpenOf(r, next, exam) \subseteq Cells
    BY <1>7
  <2>2. PICK c \in Cells : RunOf[c] = r
    BY PipelineAssumption
  <2>3. c \in OpenOf(r, next, exam)
    BY <1>7, <2>2
  <2>4. Cardinality(OpenOf(r, next, exam)) <= NCells
    BY <2>1, CellsFinite, FS_Subset
  <2>5. Cardinality(OpenOf(r, next, exam)) # 0
    BY <2>3, Finite, FS_EmptySet
  <2> QED BY <1>1, <1>8, <2>4, <2>5, Numbers
<1>10. TypeOK
  <2>1. exam \in [ExamWorkers -> ExamWorker]
    <3>1. Idle \in ExamWorker
      BY <1>1 DEF Idle, ExamWorker
    <3> QED BY <3>1
  <2>2. judge \in [JudgeWorkers -> JudgeWorker]
    <3>1. Waiting \in JudgeWorker
      BY <1>2 DEF Waiting, JudgeWorker
    <3> QED BY <3>1
  <2>3. votes \in [Units -> 0 .. Jury] /\ row \in [Units -> {"none", "stored", "skipped"}]
    BY <1>1
  <2>4. book \in [pending : [Runs -> Nat], remaining : [Runs -> 0 .. NCells],
                  cellsDone : SUBSET Runs, finished : SUBSET Runs]
    <3> DEFINE Q == [r \in Runs |-> Cardinality({c \in Cells : RunOf[c] = r})]
    <3>1. book = [pending |-> [r \in Runs |-> 0], remaining |-> Q,
                  cellsDone |-> {}, finished |-> {}]
      OBVIOUS
    <3>2. Q \in [Runs -> 0 .. NCells]
      BY <1>9
    <3> HIDE DEF Q
    <3> QED BY <3>1, <3>2
  <2>5. tally \in [completed : 0 .. NCells, dead : 0 .. NCells] /\ next \in 1 .. NCells + 1
    BY <1>1
  <2>6. /\ ctx \in [canceled : BOOLEAN, expired : BOOLEAN]
        /\ status \in [Runs -> {"running", "done", "failed"}]
        /\ main \in {"check", "offer", "wait", "drain", "returned"}
    OBVIOUS
  <2> QED BY <2>1, <2>2, <2>3, <2>4, <2>5, <2>6 DEF TypeOK
<1>11. CInv
  <2>1. /\ tally.completed + Cardinality(OpenCells(next, exam)) = NCells
        /\ tally.dead <= tally.completed
    BY <1>1, <1>5, CellsFinite
  <2>2. \A w \in ExamWorkers : ~Busy(exam[w]) /\ exam[w].at \notin {"case", "offer", "mark"}
    BY <1>3 DEF Busy
  <2>3. book.cellsDone = {}
    OBVIOUS
  <2> QED BY <1>8, <1>9, <2>1, <2>2, <2>3 DEF CInv, CellsGood
<1>12. VInv
  <2> DEFINE op == OpenUnits(next, exam)
  <2>1. \A r : Unlanded(r, op, votes, row) = {} /\ Landed(r, judge) = {}
    BY <1>4, <1>6 DEF Unlanded, Due, Landed
  <2>2. Counted(op, judge, votes, row, book.pending)
    <3>1. Cardinality({}) = 0 /\ \A r \in Runs : book.pending[r] = 0
      BY FS_EmptySet
    <3> HIDE DEF op
    <3>2. ASSUME NEW r \in Runs
          PROVE  book.pending[r] = Cardinality(Unlanded(r, op, votes, row))
                                   + Cardinality(Landed(r, judge))
      <4>1. /\ Cardinality(Unlanded(r, op, votes, row)) = 0
            /\ Cardinality(Landed(r, judge)) = 0
        BY <2>1, <3>1
      <4> QED BY <3>1, <4>1
    <3> QED BY <3>2 DEF Counted
  <2>3. Fresh(op, votes, row) /\ HandsGood(op, judge, votes, row)
    BY <1>4, <1>6 DEF Fresh, HandsGood, Hands
  <2>4. DueGood(op, judge, votes, row) /\ OffersFit(op, exam, judge, votes, row)
    BY <1>3, <1>6 DEF DueGood, Due, OffersFit
  <2>5. CallsFit(judge, votes)
    <3>1. \A u : Calls(judge, u) = {}
      BY <1>4 DEF Calls
    <3>2. \A u \in Units : Cardinality(Calls(judge, u)) = 0 /\ votes[u] = 0
      BY <3>1, FS_EmptySet
    <3> QED BY <1>1, <3>2 DEF CallsFit
  <2> QED BY <2>2, <2>3, <2>4, <2>5 DEF VInv, VotesGood
<1>13. EInv
  BY DEF EInv, EndsGood
<1> QED BY <1>10, <1>11, <1>12, <1>13 DEF IInv

\* The invariant is kept.
LEMMA NextGood == IInv /\ [Next]_vars => IInv'
<1> SUFFICES ASSUME IInv, [Next]_vars PROVE IInv'
  OBVIOUS
<1>1. CASE FeedCheck \/ FeedStops \/ CloseJudgeQueue \/ Tail \/ Cancel \/ Deadline
  BY <1>1, MainSteps
<1>2. ASSUME NEW w \in ExamWorkers, Feed(w) \/ Examine(w) \/ \E g \in JudgeWorkers : Offer(w, g)
      PROVE  IInv'
  BY <1>2, HandoversGood, ExamineGood
<1>3. ASSUME NEW g \in JudgeWorkers, Vote(g)
      PROVE  IInv'
  BY <1>3, VoteGood
<1>4. CASE UNCHANGED vars
  BY <1>4 DEF vars, IInv, TypeOK, CInv, VInv, EInv
<1> QED BY <1>1, <1>2, <1>3, <1>4 DEF Next, Progress

\* What is counted of a run that is finished is nothing: it is complete.
LEMMA FinishedIsComplete ==
    ASSUME IInv, NEW r \in Runs, r \in book.finished, NEW u \in Units, RunOf[u[1]] = r
    PROVE  row[u] # "none"
<1> DEFINE op == OpenUnits(next, exam)
<1>1. r \in book.cellsDone /\ book.pending[r] = 0
  BY DEF IInv, EInv, EndsGood
<1>2. OpenOf(r, next, exam) = {}
  <2>1. Cardinality(OpenOf(r, next, exam)) = 0
    BY <1>1 DEF IInv, CInv, CellsGood
  <2> QED BY <2>1, Finite, FS_EmptySet
<1>3. u \notin op
  <2> SUFFICES ASSUME u \in op PROVE FALSE
    OBVIOUS
  <2>1. u[1] \in Cells
    BY UnitFacts
  <2>2. \A x : Ahead(x, u) => Busy(x) /\ x.cell = u[1]
    BY DEF Ahead, Busy
  <2>3. u[1] \in OpenCells(next, exam)
    BY <2>1, <2>2 DEF OpenUnits, OpenCells
  <2> QED BY <1>2, <2>3 DEF OpenOf
<1> HIDE DEF op
<1>4. VotesGood(op, exam, judge, votes, row, book.pending) /\ Jury \in Nat \ {0}
  BY PipelineAssumption DEF IInv, VInv, op
<1>5. Unlanded(r, op, votes, row) = {} /\ Landed(r, judge) = {}
  <2>1. 0 = Cardinality(Unlanded(r, op, votes, row)) + Cardinality(Landed(r, judge))
    BY <1>1, <1>4 DEF VotesGood, Counted
  <2>2. /\ Cardinality(Unlanded(r, op, votes, row)) \in Nat /\ Cardinality(Landed(r, judge)) \in Nat
        /\ IsFiniteSet(Unlanded(r, op, votes, row)) /\ IsFiniteSet(Landed(r, judge))
    BY Finite, Numbers
  <2>3. Cardinality(Unlanded(r, op, votes, row)) = 0 /\ Cardinality(Landed(r, judge)) = 0
    BY <2>1, <2>2
  <2> QED BY <2>2, <2>3, FS_EmptySet
<1>6. SUFFICES ASSUME row[u] = "none" PROVE FALSE
  OBVIOUS
<1>7. u \in Due(op, row)
  BY <1>3, <1>6 DEF Due
<1>8. ~ \E g \in JudgeWorkers : judge[g].at = "settle" /\ judge[g].unit = u
  BY <1>5 DEF Landed
<1>9. votes[u] < Jury /\ votes[u] \in Nat
  BY <1>4, <1>7, <1>8 DEF VotesGood, DueGood, IInv, TypeOK
<1>10. <<u, Jury>> \in Unlanded(r, op, votes, row)
  <2>1. Jury \in 1 .. Jury /\ Jury > votes[u]
    BY <1>4, <1>9
  <2> QED BY <1>7, <2>1 DEF Unlanded
<1> QED BY <1>5, <1>10

\* The inductive invariant of the pipeline.
LEMMA Inductive == Spec => []IInv
BY InitGood, NextGood, PTL DEF Spec

\* The books of a batch are what their types say: a vote is put away only if
\* it was counted, a cell is through only once, and no case gets more votes
\* than its jury has judges (enqueueVotes, decrementPending, remaining).
THEOREM PipelineTypes == Spec => []TypeOK
<1>1. IInv => TypeOK
  BY DEF IInv
<1> QED BY <1>1, Inductive, PTL

\* A run reads "done" only when its grid is complete, though the last row may
\* be written by either pool (markCellsDone, decrementPending).
THEOREM DoneMeansComplete == Spec => []DoneRunsAreComplete
<1>1. IInv => DoneRunsAreComplete
  <2> SUFFICES ASSUME IInv, NEW r \in Runs, status[r] = "done", NEW u \in Units, RunOf[u[1]] = r
               PROVE  row[u] # "none"
    BY DEF DoneRunsAreComplete
  <2>1. r \in book.finished
    BY DEF IInv, EInv, EndsGood
  <2> QED BY <2>1, FinishedIsComplete
<1> QED BY <1>1, Inductive, PTL

\* A batch that has returned fails exactly the runs with a cell nobody is
\* through with or a vote nobody has put away (executePrepared's tail).
THEOREM TheRestFails == Spec => []IncompleteRunsFail
<1>1. IInv => IncompleteRunsFail
  <2> SUFFICES ASSUME IInv, main = "returned", NEW r \in Runs
               PROVE  status[r] = IF book.remaining[r] = 0 /\ ~Owed(r) THEN "done" ELSE "failed"
    BY DEF IncompleteRunsFail
  <2>1. /\ r \in book.finished <=> r \in book.cellsDone /\ book.pending[r] = 0
        /\ status[r] = IF r \in book.finished THEN "done" ELSE "failed"
        /\ \A w \in ExamWorkers : exam[w].at # "mark"
    BY DEF IInv, EInv, EndsGood
  <2>2. r \in book.cellsDone <=> book.remaining[r] = 0
    BY <2>1 DEF IInv, CInv, CellsGood
  <2> QED BY <2>1, <2>2 DEF Owed
<1> QED BY <1>1, Inductive, PTL

=============================================================================
