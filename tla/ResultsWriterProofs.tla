------------------------ MODULE ResultsWriterProofs ------------------------
(***************************************************************************)
(* Theorems about ResultsWriter, for any number of races, players and      *)
(* failures.                                                               *)
(***************************************************************************)
EXTENDS ResultsWriter, TLAPS

Whole(r) == [stored |-> TRUE, results |-> Results[r]]

(* What an open transaction has written: entries of the race and no other, *)
(* and all of them but those the loop has still to visit.                  *)
Partial(x, r, left) ==
  /\ x.stored
  /\ left \subseteq DOMAIN Results[r]
  /\ DOMAIN x.results \subseteq DOMAIN Results[r]
  /\ DOMAIN Results[r] \ left \subseteq DOMAIN x.results
  /\ \A p \in DOMAIN x.results : x.results[p] = Results[r][p]

Progress(r) ==
  /\ db[r] \in {NoRow, Whole(r)}
  /\ logged[r] = "ok" => db[r] = Whole(r)
  /\ At(r, "race")    => tx[r] \in {NoRow, Whole(r)}
  /\ At(r, "entries") => Partial(tx[r], r, todo[r])
  /\ At(r, "commit")  => tx[r] = Whole(r)

ProgressInv == \A r \in Races : Progress(r)

-----------------------------------------------------------------------------
(* Facts about rows.                                                       *)

LEMMA RowsOfRace ==
  ASSUME NEW r \in Races
  PROVE  /\ IsRows(NoRow) /\ IsRows(Whole(r)) /\ ~NoRow.stored
         /\ IsEntries(Results[r])
BY ResultsAssumption DEF IsRows, IsEntries, NoRow, Whole

(* After the races row, nothing or everything of the race is there.        *)
LEMMA RaceRowPartial ==
  ASSUME NEW r \in Races, NEW x \in {NoRow, Whole(r)}
  PROVE  LET y == [stored |-> TRUE, results |-> x.results]
         IN  IsRows(y) /\ Partial(y, r, DOMAIN Results[r])
<1>1. CASE x = NoRow
  <2>1. x.results = [p \in {} |-> 0]
    BY <1>1 DEF NoRow
  <2>2. IsEntries([p \in {} |-> 0])
    BY DEF IsEntries
  <2> QED BY <2>1, <2>2 DEF IsRows, Partial
<1>2. CASE x = Whole(r)
  <2>1. x.results = Results[r]
    BY <1>2 DEF Whole
  <2> QED BY <2>1, RowsOfRace DEF IsRows, Partial
<1> QED BY <1>1, <1>2

(* One more entry.                                                         *)
LEMMA EntryPartial ==
  ASSUME NEW r \in Races, NEW p \in todo[r],
         IsRows(tx[r]), Partial(tx[r], r, todo[r])
  PROVE  IsRows(Written(r, p)) /\ Partial(Written(r, p), r, todo[r] \ {p})
<1> DEFINE f == [q \in DOMAIN tx[r].results \cup {p} |->
                   IF q = p THEN Results[r][p] ELSE tx[r].results[q]]
<1>1. Written(r, p) = [stored |-> TRUE, results |-> f]
  BY DEF Written
<1>2. p \in DOMAIN Results[r] /\ Results[r][p] \in Nat /\ DOMAIN Results[r] \subseteq Players
  BY RowsOfRace DEF Partial, IsEntries
<1>3. \A q \in DOMAIN tx[r].results : tx[r].results[q] \in Nat
  BY DEF IsRows, IsEntries
<1>4. DOMAIN f \subseteq Players /\ f \in [DOMAIN f -> Nat]
  BY <1>2, <1>3 DEF Partial
<1>5. IsRows([stored |-> TRUE, results |-> f])
  BY <1>4 DEF IsRows, IsEntries
<1>6. Partial([stored |-> TRUE, results |-> f], r, todo[r] \ {p})
  BY <1>2 DEF Partial
<1> QED BY <1>1, <1>5, <1>6

(* With nothing left to visit the transaction holds the whole race.        *)
LEMMA PartialWhole ==
  ASSUME NEW r \in Races, NEW x, IsRows(x), Partial(x, r, {})
  PROVE  x = Whole(r)
<1>1. DOMAIN x.results = DOMAIN Results[r]
  BY DEF Partial
<1>2. x.results = Results[r]
  BY <1>1, RowsOfRace DEF Partial, IsRows, IsEntries
<1> QED BY <1>2 DEF IsRows, Partial, Whole

-----------------------------------------------------------------------------
(* Types.  That a result is a natural number rests on the loop visiting    *)
(* entries of its own race, so both invariants are proved together.        *)
Inv == TypeOK /\ ProgressInv

LEMMA InvInit == Init => Inv
<1> SUFFICES ASSUME Init PROVE Inv
  OBVIOUS
<1>1. TypeOK
  <2>1. \A r \in Races : IsRows(tx[r]) /\ IsRows(db[r])
    BY RowsOfRace DEF Init
  <2>2. faults \in [Races -> 0..FaultBound]
    BY ResultsAssumption DEF Init
  <2>3. /\ pc \in [Races -> {"begin", "race", "entries", "commit", "wait", "returned"}]
        /\ attempt \in [Races -> 1..2] /\ todo \in [Races -> SUBSET Players]
        /\ logged \in [Races -> {"nothing", "ok", "failed"}]
    BY DEF Init
  <2>4. DOMAIN tx = Races /\ DOMAIN db = Races /\ cancelled \in BOOLEAN /\ up \in BOOLEAN
    BY DEF Init
  <2> QED BY <2>1, <2>2, <2>3, <2>4 DEF TypeOK
<1>2. ProgressInv
  BY DEF Init, ProgressInv, Progress, At
<1> QED BY <1>1, <1>2 DEF Inv

LEMMA TypeStep == Inv /\ [Next]_vars => TypeOK'
<1> SUFFICES ASSUME Inv, [Next]_vars PROVE TypeOK'
  OBVIOUS
<1> USE ResultsAssumption DEF TypeOK
<1>0. TypeOK /\ ProgressInv
  BY DEF Inv
<1>1. ASSUME NEW r \in Races, BeginTx(r) PROVE TypeOK'
  BY <1>0, <1>1 DEF BeginTx
<1>2. ASSUME NEW r \in Races, UpsertRace(r) PROVE TypeOK'
  <2>1. tx[r] \in {NoRow, Whole(r)}
    BY <1>0, <1>2 DEF UpsertRace, ProgressInv, Progress, At
  <2>2. IsRows([stored |-> TRUE, results |-> tx[r].results])
    BY <2>1, RaceRowPartial
  <2>3. DOMAIN Results[r] \subseteq Players
    BY RowsOfRace DEF IsEntries
  <2> QED BY <1>0, <1>2, <2>2, <2>3 DEF UpsertRace
<1>3. ASSUME NEW r \in Races, NEW p \in Players, UpsertEntry(r, p) PROVE TypeOK'
  <2>1. p \in todo[r] /\ IsRows(tx[r]) /\ Partial(tx[r], r, todo[r])
    BY <1>0, <1>3 DEF UpsertEntry, ProgressInv, Progress, At
  <2>2. IsRows(Written(r, p))
    BY <2>1, EntryPartial
  <2> QED BY <1>0, <1>3, <2>2 DEF UpsertEntry, Committed
<1>4. ASSUME NEW r \in Races, EntriesDone(r) PROVE TypeOK'
  BY <1>0, <1>4 DEF EntriesDone
<1>5. ASSUME NEW r \in Races, Commit(r) PROVE TypeOK'
  BY <1>0, <1>5, RowsOfRace DEF Commit
<1>6. ASSUME NEW r \in Races, CallRefused(r) PROVE TypeOK'
  BY <1>0, <1>6, RowsOfRace DEF CallRefused, CallFails, AfterError, Report
<1>7. ASSUME NEW r \in Races, StatementFails(r) PROVE TypeOK'
  BY <1>0, <1>7, RowsOfRace DEF StatementFails, CallFails, AfterError, Report
<1>8. ASSUME NEW r \in Races, CommitUnacknowledged(r) PROVE TypeOK'
  BY <1>0, <1>8, RowsOfRace DEF CommitUnacknowledged, CallFails, AfterError, Report
<1>9. ASSUME NEW r \in Races, Retry(r) \/ Abandon(r) PROVE TypeOK'
  BY <1>0, <1>9 DEF Retry, Abandon
<1>10. CASE Cancel
  BY <1>0, <1>10 DEF Cancel, writer
<1>11. CASE Exit
  BY <1>0, <1>11, RowsOfRace DEF Exit
<1>12. CASE UNCHANGED vars
  BY <1>0, <1>12 DEF vars, writer
<1> QED
  BY <1>1, <1>2, <1>3, <1>4, <1>5, <1>6, <1>7, <1>8, <1>9, <1>10, <1>11, <1>12 DEF Next, Persist

-----------------------------------------------------------------------------
(* How far each race has come.  A step of one race leaves the others alone.*)
LEMMA ProgressKept ==
  ASSUME NEW r \in Races, Progress(r),
         UNCHANGED <<pc[r], todo[r], tx[r], db[r], logged[r]>>, up' => up
  PROVE  Progress(r)'
BY DEF Progress, At, Partial

(* A call that fails leaves no transaction behind.                         *)
LEMMA CallFailsStops ==
  ASSUME NEW r \in Races, TypeOK, CallFails(r)
  PROVE  /\ pc'[r] \in {"wait", "returned"}
         /\ logged'[r] = "ok" => logged[r] = "ok"
BY DEF TypeOK, CallFails, AfterError, Report

(* The steps of one race s, seen from race r.                              *)
Others(s) ==
  \A r \in Races \ {s} :
    UNCHANGED <<pc[r], todo[r], tx[r], db[r], logged[r]>>

LEMMA OthersKept ==
  ASSUME TypeOK, NEW s \in Races,
         Persist(s) \/ StatementFails(s) \/ CommitUnacknowledged(s)
  PROVE  Others(s) /\ up' = up
<1> USE DEF Others, TypeOK
<1>1. CASE BeginTx(s) \/ UpsertRace(s) \/ EntriesDone(s) \/ Commit(s)
  BY <1>1 DEF BeginTx, UpsertRace, EntriesDone, Commit
<1>2. CASE \E p \in Players : UpsertEntry(s, p)
  BY <1>2 DEF UpsertEntry, Committed
<1>3. CASE CallRefused(s) \/ StatementFails(s) \/ CommitUnacknowledged(s)
  BY <1>3 DEF CallRefused, StatementFails, CommitUnacknowledged, CallFails
<1>4. CASE Retry(s) \/ Abandon(s)
  BY <1>4 DEF Retry, Abandon
<1> QED BY <1>1, <1>2, <1>3, <1>4 DEF Persist

LEMMA ProgressStep == Inv /\ [Next]_vars => ProgressInv'
<1> SUFFICES ASSUME Inv, [Next]_vars, NEW r \in Races PROVE Progress(r)'
  BY DEF ProgressInv
<1>0. TypeOK /\ Progress(r)
  BY DEF Inv, ProgressInv
<1>1. CASE BeginTx(r)
  BY <1>0, <1>1 DEF BeginTx, Progress, At, TypeOK
<1>2. CASE UpsertRace(r)
  <2>1. tx[r] \in {NoRow, Whole(r)}
    BY <1>0, <1>2 DEF UpsertRace, Progress, At
  <2>2. Partial([stored |-> TRUE, results |-> tx[r].results], r, DOMAIN Results[r])
    BY <2>1, RaceRowPartial
  <2>3. /\ tx'[r] = [stored |-> TRUE, results |-> tx[r].results]
        /\ todo'[r] = DOMAIN Results[r] /\ pc'[r] = "entries"
        /\ db' = db /\ logged' = logged
    BY <1>0, <1>2 DEF UpsertRace, TypeOK
  <2>4. Partial(tx'[r], r, todo'[r])
    BY <2>2, <2>3
  <2> QED BY <1>0, <2>3, <2>4 DEF Progress, At, Partial
<1>3. ASSUME NEW p \in Players, UpsertEntry(r, p) PROVE Progress(r)'
  <2>1. p \in todo[r] /\ IsRows(tx[r]) /\ Partial(tx[r], r, todo[r])
    BY <1>0, <1>3 DEF UpsertEntry, Progress, At, TypeOK
  <2>2. Partial(Written(r, p), r, todo[r] \ {p})
    BY <2>1, EntryPartial
  <2>3. /\ tx'[r] = Written(r, p) /\ todo'[r] = todo[r] \ {p}
        /\ pc'[r] = "entries" /\ db' = db /\ logged' = logged
    BY <1>0, <1>3 DEF UpsertEntry, Committed, At, TypeOK
  <2>4. Partial(tx'[r], r, todo'[r])
    BY <2>2, <2>3
  <2> QED BY <1>0, <2>3, <2>4 DEF Progress, At, Partial
<1>4. CASE EntriesDone(r)
  <2>1. IsRows(tx[r]) /\ Partial(tx[r], r, {})
    BY <1>0, <1>4 DEF EntriesDone, Progress, At, TypeOK
  <2>2. tx[r] = Whole(r)
    BY <2>1, PartialWhole
  <2> QED BY <1>0, <1>4, <2>2 DEF EntriesDone, Progress, At, TypeOK
<1>5. CASE Commit(r)
  BY <1>0, <1>5 DEF Commit, Progress, At, TypeOK
<1>6. CASE CallRefused(r) \/ StatementFails(r)
  <2>1. CallFails(r) /\ db' = db
    BY <1>6 DEF CallRefused, StatementFails
  <2> QED BY <1>0, <2>1, CallFailsStops DEF Progress, At
<1>7. CASE CommitUnacknowledged(r)
  <2>1. CallFails(r) /\ db'[r] = tx[r] /\ tx[r] = Whole(r)
    BY <1>0, <1>7 DEF CommitUnacknowledged, Progress, At, TypeOK
  <2> QED BY <1>0, <2>1, CallFailsStops DEF Progress, At
<1>8. CASE Retry(r) \/ Abandon(r)
  BY <1>0, <1>8 DEF Retry, Abandon, Progress, At, TypeOK
<1>9. ASSUME NEW s \in Races, s # r,
             Persist(s) \/ StatementFails(s) \/ CommitUnacknowledged(s)
      PROVE  Progress(r)'
  BY <1>0, <1>9, OthersKept, ProgressKept DEF Others
<1>10. CASE Cancel \/ UNCHANGED vars
  BY <1>0, <1>10, ProgressKept DEF Cancel, writer, vars
<1>11. CASE Exit
  BY <1>0, <1>11 DEF Exit, Progress, At
<1> QED
  BY <1>1, <1>2, <1>3, <1>4, <1>5, <1>6, <1>7, <1>8, <1>9, <1>10, <1>11 DEF Next, Persist

LEMMA InvHolds == Spec => []Inv
<1>1. Inv /\ [Next]_vars => Inv'
  BY TypeStep, ProgressStep DEF Inv
<1> QED BY InvInit, <1>1, PTL DEF Spec

(* A commit writes what a commit of that race would have written before.   *)
LEMMA StoredStep ==
  ASSUME Inv, [Next]_vars, NEW r \in Races, db[r].stored
  PROVE  db'[r] = db[r]
<1>1. db'[r] = db[r] \/ (db'[r] = tx[r] /\ At(r, "commit"))
  <2>1. TypeOK
    BY DEF Inv
  <2>2. ASSUME NEW s \in Races, Commit(s) \/ CommitUnacknowledged(s)
        PROVE  db'[r] = db[r] \/ (db'[r] = tx[r] /\ At(r, "commit"))
    BY <2>1, <2>2 DEF Commit, CommitUnacknowledged, TypeOK
  <2>3. ASSUME NEW s \in Races,
               \/ BeginTx(s) \/ UpsertRace(s) \/ EntriesDone(s) \/ CallRefused(s) \/ Retry(s)
               \/ Abandon(s) \/ StatementFails(s) \/ \E p \in Players : UpsertEntry(s, p)
        PROVE  db' = db
    BY <2>3 DEF BeginTx, UpsertRace, EntriesDone, CallRefused, Retry, Abandon, StatementFails,
       UpsertEntry, Committed
  <2>4. CASE Cancel \/ Exit \/ UNCHANGED vars
    BY <2>4 DEF Cancel, Exit, vars
  <2> QED BY <2>2, <2>3, <2>4 DEF Next, Persist
<1>2. db[r] = Whole(r) /\ (At(r, "commit") => tx[r] = Whole(r))
  BY RowsOfRace DEF Inv, ProgressInv, Progress
<1> QED BY <1>1, <1>2

-----------------------------------------------------------------------------
(* The theorems.                                                           *)

(* Every variable keeps its type.                                          *)
THEOREM TypeCorrect == Spec => []TypeOK
<1>1. Inv => TypeOK
  BY DEF Inv
<1> QED BY <1>1, InvHolds, PTL

(* PersistRaceFinish stores all results of a race or none.                 *)
THEOREM AllOrNothingHolds == Spec => []AllOrNothing
<1>1. Inv => AllOrNothing
  BY DEF Inv, ProgressInv, Progress, AllOrNothing, Whole
<1> QED BY <1>1, InvHolds, PTL

(* What is logged as persisted is in the database.                         *)
THEOREM LoggedOkIsStoredHolds == Spec => []LoggedOkIsStored
<1>1. Inv => LoggedOkIsStored
  <2> SUFFICES ASSUME Inv, NEW r \in Races, logged[r] = "ok" PROVE db[r].stored
    BY DEF LoggedOkIsStored
  <2>1. db[r] = Whole(r)
    BY DEF Inv, ProgressInv, Progress
  <2> QED BY <2>1 DEF Whole
<1> QED BY <1>1, InvHolds, PTL

(* No retry, failure or crash changes what was committed.                  *)
THEOREM StoredStaysHolds == Spec => StoredStays
<1>1. Inv /\ [Next]_vars => [\A r \in Races : db[r].stored => db'[r] = db[r]]_vars
  BY StoredStep
<1> QED BY <1>1, InvHolds, PTL DEF Spec, StoredStays

-----------------------------------------------------------------------------
(* Retries.  A race that waits, or is in its second attempt, has met a     *)
(* failure; one that gave up has met two, unless it was cancelled.         *)
Failures(r) ==
  Valid(r) /\ ~cancelled =>
    /\ pc[r] = "wait" \/ attempt[r] = 2 => faults[r] >= 1
    /\ pc[r] = "returned" /\ logged[r] # "ok" => faults[r] >= 2

FailuresInv == \A r \in Races : Failures(r)

(* The steps of one race leave alone what Failures says of the others.     *)
LEMMA FailuresKept ==
  ASSUME TypeOK, NEW r \in Races, NEW s \in Races, s # r, Failures(r),
         Persist(s) \/ StatementFails(s) \/ CommitUnacknowledged(s)
  PROVE  Failures(r)'
<1>1. UNCHANGED <<pc[r], logged[r], cancelled>>
  BY OthersKept DEF Others, Persist, BeginTx, UpsertRace, UpsertEntry, EntriesDone, Commit, CallRefused,
     StatementFails, CommitUnacknowledged, CallFails, Retry, Abandon
<1>2. UNCHANGED <<attempt[r], faults[r]>>
  BY DEF Persist, BeginTx, UpsertRace, UpsertEntry, EntriesDone, Commit, CallRefused, StatementFails,
     CommitUnacknowledged, CallFails, Retry, Abandon, TypeOK
<1> QED BY <1>1, <1>2 DEF Failures, Valid

LEMMA FailuresStep == TypeOK /\ FailuresInv /\ [Next]_vars => FailuresInv'
<1> SUFFICES ASSUME TypeOK, FailuresInv, [Next]_vars, NEW r \in Races PROVE Failures(r)'
  BY DEF FailuresInv
<1>0. Failures(r) /\ faults[r] \in Nat /\ attempt[r] \in 1..2
  BY ResultsAssumption DEF FailuresInv, TypeOK
<1>1. CASE BeginTx(r) \/ UpsertRace(r) \/ EntriesDone(r) \/ \E p \in Players : UpsertEntry(r, p)
  <2>1. /\ pc'[r] \in {"race", "entries", "commit"}
        /\ UNCHANGED <<attempt, logged, faults, cancelled>>
    BY <1>1 DEF BeginTx, UpsertRace, EntriesDone, UpsertEntry, At, TypeOK
  <2> QED BY <1>0, <2>1 DEF Failures, Valid
<1>2. CASE Commit(r)
  <2>1. pc'[r] = "returned" /\ logged'[r] = "ok" /\ UNCHANGED <<attempt, faults, cancelled>>
    BY <1>2 DEF Commit, TypeOK
  <2> QED BY <1>0, <2>1 DEF Failures, Valid
<1>3. CASE CallRefused(r)
  <2>1. ~Valid(r) \/ cancelled
    BY <1>3 DEF CallRefused, Refused, AcceptsRace
  <2> QED BY <1>3, <2>1 DEF CallRefused, CallFails, Failures, Valid
<1>4. CASE StatementFails(r) \/ CommitUnacknowledged(r)
  <2>1. /\ faults'[r] = faults[r] + 1 /\ UNCHANGED <<attempt, cancelled>>
        /\ pc[r] \in {"begin", "race", "entries", "commit"}
        /\ pc'[r] = IF attempt[r] = 1 THEN "wait" ELSE "returned"
    BY <1>4 DEF StatementFails, CommitUnacknowledged, CallFails, AfterError, At, TypeOK
  <2> QED BY <1>0, <2>1 DEF Failures, Valid
<1>5. CASE Retry(r)
  <2>1. pc[r] = "wait" /\ pc'[r] = "begin" /\ UNCHANGED <<logged, faults, cancelled>>
    BY <1>5 DEF Retry, At, TypeOK
  <2> QED BY <1>0, <2>1 DEF Failures, Valid
<1>6. CASE Abandon(r)
  BY <1>6 DEF Abandon, Failures
<1>7. ASSUME NEW s \in Races, s # r, Persist(s) \/ StatementFails(s) \/ CommitUnacknowledged(s)
      PROVE  Failures(r)'
  BY <1>0, <1>7, FailuresKept
<1>8. CASE Cancel
  BY <1>8 DEF Cancel, Failures
<1>9. CASE Exit \/ UNCHANGED vars
  BY <1>0, <1>9 DEF Exit, vars, writer, Failures, Valid
<1> QED BY <1>1, <1>2, <1>3, <1>4, <1>5, <1>6, <1>7, <1>8, <1>9 DEF Next, Persist

LEMMA FailuresSuffice == TypeOK /\ FailuresInv => OneFailureMadeUpFor
<1> SUFFICES ASSUME TypeOK, FailuresInv, NEW r \in Races,
                    pc[r] = "returned", faults[r] <= 1, ~cancelled, Valid(r)
             PROVE  logged[r] = "ok"
  BY DEF OneFailureMadeUpFor
<1>1. Failures(r) /\ faults[r] \in Nat
  BY ResultsAssumption DEF FailuresInv, TypeOK
<1> QED BY <1>1 DEF Failures

(* A second attempt makes up for one failure of any statement, also for a  *)
(* commit whose acknowledgement was lost (PersistWithRetry, ON CONFLICT).  *)
THEOREM OneFailureMadeUpForHolds == Spec => []OneFailureMadeUpFor
<1>1. Init => FailuresInv
  BY DEF Init, FailuresInv, Failures
<1> QED BY <1>1, FailuresStep, FailuresSuffice, TypeCorrect, PTL DEF Spec
=============================================================================
