--------------------------- MODULE ResultsWriter ---------------------------
(***************************************************************************)
(* The OnFinish callback of cmd/game-server/main.go and the writer behind  *)
(* it (internal/results/writer.go): the results of a finished race are     *)
(* written in one transaction, with one retry, by the goroutine of the     *)
(* race.  The readers of the API see what is committed.                    *)
(*                                                                         *)
(* One step is one SQL statement; the two upserts of a player are one step *)
(* as nothing can come between them but a rollback.  A statement may fail; *)
(* a commit may also fail after Postgres has carried it out.  When the     *)
(* process is told to stop its context ends, with it every further         *)
(* statement, and main returns without waiting for the writers.            *)
(***************************************************************************)
EXTENDS Naturals, FiniteSets

CONSTANTS
  Races,       \* finished races, each with a goroutine that calls the writer
  Players,
  Results,     \* the results of each race: position by player
  FaultBound   \* bound: statements that fail on one race's behalf

IsEntries(f) == DOMAIN f \subseteq Players /\ f \in [DOMAIN f -> Nat]

ASSUME ResultsAssumption ==
  /\ DOMAIN Results = Races
  /\ \A r \in Races : IsEntries(Results[r])
  /\ FaultBound \in Nat

VARIABLES
  pc,         \* where PersistWithRetry stands for each race
  attempt,    \* which call of PersistRaceFinish it is in
  todo,       \* entries the loop has still to write
  tx,         \* what the open transaction of each race has written
  db,         \* committed results by race: the races, race_players and
              \* race_results rows; a race without a row has none
  logged,     \* how the writer has reported the outcome
  faults,     \* history: statements that failed
  cancelled,  \* the context of main has ended
  up          \* the process is running

writer == <<pc, attempt, todo, tx>>
vars   == <<writer, db, logged, faults, cancelled, up>>

NoRow   == [stored |-> FALSE, results |-> [p \in {} |-> 0]]
IsRows(x) == x = [stored |-> x.stored, results |-> x.results]
             /\ x.stored \in BOOLEAN /\ IsEntries(x.results)

TypeOK ==
  /\ pc \in [Races -> {"begin", "race", "entries", "commit", "wait", "returned"}]
  /\ attempt \in [Races -> 1..2]
  /\ todo \in [Races -> SUBSET Players]
  /\ DOMAIN tx = Races /\ \A r \in Races : IsRows(tx[r])
  /\ DOMAIN db = Races /\ \A r \in Races : IsRows(db[r])
  /\ logged \in [Races -> {"nothing", "ok", "failed"}]
  /\ faults \in [Races -> 0..FaultBound]
  /\ cancelled \in BOOLEAN
  /\ up \in BOOLEAN

Init ==
  /\ pc = [r \in Races |-> "begin"] /\ attempt = [r \in Races |-> 1]
  /\ todo = [r \in Races |-> {}] /\ tx = [r \in Races |-> NoRow]
  /\ db = [r \in Races |-> NoRow]
  /\ logged = [r \in Races |-> "nothing"]
  /\ faults = [r \in Races |-> 0]
  /\ cancelled = FALSE /\ up = TRUE

-----------------------------------------------------------------------------
(* PersistRaceFinish.                                                      *)

At(r, label) == up /\ pc[r] = label

(* A request without results is refused before the transaction begins.     *)
Valid(r) == DOMAIN Results[r] # {}

BeginTx(r) ==
  /\ At(r, "begin") /\ Valid(r) /\ ~cancelled
  /\ pc' = [pc EXCEPT ![r] = "race"]
  /\ tx' = [tx EXCEPT ![r] = db[r]]
  /\ UNCHANGED <<attempt, todo, db, logged, faults, cancelled, up>>

(* The races row is inserted or updated.  The mutant only inserts, so a    *)
(* row that is there is an error.                                          *)
AcceptsRaceMutant(r) == ~tx[r].stored
AcceptsRace(r) == TRUE

UpsertRace(r) ==
  /\ At(r, "race") /\ AcceptsRace(r) /\ ~cancelled
  /\ pc' = [pc EXCEPT ![r] = "entries"]
  /\ tx' = [tx EXCEPT ![r] = [stored |-> TRUE, results |-> tx[r].results]]
  /\ todo' = [todo EXCEPT ![r] = DOMAIN Results[r]]
  /\ UNCHANGED <<attempt, db, logged, faults, cancelled, up>>

(* The loop over the entries, inside the transaction (a mutant: outside).  *)
Written(r, p) ==
  [stored |-> TRUE,
   results |-> [q \in DOMAIN tx[r].results \cup {p} |->
                  IF q = p THEN Results[r][p] ELSE tx[r].results[q]]]

CommittedMutant(r, p) == [db EXCEPT ![r] = Written(r, p)]
Committed(r, p) == db

UpsertEntry(r, p) ==
  /\ At(r, "entries") /\ p \in todo[r] /\ ~cancelled
  /\ todo' = [todo EXCEPT ![r] = @ \ {p}]
  /\ tx' = [tx EXCEPT ![r] = Written(r, p)]
  /\ db' = Committed(r, p)
  /\ UNCHANGED <<pc, attempt, logged, faults, cancelled, up>>

EntriesDone(r) ==
  /\ At(r, "entries") /\ todo[r] = {}
  /\ pc' = [pc EXCEPT ![r] = "commit"]
  /\ UNCHANGED <<attempt, todo, tx, db, logged, faults, cancelled, up>>

(* The call returns; a transaction it leaves open is rolled back.          *)
Commit(r) ==
  /\ At(r, "commit") /\ ~cancelled
  /\ db' = [db EXCEPT ![r] = tx[r]]
  /\ tx' = [tx EXCEPT ![r] = NoRow]
  /\ logged' = [logged EXCEPT ![r] = "ok"]
  /\ pc' = [pc EXCEPT ![r] = "returned"]
  /\ UNCHANGED <<attempt, todo, faults, cancelled, up>>

-----------------------------------------------------------------------------
(* PersistWithRetry.  The first error leads to a wait of one second or     *)
(* until the context ends, the second one to the log.                      *)

AfterErrorMutant(r) == "wait"
AfterError(r) == IF attempt[r] = 1 THEN "wait" ELSE "returned"

Report(r) == IF attempt[r] = 1 THEN logged[r] ELSE "failed"

CallFails(r) ==
  /\ pc' = [pc EXCEPT ![r] = AfterError(r)]
  /\ logged' = [logged EXCEPT ![r] = Report(r)]
  /\ tx' = [tx EXCEPT ![r] = NoRow]
  /\ todo' = [todo EXCEPT ![r] = {}]
  /\ UNCHANGED <<attempt, cancelled, up>>

Refused(r) ==
  \/ At(r, "begin") /\ ~Valid(r)
  \/ At(r, "race") /\ ~AcceptsRace(r)
  \/ cancelled /\ up /\ pc[r] \in {"begin", "race", "commit"}
  \/ cancelled /\ At(r, "entries") /\ todo[r] # {}

CallRefused(r) ==
  /\ Refused(r)
  /\ CallFails(r)
  /\ UNCHANGED <<db, faults>>

StatementFails(r) ==
  /\ up /\ pc[r] \in {"begin", "race", "entries", "commit"}
  /\ faults[r] < FaultBound
  /\ faults' = [faults EXCEPT ![r] = @ + 1]
  /\ CallFails(r)
  /\ UNCHANGED db

(* The commit is carried out and its acknowledgement lost.                 *)
CommitUnacknowledged(r) ==
  /\ At(r, "commit") /\ faults[r] < FaultBound
  /\ faults' = [faults EXCEPT ![r] = @ + 1]
  /\ db' = [db EXCEPT ![r] = tx[r]]
  /\ CallFails(r)

Retry(r) ==
  /\ At(r, "wait")
  /\ pc' = [pc EXCEPT ![r] = "begin"]
  /\ attempt' = [attempt EXCEPT ![r] = 2]
  /\ UNCHANGED <<todo, tx, db, logged, faults, cancelled, up>>

(* No retry, and nothing logged, when the context ends during the wait.    *)
Abandon(r) ==
  /\ At(r, "wait") /\ cancelled
  /\ pc' = [pc EXCEPT ![r] = "returned"]
  /\ UNCHANGED <<attempt, todo, tx, db, logged, faults, cancelled, up>>

Persist(r) ==
  \/ BeginTx(r) \/ UpsertRace(r) \/ (\E p \in Players : UpsertEntry(r, p)) \/ EntriesDone(r)
  \/ Commit(r) \/ CallRefused(r) \/ Retry(r) \/ Abandon(r)

-----------------------------------------------------------------------------
Cancel ==
  /\ up /\ ~cancelled
  /\ cancelled' = TRUE
  /\ UNCHANGED <<writer, db, logged, faults, up>>

(* The process ends, after a signal or without one.  What was not          *)
(* committed is rolled back by Postgres.                                   *)
Exit ==
  /\ up
  /\ up' = FALSE
  /\ tx' = [r \in Races |-> NoRow]
  /\ UNCHANGED <<pc, attempt, todo, db, logged, faults, cancelled>>

Next ==
  \/ \E r \in Races : Persist(r) \/ StatementFails(r) \/ CommitUnacknowledged(r)
  \/ Cancel \/ Exit

Spec == Init /\ [][Next]_vars

(* Fairness.  Every race persists on a goroutine of its own; statements    *)
(* return, with a result or an error.                                      *)
FairSpec == Spec /\ \A r \in Races : WF_vars(Persist(r))

-----------------------------------------------------------------------------
(* Safety.                                                                 *)

(* All or nothing: whatever fails, and whenever the process ends, a reader *)
(* finds the race with all of its results or not at all.                   *)
AllOrNothing ==
  \A r \in Races : db[r] # NoRow => db[r] = [stored |-> TRUE, results |-> Results[r]]

(* What the log calls persisted is committed, though an error says nothing *)
(* about the opposite: a lost acknowledgement may be logged as a failure.  *)
LoggedOkIsStored == \A r \in Races : logged[r] = "ok" => db[r].stored

(* One retry makes up for one failure, of any statement, the commit and    *)
(* its acknowledgement included: the second attempt meets the rows of the  *)
(* first and is no failure for that (ON CONFLICT DO UPDATE).               *)
OneFailureMadeUpFor ==
  \A r \in Races :
    pc[r] = "returned" /\ faults[r] <= 1 /\ ~cancelled /\ Valid(r) => logged[r] = "ok"

(* A committed race stays: the retry after a lost acknowledgement writes   *)
(* the same rows again, and no crash takes them away.                      *)
StoredStays ==
  [][\A r \in Races : db[r].stored => db'[r] = db[r]]_vars

-----------------------------------------------------------------------------
(* Liveness, under FairSpec.                                               *)

(* The callback returns, so the race can close Done (RaceLoop assumes it): *)
(* at most two attempts, cut short when the context ends.                  *)
CallbackReturns == \A r \in Races : <>(pc[r] = "returned" \/ ~up)
=============================================================================
