----------------------------- MODULE RaceHistory -----------------------------
(***************************************************************************)
(* What the API reads of the results while the game server writes them:    *)
(* the pages of a player's races and the detail of one race                *)
(* (internal/racehistory), and the leaderboard of a track                  *)
(* (internal/leaderboard).  The writers are those of ResultsWriter, their  *)
(* db is the database both programs share.                                 *)
(*                                                                         *)
(* One step is one SQL statement with the answer that follows it.  Each    *)
(* statement sees what is committed when it runs; the two statements of a  *)
(* race's detail see two states of the database.  A cursor is the pointer  *)
(* of the code, {} for nil.  The order among rows that compare equal is    *)
(* Postgres' choice.                                                       *)
(*                                                                         *)
(* Abstracted: names of tracks and players, the creation time of a row.    *)
(* Requests the handlers refuse before they reach the database (a limit    *)
(* below one, an id or a cursor that does not parse) change nothing and    *)
(* have no action.                                                         *)
(***************************************************************************)
EXTENDS ResultsWriter, Sequences

CONSTANTS
  Old,         \* races persisted before the behaviour begins
  FinishedAt,  \* races.finished_at of each race
  BestLap,     \* best_lap_ms of each player of a race, 0 for NULL
  Reader,      \* the player whose races are listed
  Limits,      \* page sizes clients ask for
  MaxPage,     \* the largest page ListByPlayer serves
  Asked,       \* races whose detail is asked for
  OnTrack,     \* races on the track whose leaderboard is read
  TopN         \* how many entries of the leaderboard are asked for

ASSUME HistoryAssumption ==
  /\ IsFiniteSet(Races) /\ IsFiniteSet(Players)
  /\ Old \subseteq {r \in Races : Valid(r)}
  /\ FinishedAt \in [Races -> Nat]
  /\ DOMAIN BestLap = Races
  /\ \A r \in Races : BestLap[r] \in [DOMAIN Results[r] -> Nat]
  /\ Reader \in Players
  /\ Limits \subseteq Nat \ {0}
  /\ MaxPage \in Nat \ {0}
  /\ Asked \subseteq Races
  /\ OnTrack \subseteq Races
  /\ TopN \in Nat \ {0}

VARIABLES
  visit,   \* a client that reads page after page of its history
  detail,  \* a request for the detail of one race, or the last one's answer
  board    \* the leaderboard that was served last, by rank

readers == <<visit, detail, board>>
sysvars == <<vars, readers>>

NoDetail == [pc |-> "idle"]
IsDetail(d) ==
  /\ d = [pc |-> d.pc, race |-> d.race, listed |-> d.listed, failed |-> d.failed, rows |-> d.rows]
  /\ d.pc \in {"header", "ok", "internal"} /\ d.race \in Races
  /\ d.listed \in BOOLEAN /\ d.failed \in BOOLEAN /\ IsEntries(d.rows)

(* Pages are of at most MaxPage races, whatever a client asks for, as      *)
(* ListByPlayer clamps the limit; docs/openapi.yaml:275-276 has it         *)
(* unclamped (README, last part).                                          *)
HistoryTypeOK ==
  /\ TypeOK
  /\ visit \in [pc : {"idle", "paging", "done"}, limit : 0..MaxPage,
                cursor : {{}} \cup {{FinishedAt[r]} : r \in Races},
                pages : Seq(SUBSET Races), asOf : SUBSET Races]
  /\ detail = NoDetail \/ IsDetail(detail)
  /\ board \in Seq([player : Players, best : Nat])

(* The old races are stored and their writers have returned.               *)
SysInit ==
  /\ pc = [r \in Races |-> IF r \in Old THEN "returned" ELSE "begin"]
  /\ attempt = [r \in Races |-> 1] /\ todo = [r \in Races |-> {}]
  /\ tx = [r \in Races |-> NoRow]
  /\ db = [r \in Races |-> IF r \in Old THEN [stored |-> TRUE, results |-> Results[r]]
                                        ELSE NoRow]
  /\ logged = [r \in Races |-> IF r \in Old THEN "ok" ELSE "nothing"]
  /\ faults = [r \in Races |-> 0] /\ cancelled = FALSE /\ up = TRUE
  /\ visit = [pc |-> "idle", limit |-> 0, cursor |-> {}, pages |-> <<>>, asOf |-> {}]
  /\ detail = NoDetail /\ board = <<>>

-----------------------------------------------------------------------------
(* ListByPlayer.                                                           *)

BeforeMutant(r, cursor) == \A t \in cursor : FinishedAt[r] <= t
Before(r, cursor) == \A t \in cursor : FinishedAt[r] < t

Rows(p, cursor) ==
  {r \in Races : db[r].stored /\ p \in DOMAIN db[r].results /\ Before(r, cursor)}

(* ORDER BY finished_at DESC LIMIT n                                       *)
Latest(S, n) ==
  {T \in SUBSET S : /\ Cardinality(T) = IF n < Cardinality(S) THEN n ELSE Cardinality(S)
                    /\ \A r \in T, s \in S \ T : FinishedAt[r] >= FinishedAt[s]}

UnclampedMutant(limit) == limit
Clamped(limit) == IF limit > MaxPage THEN MaxPage ELSE limit

(* A page that is full points to what follows its last row, though nothing *)
(* may follow.                                                             *)
NextCursor(T, n) ==
  {FinishedAt[r] : r \in {r \in T : /\ Cardinality(T) = n
                                    /\ \A s \in T : FinishedAt[r] <= FinishedAt[s]}}

Served(T, n) ==
  [visit EXCEPT !.pc = IF NextCursor(T, n) = {} THEN "done" ELSE "paging",
                !.limit = n, !.cursor = NextCursor(T, n), !.pages = Append(@, T),
                !.asOf = IF visit.pc = "idle" THEN Rows(Reader, {}) ELSE @]

FirstPage(limit) ==
  /\ visit.pc = "idle"
  /\ \E T \in Latest(Rows(Reader, {}), Clamped(limit)) : visit' = Served(T, Clamped(limit))
  /\ UNCHANGED <<vars, detail, board>>

(* The client passes the cursor back.                                      *)
NextPage ==
  /\ visit.pc = "paging"
  /\ \E T \in Latest(Rows(Reader, visit.cursor), visit.limit) : visit' = Served(T, visit.limit)
  /\ UNCHANGED <<vars, detail, board>>

-----------------------------------------------------------------------------
(* GetRace: the row of the race, then its results.                         *)

Listed(r) == \E i \in DOMAIN visit.pages : r \in visit.pages[i]

(* A race without a row is answered like a failure: the handler compares   *)
(* the error with a sentinel GetRace never returns.                        *)
AskRace(r) ==
  /\ detail.pc # "header"
  /\ detail' = [pc |-> IF db[r].stored THEN "header" ELSE "internal",
                race |-> r, listed |-> Listed(r), failed |-> FALSE, rows |-> NoRow.results]
  /\ UNCHANGED <<vars, visit, board>>

ReadResults ==
  /\ detail.pc = "header"
  /\ detail' = [detail EXCEPT !.pc = "ok", !.rows = db[detail.race].results]
  /\ UNCHANGED <<vars, visit, board>>

(* A statement of a reader fails.  A page is then asked for again.         *)
DetailFails ==
  /\ detail.pc = "header"
  /\ detail' = [detail EXCEPT !.pc = "internal", !.failed = TRUE]
  /\ UNCHANGED <<vars, visit, board>>

-----------------------------------------------------------------------------
(* BestLapsByTrack: the best lap of each player, ORDER BY best_lap_ms      *)
(* LIMIT TopN, and ranks counted in that order.                            *)

Laps(p) ==
  {BestLap[r][p] : r \in {r \in OnTrack : p \in DOMAIN db[r].results}} \ {0}

WorstMutant(p) == CHOOSE t \in Laps(p) : \A u \in Laps(p) : u <= t
Best(p) == CHOOSE t \in Laps(p) : \A u \in Laps(p) : t <= u

Timed == {p \in Players : Laps(p) # {}}

Ranked ==
  LET n == IF TopN < Cardinality(Timed) THEN TopN ELSE Cardinality(Timed)
  IN  {o \in [1..n -> Timed] :
         \A k \in 1..n :
           /\ \A j \in 1..(k - 1) : o[j] # o[k]
           /\ \A p \in Timed : (\A j \in 1..k : o[j] # p) => Best(o[k]) <= Best(p)}

ServeBoard ==
  /\ \E o \in Ranked :
        board' = [k \in DOMAIN o |-> [player |-> o[k], best |-> Best(o[k])]]
  /\ UNCHANGED <<vars, visit, detail>>

-----------------------------------------------------------------------------
Read ==
  \/ \E limit \in Limits : FirstPage(limit)
  \/ NextPage
  \/ \E r \in Asked : AskRace(r)
  \/ ReadResults \/ DetailFails \/ ServeBoard

SysNext == (Next /\ UNCHANGED readers) \/ Read

SysSpec == SysInit /\ [][SysNext]_sysvars

(* Fairness: that of the writers.  Readers come and go as they like.       *)
SysFairSpec ==
  SysSpec /\ \A r \in Races : WF_sysvars(Persist(r) /\ UNCHANGED readers)

-----------------------------------------------------------------------------
(* Safety.                                                                 *)

(* Only the races of a player that finished in one instant may be torn     *)
(* apart by a page break: the cursor names no more than the instant.       *)
Alone(r) ==
  \A s \in Races \ {r} : Reader \in DOMAIN Results[s] => FinishedAt[s] # FinishedAt[r]

(* Pages are a partition: while writers commit races between two pages,    *)
(* late ones included that finished before races already listed, a client  *)
(* that reads to the end has met each race that was there when it began    *)
(* exactly once, and no page lists a race that belongs on an earlier one   *)
(* (ListByPlayer).                                                         *)
PagesPartition ==
  /\ \A i, j \in DOMAIN visit.pages :
       i < j => \A r \in visit.pages[i], s \in visit.pages[j] : FinishedAt[r] > FinishedAt[s]
  /\ visit.pc = "done" => \A r \in visit.asOf : Alone(r) => Listed(r)

(* A detail is whole: though the race's row and its results are read by    *)
(* two statements, a detail that is served has every result, and a race    *)
(* that was on a page can be opened unless a statement fails (GetRace).    *)
DetailIsWhole ==
  /\ detail.pc = "ok" => detail.rows = Results[detail.race]
  /\ detail.pc = "internal" /\ detail.listed => detail.failed

(* The k-th best lap of a track never gets worse and never disappears,     *)
(* whatever is committed, retried or lost between two requests             *)
(* (BestLapsByTrack over the upserts of the writer).                       *)
BoardNeverWorse ==
  [][\A k \in DOMAIN board :
       k \in DOMAIN board' /\ board'[k].best <= board[k].best]_sysvars

=============================================================================
