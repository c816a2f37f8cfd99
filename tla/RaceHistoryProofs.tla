------------------------- MODULE RaceHistoryProofs -------------------------
(***************************************************************************)
(* Theorems about RaceHistory, for any number of races, players, page      *)
(* sizes and failures.  The writers never see the readers, so what is      *)
(* proved of ResultsWriter holds here as well, and the readers' part adds  *)
(* to its invariant.                                                       *)
(***************************************************************************)
EXTENDS RaceHistory, ResultsWriterProofs, FiniteSetTheorems

-----------------------------------------------------------------------------
(* The writers among readers.                                              *)

LEMMA WritersStep == [SysNext]_sysvars => [Next]_vars
<1>1. Read => UNCHANGED vars
  BY DEF Read, FirstPage, NextPage, AskRace, ReadResults, DetailFails, ServeBoard
<1>2. UNCHANGED sysvars => UNCHANGED vars
  BY DEF sysvars
<1> QED BY <1>1, <1>2 DEF SysNext

LEMMA WritersInit == SysInit => Inv /\ FailuresInv
<1> SUFFICES ASSUME SysInit PROVE Inv /\ FailuresInv
  OBVIOUS
<1>1. TypeOK
  <2>1. \A r \in Races : IsRows(tx[r])
    BY RowsOfRace DEF SysInit
  <2>2. \A r \in Races : IsRows(db[r])
    BY RowsOfRace DEF SysInit, Whole
  <2>3. faults \in [Races -> 0..FaultBound]
    BY ResultsAssumption DEF SysInit
  <2>4. /\ pc \in [Races -> {"begin", "race", "entries", "commit", "wait", "returned"}]
        /\ attempt \in [Races -> 1..2] /\ todo \in [Races -> SUBSET Players]
        /\ logged \in [Races -> {"nothing", "ok", "failed"}]
    BY DEF SysInit
  <2>5. DOMAIN tx = Races /\ DOMAIN db = Races /\ cancelled \in BOOLEAN /\ up \in BOOLEAN
    BY DEF SysInit
  <2> QED BY <2>1, <2>2, <2>3, <2>4, <2>5 DEF TypeOK
<1>2. ProgressInv
  BY DEF SysInit, ProgressInv, Progress, At, Whole
<1>3. FailuresInv
  BY DEF SysInit, FailuresInv, Failures
<1> QED BY <1>1, <1>2, <1>3 DEF Inv

LEMMA WritersInv == SysSpec => [](Inv /\ FailuresInv)
<1>1. Inv /\ FailuresInv /\ [Next]_vars => (Inv /\ FailuresInv)'
  BY TypeStep, ProgressStep, FailuresStep DEF Inv
<1>2. Inv /\ FailuresInv /\ [SysNext]_sysvars => (Inv /\ FailuresInv)'
  BY <1>1, WritersStep
<1> QED BY WritersInit, <1>2, PTL DEF SysSpec

(* Readers and races that were stored before change nothing: the results   *)
(* are stored whole or not at all.                                         *)
THEOREM SysAllOrNothing == SysSpec => []AllOrNothing
<1>1. Inv => AllOrNothing
  BY DEF Inv, ProgressInv, Progress, AllOrNothing, Whole
<1> QED BY <1>1, WritersInv, PTL

(* One retry makes up for one failure of a statement or an acknowledgement.*)
THEOREM SysOneFailureMadeUpFor == SysSpec => []OneFailureMadeUpFor
<1>1. Inv /\ FailuresInv => OneFailureMadeUpFor
  BY FailuresSuffice DEF Inv
<1> QED BY <1>1, WritersInv, PTL

(* What was committed stays as it is, the old races included.              *)
THEOREM SysStoredStays == SysSpec => StoredStays
<1>1. Inv /\ [SysNext]_sysvars => [\A r \in Races : db[r].stored => db'[r] = db[r]]_vars
  BY StoredStep, WritersStep
<1> QED BY <1>1, WritersInv, PTL DEF SysSpec, StoredStays

-----------------------------------------------------------------------------
(* What readers find in the database.                                      *)

LEMMA InDatabase ==
  ASSUME Inv, NEW r \in Races
  PROVE  /\ db[r] \in {NoRow, Whole(r)}
         /\ db[r].stored => db[r] = Whole(r)
         /\ DOMAIN db[r].results \subseteq DOMAIN Results[r]
         /\ DOMAIN db[r].results # {} => db[r] = Whole(r)
<1>1. db[r] \in {NoRow, Whole(r)}
  BY DEF Inv, ProgressInv, Progress
<1>2. CASE db[r] = NoRow
  BY <1>2, RowsOfRace DEF NoRow
<1>3. CASE db[r] = Whole(r)
  BY <1>3 DEF Whole
<1> QED BY <1>1, <1>2, <1>3

(* A set of numbers has a least one.                                       *)
LEMMA NatMin ==
  ASSUME NEW T, T \subseteq Nat, T # {}
  PROVE  \E x \in T : \A y \in T : x <= y
<1> DEFINE R == OpToRel(<, Nat)
<1>1. IsWellFoundedOn(R, Nat)
  BY NatLessThanWellFounded
<1>2. ASSUME NEW x \in Nat, NEW y \in Nat, ~(<<y, x>> \in R) PROVE x <= y
  BY <1>2 DEF OpToRel
<1> HIDE DEF R
<1>3. PICK x \in T : \A y \in T : ~(<<y, x>> \in R)
  BY <1>1, WFMin
<1> QED BY <1>2, <1>3

-----------------------------------------------------------------------------
(* Types.                                                                  *)

LEMMA LimitType == ASSUME NEW limit \in Limits PROVE Clamped(limit) \in 1..MaxPage
BY HistoryAssumption DEF Clamped

(* The last rows of a page finished in one instant, which is the cursor.   *)
LEMMA CursorType ==
  ASSUME NEW T \in SUBSET Races, NEW n
  PROVE  NextCursor(T, n) \in {{}} \cup {{FinishedAt[r]} : r \in Races}
<1> SUFFICES ASSUME NextCursor(T, n) # {}
             PROVE  \E r \in Races : NextCursor(T, n) = {FinishedAt[r]}
  OBVIOUS
<1>1. \A r \in Races : FinishedAt[r] \in Nat
  BY HistoryAssumption
<1>2. PICK r \in T : FinishedAt[r] \in NextCursor(T, n)
                    /\ \A s \in T : FinishedAt[r] <= FinishedAt[s]
  BY DEF NextCursor
<1>3. \A t \in NextCursor(T, n) : t = FinishedAt[r]
  BY <1>1, <1>2 DEF NextCursor
<1> QED BY <1>2, <1>3

LEMMA RowsType ==
  ASSUME NEW p, NEW c, NEW n, NEW T \in Latest(Rows(p, c), n)
  PROVE  T \subseteq Rows(p, c) /\ T \in SUBSET Races /\ Rows(p, c) \in SUBSET Races
BY DEF Latest, Rows

Visits == [pc : {"idle", "paging", "done"}, limit : 0..MaxPage,
           cursor : {{}} \cup {{FinishedAt[r]} : r \in Races},
           pages : Seq(SUBSET Races), asOf : SUBSET Races]

LEMMA ServedType ==
  ASSUME visit \in Visits, NEW T \in SUBSET Races, NEW n \in 0..MaxPage
  PROVE  Served(T, n) \in Visits
<1>1. visit.pages \in Seq(SUBSET Races)
  BY DEF Visits
<1>2. Append(visit.pages, T) \in Seq(SUBSET Races)
  BY <1>1
<1>3. Rows(Reader, {}) \in SUBSET Races
  BY DEF Rows
<1> QED BY <1>2, <1>3, CursorType DEF Visits, Served

(* Lap times, and the best of them.                                        *)
LEMMA TimesOf ==
  ASSUME NEW d, \A r \in Races : d[r] \in {NoRow, Whole(r)}, NEW p
  PROVE  {BestLap[r][p] : r \in {r \in OnTrack : p \in DOMAIN d[r].results}} \subseteq Nat
<1> SUFFICES ASSUME NEW r \in OnTrack, p \in DOMAIN d[r].results PROVE BestLap[r][p] \in Nat
  OBVIOUS
<1>1. r \in Races /\ p \in DOMAIN Results[r]
  BY HistoryAssumption DEF NoRow, Whole
<1> QED BY <1>1, HistoryAssumption

LEMMA LapsAreTimes ==
  /\ Inv => \A p : Laps(p) \subseteq Nat
  /\ Inv' => \A p : Laps(p)' \subseteq Nat
BY TimesOf DEF Laps, Inv, ProgressInv, Progress

(* The least of some numbers.                                              *)
LEMMA LeastIs ==
  ASSUME NEW T, T \subseteq Nat, T # {}
  PROVE  LET m == CHOOSE t \in T : \A u \in T : t <= u
         IN  m \in Nat /\ m \in T /\ \A u \in T : m <= u
<1>1. \E t \in T : \A u \in T : t <= u
  BY NatMin
<1> QED BY <1>1

LEMMA BestIsLeast ==
  ASSUME Inv, NEW p \in Timed
  PROVE  Best(p) \in Nat /\ Best(p) \in Laps(p) /\ \A u \in Laps(p) : Best(p) <= u
BY LapsAreTimes, LeastIs DEF Timed, Best

(* How many entries the leaderboard has.                                   *)
LEMMA TimedFinite == IsFiniteSet(Timed) /\ Cardinality(Timed) \in Nat
<1>1. Timed \in SUBSET Players
  BY DEF Timed
<1> QED BY <1>1, HistoryAssumption, FS_Subset, FS_CardinalityType

Length == IF TopN < Cardinality(Timed) THEN TopN ELSE Cardinality(Timed)

LEMMA RankedIs ==
  ASSUME NEW o \in Ranked
  PROVE  /\ Length \in Nat /\ Length <= TopN /\ Length <= Cardinality(Timed)
         /\ o \in [1..Length -> Timed]
         /\ \A k \in 1..Length : \A j \in 1..(k - 1) : o[j] # o[k]
         /\ \A k \in 1..Length, p \in Timed :
              (\A j \in 1..k : o[j] # p) => Best(o[k]) <= Best(p)
BY TimedFinite, HistoryAssumption DEF Ranked, Length

LEMMA ListIsSeq == ASSUME NEW S, NEW n \in Nat, NEW f \in [1..n -> S] PROVE f \in Seq(S)
OBVIOUS

LEMMA SeqIsList ==
  ASSUME NEW S, NEW s \in Seq(S)
  PROVE  Len(s) \in Nat /\ DOMAIN s = 1..Len(s) /\ \A k \in 1..Len(s) : s[k] \in S
OBVIOUS

LEMMA SysTypeInit == SysInit => HistoryTypeOK
<1> SUFFICES ASSUME SysInit PROVE HistoryTypeOK
  OBVIOUS
<1>1. TypeOK
  BY WritersInit DEF Inv
<1>2. <<>> \in Seq(SUBSET Races) /\ <<>> \in Seq([player : Players, best : Nat])
  OBVIOUS
<1>3. 0 \in 0..MaxPage
  BY HistoryAssumption
<1> QED BY <1>1, <1>2, <1>3 DEF SysInit, HistoryTypeOK

LEMMA SysTypeStep == Inv /\ HistoryTypeOK /\ [SysNext]_sysvars => HistoryTypeOK'
<1> SUFFICES ASSUME Inv, HistoryTypeOK, [SysNext]_sysvars PROVE HistoryTypeOK'
  OBVIOUS
<1>0. TypeOK' /\ visit \in Visits
  BY TypeStep, WritersStep DEF HistoryTypeOK, Visits
<1>1. CASE (\E limit \in Limits : FirstPage(limit)) \/ NextPage
  <2>1. PICK n \in 0..MaxPage, T \in SUBSET Races : visit' = Served(T, n)
    <3>1. CASE \E limit \in Limits : FirstPage(limit)
      BY <3>1, LimitType, RowsType DEF FirstPage
    <3>2. CASE NextPage
      BY <3>2, <1>0, RowsType DEF NextPage, Visits
    <3> QED BY <1>1, <3>1, <3>2
  <2>2. visit' \in Visits
    BY <1>0, <2>1, ServedType
  <2>3. UNCHANGED <<detail, board>>
    BY <1>1 DEF FirstPage, NextPage
  <2> QED BY <1>0, <2>2, <2>3 DEF HistoryTypeOK, IsDetail, Visits
<1>2. ASSUME NEW r \in Asked, AskRace(r) PROVE HistoryTypeOK'
  <2>1. r \in Races /\ db[r].stored \in BOOLEAN /\ IsEntries(NoRow.results)
    BY HistoryAssumption, RowsOfRace DEF HistoryTypeOK, TypeOK, IsRows
  <2>2. Listed(r) \in BOOLEAN
    BY DEF Listed
  <2>3. IsDetail(detail')
    BY <1>2, <2>1, <2>2 DEF AskRace, IsDetail
  <2> QED BY <1>0, <1>2, <2>3 DEF HistoryTypeOK, AskRace
<1>3. CASE ReadResults \/ DetailFails
  <2>1. IsDetail(detail)
    BY <1>3 DEF HistoryTypeOK, NoDetail, ReadResults, DetailFails
  <2>2. IsEntries(db[detail.race].results)
    BY <2>1 DEF HistoryTypeOK, TypeOK, IsDetail, IsRows
  <2>3. IsDetail(detail')
    BY <1>3, <2>1, <2>2 DEF ReadResults, DetailFails, IsDetail
  <2> QED BY <1>0, <1>3, <2>3 DEF HistoryTypeOK, ReadResults, DetailFails
<1>4. CASE ServeBoard
  <2>1. PICK o \in Ranked : board' = [k \in DOMAIN o |-> [player |-> o[k], best |-> Best(o[k])]]
    BY <1>4 DEF ServeBoard
  <2>2. Length \in Nat /\ o \in [1..Length -> Timed]
    BY RankedIs
  <2>3. \A k \in 1..Length : [player |-> o[k], best |-> Best(o[k])] \in [player : Players, best : Nat]
    BY <2>2, BestIsLeast DEF Timed
  <2>4. board' \in [1..Length -> [player : Players, best : Nat]]
    BY <2>1, <2>2, <2>3
  <2>5. board' \in Seq([player : Players, best : Nat])
    BY <2>2, <2>4, ListIsSeq
  <2> QED BY <1>0, <1>4, <2>5 DEF HistoryTypeOK, ServeBoard, IsDetail
<1>5. CASE UNCHANGED readers
  BY <1>0, <1>5 DEF HistoryTypeOK, readers, IsDetail
<1> QED BY <1>1, <1>2, <1>3, <1>4, <1>5 DEF SysNext, Read, sysvars

(* Every variable keeps its type.                                          *)
THEOREM SysTypeCorrect == SysSpec => []HistoryTypeOK
BY SysTypeInit, SysTypeStep, WritersInv, PTL DEF SysSpec

-----------------------------------------------------------------------------
(* Details.  What a page lists is stored, and a race whose row was read is *)
(* stored, with all of its results, when they are read.                    *)
Stored(r) == db[r] = Whole(r)

DetailInv ==
  /\ \A i \in DOMAIN visit.pages : \A r \in visit.pages[i] : Stored(r)
  /\ detail.pc = "header" => Stored(detail.race)
  /\ DetailIsWhole

(* A statement of a writer leaves alone what is stored.                    *)
LEMMA StoredKept ==
  ASSUME Inv, [Next]_vars, NEW r \in Races, Stored(r)
  PROVE  Stored(r)'
BY StoredStep, RowsOfRace DEF Stored, Whole

(* A page lists what is stored.                                            *)
LEMMA RowsStored ==
  ASSUME Inv, NEW p, NEW c, NEW r \in Rows(p, c)
  PROVE  r \in Races /\ Stored(r) /\ p \in DOMAIN Results[r] /\ Before(r, c)
BY InDatabase DEF Rows, Stored

LEMMA StoredRows ==
  ASSUME NEW p, NEW c, NEW r \in Races, Stored(r), p \in DOMAIN Results[r], Before(r, c)
  PROVE  r \in Rows(p, c)
BY DEF Rows, Stored, Whole

(* A page of rows before the cursor c is appended.                         *)
Appends(c, n, T) ==
  /\ T \in Latest(Rows(Reader, c), n) /\ T \in SUBSET Races
  /\ visit' = Served(T, n)

LEMMA PageRead ==
  ASSUME HistoryTypeOK, (\E limit \in Limits : FirstPage(limit)) \/ NextPage
  PROVE  /\ UNCHANGED <<vars, detail, board>>
         /\ \E n \in 0..MaxPage, T \in SUBSET Races :
              IF visit.pc = "idle" THEN n >= 1 /\ Appends({}, n, T)
                                   ELSE n = visit.limit /\ visit.pc = "paging" /\ Appends(visit.cursor, n, T)
<1>1. CASE \E limit \in Limits : FirstPage(limit)
  BY <1>1, LimitType, RowsType DEF FirstPage, Appends
<1>2. CASE NextPage
  <2>1. visit.limit \in 0..MaxPage
    BY DEF HistoryTypeOK
  <2> QED BY <1>2, <2>1, RowsType DEF NextPage, Appends
<1> QED BY <1>1, <1>2

(* What the client holds after a page.                                     *)
LEMMA ServedIs ==
  ASSUME HistoryTypeOK, NEW T \in SUBSET Races, NEW n, visit' = Served(T, n)
  PROVE  /\ visit'.pages = Append(visit.pages, T)
         /\ Len(visit.pages) \in Nat /\ DOMAIN visit.pages = 1..Len(visit.pages)
         /\ DOMAIN visit'.pages = 1..(Len(visit.pages) + 1)
         /\ \A i \in DOMAIN visit.pages : visit'.pages[i] = visit.pages[i]
         /\ visit'.pages[Len(visit.pages) + 1] = T
         /\ visit'.cursor = NextCursor(T, n) /\ visit'.limit = n
         /\ visit'.pc = IF NextCursor(T, n) = {} THEN "done" ELSE "paging"
         /\ visit'.asOf = IF visit.pc = "idle" THEN Rows(Reader, {}) ELSE visit.asOf
<1>1. visit.pages \in Seq(SUBSET Races)
  BY DEF HistoryTypeOK
<1>2. visit'.pages = Append(visit.pages, T)
  BY DEF HistoryTypeOK, Served
<1>3. /\ visit'.cursor = NextCursor(T, n) /\ visit'.limit = n
      /\ visit'.pc = IF NextCursor(T, n) = {} THEN "done" ELSE "paging"
      /\ visit'.asOf = IF visit.pc = "idle" THEN Rows(Reader, {}) ELSE visit.asOf
  BY DEF HistoryTypeOK, Served
<1>4. /\ Len(visit.pages) \in Nat /\ DOMAIN visit.pages = 1..Len(visit.pages)
      /\ DOMAIN Append(visit.pages, T) = 1..(Len(visit.pages) + 1)
      /\ \A i \in 1..Len(visit.pages) : Append(visit.pages, T)[i] = visit.pages[i]
      /\ Append(visit.pages, T)[Len(visit.pages) + 1] = T
  BY <1>1
<1> QED BY <1>2, <1>3, <1>4

LEMMA DetailStep ==
  Inv /\ HistoryTypeOK /\ DetailInv /\ [SysNext]_sysvars => DetailInv'
<1> SUFFICES ASSUME Inv, HistoryTypeOK, DetailInv, [SysNext]_sysvars PROVE DetailInv'
  OBVIOUS
<1>0. visit.pages \in Seq(SUBSET Races) /\ (detail.pc = "header" => detail.race \in Races)
  BY DEF HistoryTypeOK, IsDetail, NoDetail
<1>1. CASE (\E limit \in Limits : FirstPage(limit)) \/ NextPage
  <2>1. UNCHANGED <<vars, detail, board>>
    BY <1>1, PageRead
  <2>2. PICK c \in {{}, visit.cursor}, n \in 0..MaxPage, T \in SUBSET Races : Appends(c, n, T)
    BY <1>1, PageRead
  <2>3. \A r \in T : Stored(r)
    BY <2>2, RowsType, RowsStored DEF Appends
  <2>4. \A i \in DOMAIN visit'.pages : \A r \in visit'.pages[i] : Stored(r)
    BY <2>2, <2>3, ServedIs DEF DetailInv, Appends
  <2> QED BY <2>1, <2>4 DEF DetailInv, DetailIsWhole, Stored, vars
<1>2. ASSUME NEW r \in Asked, AskRace(r) PROVE DetailInv'
  <2>1. r \in Races /\ UNCHANGED <<db, visit>>
    BY <1>2, HistoryAssumption DEF AskRace, vars
  <2>2. Listed(r) => db[r].stored
    <3>1. Listed(r) => Stored(r)
      BY DEF DetailInv, Listed
    <3> QED BY <3>1 DEF Stored, Whole
  <2>3. db[r].stored => Stored(r)
    BY <2>1, InDatabase DEF Stored
  <2> QED BY <1>2, <2>1, <2>2, <2>3 DEF DetailInv, DetailIsWhole, AskRace, Stored
<1>3. CASE ReadResults
  <2>1. db[detail.race].results = Results[detail.race]
    BY <1>3 DEF ReadResults, DetailInv, Stored, Whole
  <2>2. /\ detail'.pc = "ok" /\ detail'.race = detail.race
        /\ detail'.rows = db[detail.race].results /\ UNCHANGED <<db, visit>>
    BY <1>3 DEF ReadResults, HistoryTypeOK, IsDetail, NoDetail, vars
  <2> QED BY <2>1, <2>2 DEF DetailInv, DetailIsWhole, Stored
<1>4. CASE DetailFails
  <2>1. detail'.pc = "internal" /\ detail'.failed = TRUE /\ UNCHANGED <<db, visit>>
    BY <1>4 DEF DetailFails, HistoryTypeOK, IsDetail, NoDetail, vars
  <2> QED BY <2>1 DEF DetailInv, DetailIsWhole, Stored
<1>5. CASE ServeBoard \/ UNCHANGED sysvars
  BY <1>5 DEF ServeBoard, sysvars, readers, vars, DetailInv, DetailIsWhole, Stored
<1>6. CASE Next /\ UNCHANGED readers
  BY <1>0, <1>6, StoredKept DEF readers, DetailInv, DetailIsWhole
<1> QED BY <1>1, <1>2, <1>3, <1>4, <1>5, <1>6 DEF SysNext, Read

SysInv == Inv /\ HistoryTypeOK /\ DetailInv

LEMMA SysInvHolds == SysSpec => []SysInv
<1>1. SysInit => DetailInv
  BY DEF SysInit, DetailInv, DetailIsWhole, NoDetail
<1> QED BY <1>1, DetailStep, SysTypeCorrect, WritersInv, PTL DEF SysSpec, SysInv

(* A detail that is served is whole although a commit may come between its *)
(* two statements, and what a page listed can be opened (GetRace).         *)
THEOREM DetailIsWholeHolds == SysSpec => []DetailIsWhole
<1>1. SysInv => DetailIsWhole
  BY DEF SysInv, DetailInv
<1> QED BY <1>1, SysInvHolds, PTL

-----------------------------------------------------------------------------
(* Pages.  Between two pages the races that were there at the beginning    *)
(* are on a page or still due: before the cursor.  The cursor is not later *)
(* than what was listed, so what is due is before it.                      *)
Due(r) == visit.pc = "paging" /\ \A t \in visit.cursor : FinishedAt[r] < t

InOrder ==
  \A i, j \in DOMAIN visit.pages :
    i < j => \A r \in visit.pages[i], s \in visit.pages[j] : FinishedAt[r] > FinishedAt[s]

CursorBehind ==
  \A i \in DOMAIN visit.pages, t \in visit.cursor :
    \A r \in visit.pages[i] : t <= FinishedAt[r]

Begun ==
  \A r \in visit.asOf :
    /\ r \in Races /\ Stored(r) /\ Reader \in DOMAIN Results[r]
    /\ Alone(r) => Listed(r) \/ Due(r)

PagesInv ==
  /\ visit.pc = "idle" => visit.pages = <<>>
  /\ visit.pc = "paging" => visit.limit >= 1 /\ visit.cursor # {}
  /\ InOrder /\ CursorBehind /\ Begun

LEMMA Instants == \A r \in Races : FinishedAt[r] \in Nat
BY HistoryAssumption

(* A page that leaves something out is full.                               *)
LEMMA FullPage ==
  ASSUME NEW p, NEW c, NEW n \in Nat, NEW T \in Latest(Rows(p, c), n), NEW r \in Rows(p, c) \ T
  PROVE  Cardinality(T) = n
<1> DEFINE S == Rows(p, c)
<1>1. IsFiniteSet(S)
  BY HistoryAssumption, FS_Subset DEF Rows
<1>2. T \in SUBSET S /\ T # S
  BY DEF Latest
<1>3. Cardinality(T) # Cardinality(S)
  BY <1>1, <1>2, FS_Subset
<1> QED BY <1>3 DEF Latest

LEMMA CursorIs ==
  ASSUME NEW T \in SUBSET Races, NEW n, NEW t \in NextCursor(T, n)
  PROVE  (\E s \in T : t = FinishedAt[s]) /\ \A r \in T : t <= FinishedAt[r]
BY DEF NextCursor

LEMMA CursorOfFullPage ==
  ASSUME NEW T \in SUBSET Races, T # {}
  PROVE  NextCursor(T, Cardinality(T)) # {}
<1> DEFINE Times == {FinishedAt[r] : r \in T}
<1>1. Times \subseteq Nat /\ Times # {}
  BY Instants
<1>2. PICK t \in Times : \A u \in Times : t <= u
  BY <1>1, NatMin
<1>3. PICK s \in T : t = FinishedAt[s]
  OBVIOUS
<1>4. \A r \in T : FinishedAt[s] <= FinishedAt[r]
  BY <1>2, <1>3
<1> QED BY <1>4 DEF NextCursor

(* A row that is due, and shares its instant with no other of the player,  *)
(* is on the page or still due after it.                                   *)
LEMMA ListedOrDue ==
  ASSUME Inv, NEW c, NEW n \in Nat, n >= 1, NEW T \in Latest(Rows(Reader, c), n),
         NEW r \in Rows(Reader, c), r \notin T, Alone(r)
  PROVE  NextCursor(T, n) # {} /\ \A t \in NextCursor(T, n) : FinishedAt[r] < t
<1>1. T \in SUBSET Races /\ T \subseteq Rows(Reader, c) /\ r \in Races
  BY RowsType
<1>2. Cardinality(T) = n
  BY FullPage
<1>3. T # {}
  BY <1>2, FS_EmptySet
<1>4. NextCursor(T, n) # {}
  BY <1>1, <1>2, <1>3, CursorOfFullPage
<1>5. ASSUME NEW s \in T PROVE FinishedAt[r] < FinishedAt[s]
  <2>1. FinishedAt[s] >= FinishedAt[r]
    BY DEF Latest
  <2>2. s \in Races \ {r} /\ Reader \in DOMAIN Results[s]
    BY <1>1, RowsStored
  <2>3. FinishedAt[s] # FinishedAt[r]
    BY <2>2 DEF Alone
  <2> QED BY <1>1, <2>1, <2>2, <2>3, Instants
<1> QED BY <1>1, <1>4, <1>5, CursorIs

LEMMA PageStep ==
  ASSUME SysInv, PagesInv, (\E limit \in Limits : FirstPage(limit)) \/ NextPage
  PROVE  PagesInv'
<1>0. Inv /\ HistoryTypeOK /\ visit.pages \in Seq(SUBSET Races)
  BY DEF SysInv, HistoryTypeOK
<1>1. UNCHANGED db
  BY PageRead, <1>0 DEF vars
<1>2. PICK c \in {{}, visit.cursor}, n \in 0..MaxPage, T \in SUBSET Races :
        /\ n >= 1 /\ Appends(c, n, T)
        /\ visit.pc = "idle" => c = {}
        /\ visit.pc # "idle" => visit.pc = "paging" /\ c = visit.cursor /\ c # {}
  BY <1>0, PageRead DEF PagesInv
<1> DEFINE len == Len(visit.pages)
<1>3. /\ len \in Nat /\ DOMAIN visit.pages = 1..len /\ DOMAIN visit'.pages = 1..(len + 1)
      /\ \A i \in 1..len : visit'.pages[i] = visit.pages[i]
      /\ visit'.pages[len + 1] = T
      /\ visit'.cursor = NextCursor(T, n) /\ visit'.limit = n
      /\ visit'.pc = IF NextCursor(T, n) = {} THEN "done" ELSE "paging"
      /\ visit'.asOf = IF visit.pc = "idle" THEN Rows(Reader, {}) ELSE visit.asOf
  BY <1>0, <1>2, ServedIs DEF Appends
<1>4. T \subseteq Rows(Reader, c) /\ n \in Nat
  BY <1>2, RowsType, HistoryAssumption DEF Appends
(* The rows of the new page are before the cursor, so before all others.   *)
<1>5. ASSUME NEW i \in 1..len, NEW r \in visit.pages[i], NEW s \in T
      PROVE  FinishedAt[s] < FinishedAt[r]
  <2>1. visit.pc # "idle"
    BY <1>3, <1>5 DEF PagesInv
  <2>2. PICK t \in visit.cursor : TRUE
    BY <1>2, <2>1
  <2>3. FinishedAt[s] < t
    BY <1>0, <1>2, <1>4, <2>1, <2>2, RowsStored DEF Before
  <2>4. t <= FinishedAt[r]
    BY <1>3, <2>2 DEF PagesInv, CursorBehind
  <2>5. t \in Nat /\ r \in Races /\ s \in Races
    <3>1. visit.cursor \subseteq Nat
      BY <1>0, Instants DEF HistoryTypeOK
    <3>2. visit.pages[i] \in SUBSET Races
      BY <1>0, <1>3
    <3> QED BY <3>1, <3>2
  <2> QED BY <2>3, <2>4, <2>5, Instants
<1> HIDE DEF len
<1>6. visit'.limit >= 1 /\ (visit'.pc = "paging" => visit'.cursor # {}) /\ visit'.pc # "idle"
  BY <1>2, <1>3
<1>7. InOrder'
  <2> SUFFICES ASSUME NEW i \in 1..(len + 1), NEW j \in 1..(len + 1), i < j,
                      NEW r \in visit'.pages[i], NEW s \in visit'.pages[j]
               PROVE  FinishedAt[r] > FinishedAt[s]
    BY <1>3 DEF InOrder
  <2>1. i \in 1..len /\ visit'.pages[i] = visit.pages[i]
    BY <1>3
  <2>2. CASE j = len + 1
    <3>1. FinishedAt[s] < FinishedAt[r]
      BY <1>3, <1>5, <2>1, <2>2
    <3> QED BY <3>1
  <2>3. CASE j \in 1..len
    BY <1>3, <2>1, <2>3 DEF PagesInv, InOrder
  <2> QED BY <1>3, <2>2, <2>3
<1>8. CursorBehind'
  <2> SUFFICES ASSUME NEW i \in 1..(len + 1), NEW t \in NextCursor(T, n), NEW r \in visit'.pages[i]
               PROVE  t <= FinishedAt[r]
    BY <1>3 DEF CursorBehind
  <2>1. CASE i = len + 1
    BY <1>2, <1>3, <2>1, CursorIs
  <2>2. CASE i \in 1..len
    <3>1. PICK s \in T : t = FinishedAt[s]
      BY <1>2, CursorIs
    <3>2. r \in visit.pages[i] /\ r \in Races /\ s \in Races
      <4>1. visit.pages[i] \in SUBSET Races
        BY <1>0, <1>3, <2>2
      <4> QED BY <1>3, <2>2, <4>1
    <3>3. FinishedAt[s] < FinishedAt[r]
      BY <1>5, <2>2, <3>2
    <3> QED BY <3>1, <3>2, <3>3, Instants
  <2> QED BY <1>3, <2>1, <2>2
<1>9. Begun'
  <2> SUFFICES ASSUME NEW r \in visit'.asOf
               PROVE  /\ r \in Races /\ Stored(r)' /\ Reader \in DOMAIN Results[r]
                      /\ Alone(r) => Listed(r)' \/ Due(r)'
    BY DEF Begun, Alone
  <2>1. /\ r \in Races /\ Stored(r) /\ Reader \in DOMAIN Results[r]
        /\ Alone(r) => Listed(r) \/ r \in Rows(Reader, c)
    <3>1. CASE visit.pc = "idle"
      <4>1. r \in Rows(Reader, {}) /\ c = {}
        BY <1>2, <1>3, <3>1
      <4> QED BY <1>0, <4>1, RowsStored
    <3>2. CASE visit.pc # "idle"
      <4>1. r \in visit.asOf
        BY <1>3, <3>2
      <4>2. /\ r \in Races /\ Stored(r) /\ Reader \in DOMAIN Results[r]
            /\ Alone(r) => Listed(r) \/ Due(r)
        BY <4>1 DEF PagesInv, Begun
      <4>3. Due(r) => r \in Rows(Reader, c)
        BY <1>2, <3>2, <4>2, StoredRows DEF Due, Before
      <4> QED BY <4>2, <4>3
    <3> QED BY <3>1, <3>2
  <2>2. Stored(r)'
    BY <1>1, <2>1 DEF Stored, Whole
  <2>3. Listed(r) \/ r \in T => Listed(r)'
    <3>1. CASE Listed(r)
      BY <1>3, <3>1 DEF Listed
    <3>2. CASE r \in T
      <4>1. len + 1 \in DOMAIN visit'.pages
        BY <1>3
      <4> QED BY <1>3, <3>2, <4>1 DEF Listed
    <3> QED BY <3>1, <3>2
  <2>4. Alone(r) /\ r \in Rows(Reader, c) /\ r \notin T => Due(r)'
    <3> SUFFICES ASSUME Alone(r), r \in Rows(Reader, c), r \notin T PROVE Due(r)'
      OBVIOUS
    <3>1. NextCursor(T, n) # {} /\ \A t \in NextCursor(T, n) : FinishedAt[r] < t
      BY <1>0, <1>2, <1>4, ListedOrDue DEF Appends
    <3> QED BY <1>3, <3>1 DEF Due
  <2> QED BY <2>1, <2>2, <2>3, <2>4
<1> QED BY <1>6, <1>7, <1>8, <1>9 DEF PagesInv

LEMMA PagesStep == SysInv /\ PagesInv /\ [SysNext]_sysvars => PagesInv'
<1> SUFFICES ASSUME SysInv, PagesInv, [SysNext]_sysvars PROVE PagesInv'
  OBVIOUS
<1>1. CASE (\E limit \in Limits : FirstPage(limit)) \/ NextPage
  BY <1>1, PageStep
<1>2. CASE ~((\E limit \in Limits : FirstPage(limit)) \/ NextPage)
  <2>1. UNCHANGED visit
    BY <1>2 DEF SysNext, Read, AskRace, ReadResults, DetailFails, ServeBoard, readers, sysvars
  <2>2. \A r \in Races : Stored(r) => Stored(r)'
    BY WritersStep, StoredKept DEF SysInv
  <2>3. Begun'
    BY <2>1, <2>2 DEF PagesInv, Begun, Alone, Listed, Due
  <2> QED BY <2>1, <2>3 DEF PagesInv, InOrder, CursorBehind
<1> QED BY <1>1, <1>2

(* Reading page after page misses and repeats nothing, whatever is         *)
(* committed in between (ListByPlayer).                                    *)
THEOREM PagesPartitionHolds == SysSpec => []PagesPartition
<1>1. SysInit => PagesInv
  BY DEF SysInit, PagesInv, InOrder, CursorBehind, Begun
<1>2. PagesInv => PagesPartition
  BY DEF PagesInv, InOrder, Begun, Due, PagesPartition
<1> QED BY <1>1, <1>2, PagesStep, SysInvHolds, PTL DEF SysSpec

-----------------------------------------------------------------------------
(* The leaderboard.  Each entry is a player of its own, who has by now a   *)
(* lap at least as good, and entries are in order.                         *)
Entry(k) == board[k].player \in Timed /\ Best(board[k].player) <= board[k].best

BoardInv ==
  /\ Len(board) <= TopN
  /\ \A k \in DOMAIN board : Entry(k)
  /\ \A j, k \in DOMAIN board :
       /\ j # k => board[j].player # board[k].player
       /\ j < k => board[j].best <= board[k].best

LEMMA BoardType ==
  ASSUME SysInv
  PROVE  /\ Inv /\ Len(board) \in Nat /\ DOMAIN board = 1..Len(board)
         /\ \A k \in DOMAIN board : board[k].player \in Players /\ board[k].best \in Nat
<1>1. board \in Seq([player : Players, best : Nat])
  BY DEF SysInv, HistoryTypeOK
<1>2. /\ Len(board) \in Nat /\ DOMAIN board = 1..Len(board)
      /\ \A k \in 1..Len(board) : board[k] \in [player : Players, best : Nat]
  BY <1>1, SeqIsList
<1> QED BY <1>2 DEF SysInv

(* Laps are never lost, so the best one of a player gets no worse.         *)
LEMMA LapsKept ==
  ASSUME Inv, [SysNext]_sysvars, NEW p
  PROVE  Laps(p) \subseteq Laps(p)'
<1> SUFFICES ASSUME NEW t \in Laps(p) PROVE t \in Laps(p)'
  OBVIOUS
<1>1. PICK r \in OnTrack : p \in DOMAIN db[r].results /\ t = BestLap[r][p] /\ t # 0
  BY DEF Laps
<1>2. r \in Races /\ Stored(r)
  BY <1>1, HistoryAssumption, InDatabase DEF Stored
<1>3. db'[r] = db[r]
  BY <1>2, WritersStep, StoredKept DEF Stored, Whole
<1> QED BY <1>1, <1>3 DEF Laps

LEMMA BestKept ==
  ASSUME Inv, Inv', [SysNext]_sysvars, NEW p \in Timed
  PROVE  p \in Timed' /\ Best(p)' <= Best(p) /\ Best(p)' \in Nat
<1>1. Laps(p) \subseteq Laps(p)' /\ p \in Timed'
  BY LapsKept DEF Timed
<1>2. Best(p) \in Laps(p)
  BY BestIsLeast
<1>3. Best(p)' \in Nat /\ \A u \in Laps(p)' : Best(p)' <= u
  BY <1>1, <1>2, LapsAreTimes, LeastIs DEF Best
<1> QED BY <1>1, <1>2, <1>3

(* Of m + 1 different players one is not among the first m of a ranking.   *)
Different(f, k) == \A i, j \in 1..k : i # j => f[i] # f[j]
LeftOut(f, k, g, m) == \E i \in 1..k : \A j \in 1..m : g[j] # f[i]

LEMMA OneLeftOut ==
  ASSUME NEW m \in Nat, NEW k \in Nat, k = m + 1, NEW f, NEW g, Different(f, k)
  PROVE  LeftOut(f, k, g, m)
<1> USE DEF Different, LeftOut
<1> SUFFICES ASSUME \A i \in 1..k : \E j \in 1..m : g[j] = f[i] PROVE FALSE
  OBVIOUS
<1>1. PICK h \in [1..k -> 1..m] : \A i \in 1..k : g[h[i]] = f[i]
  <2> DEFINE h == [i \in 1..k |-> CHOOSE j \in 1..m : g[j] = f[i]]
  <2>1. \A i \in 1..k : h[i] \in 1..m /\ g[h[i]] = f[i]
    OBVIOUS
  <2> QED BY <2>1
<1>2. IsFiniteSet(1..k) /\ Cardinality(1..k) = k
  BY FS_Interval
<1>3. IsFiniteSet(1..m) /\ Cardinality(1..m) = m
  <2>1. CASE m = 0
    <3>1. 1..m = {}
      BY <2>1
    <3> QED BY <2>1, <3>1, FS_EmptySet
  <2>2. CASE m >= 1
    BY <2>2, FS_Interval
  <2> QED BY <2>1, <2>2
<1>4. Cardinality(1..m) < Cardinality(1..k)
  BY <1>2, <1>3
<1>5. \E i, j \in 1..k : i # j /\ h[i] = h[j]
  BY ONLY <1>1, <1>2, <1>3, <1>4, FS_PigeonHole
<1>6. PICK i \in 1..k, j \in 1..k : i # j /\ h[i] = h[j]
  BY <1>5
<1>7. f[i] = f[j]
  BY <1>1, <1>6
<1> QED BY <1>6, <1>7

(* Different players with a lap are no more than the leaderboard holds.    *)
LEMMA NoneLeftOut ==
  ASSUME NEW n \in Nat, NEW f \in [1..n -> Timed], Different(f, n)
  PROVE  n <= Cardinality(Timed)
<1>1. f \in Injection(1..n, Timed)
  BY DEF Injection, IsInjective, Different
<1>2. Cardinality(1..n) = n
  BY FS_Interval
<1> QED BY <1>1, <1>2, TimedFinite, FS_Injection

(* What a request that finds the players o ranked answers, compared with   *)
(* the answer before.                                                      *)
LEMMA BoardServed ==
  ASSUME SysInv, BoardInv, NEW o \in Ranked,
         board' = [k \in DOMAIN o |-> [player |-> o[k], best |-> Best(o[k])]]
  PROVE  /\ DOMAIN board' = 1..Length /\ Len(board') = Length
         /\ \A k \in 1..Length : /\ board'[k].player = o[k] /\ o[k] \in Timed
                                  /\ board'[k].best = Best(o[k])
         /\ \A k \in DOMAIN board : k \in DOMAIN board' /\ board'[k].best <= board[k].best
<1>1. /\ Length \in Nat /\ o \in [1..Length -> Timed]
      /\ \A k \in 1..Length, p \in Timed :
           (\A j \in 1..k : o[j] # p) => Best(o[k]) <= Best(p)
  BY RankedIs
<1>2. DOMAIN board' = 1..Length /\ Len(board') = Length
  BY <1>1
<1>3. ASSUME NEW k \in 1..Length
      PROVE  board'[k].player = o[k] /\ o[k] \in Timed /\ board'[k].best = Best(o[k])
  BY <1>1
<1>4. Inv /\ Len(board) \in Nat /\ DOMAIN board = 1..Len(board)
  BY BoardType
<1> DEFINE f == [k \in 1..Len(board) |-> board[k].player]
<1>5. f \in [1..Len(board) -> Timed] /\ Different(f, Len(board))
  BY <1>4 DEF BoardInv, Entry, Different
<1>6. Len(board) <= Length
  <2>1. Len(board) <= Cardinality(Timed)
    BY <1>4, <1>5, NoneLeftOut
  <2> QED BY <2>1 DEF Length, BoardInv
<1>7. ASSUME NEW k \in 1..Len(board) PROVE k \in 1..Length /\ Best(o[k]) <= board[k].best
  <2>1. k \in 1..Length
    BY <1>1, <1>4, <1>6
  <2>2. PICK e \in [1..k -> Timed] :
          /\ Different(e, k)
          /\ \A i \in 1..k : e[i] = board[i].player
    <3> DEFINE d == [i \in 1..k |-> board[i].player]
    <3>1. /\ d \in [1..k -> Timed] /\ Different(d, k)
          /\ \A i \in 1..k : d[i] = board[i].player
      BY <1>4 DEF BoardInv, Entry, Different
    <3> QED BY <3>1
  <2>3. PICK m \in Nat : k = m + 1
    <3>1. k - 1 \in Nat /\ k = (k - 1) + 1
      BY <1>4
    <3> QED BY <3>1
  <2>4. PICK i \in 1..k : \A j \in 1..m : o[j] # e[i]
    <3>1. k \in Nat
      BY <1>4
    <3>2. LeftOut(e, k, o, m)
      BY <2>2, <2>3, <3>1, OneLeftOut
    <3> QED BY <3>2 DEF LeftOut
  <2>5. Best(o[k]) <= Best(e[i])
    <3>1. CASE o[k] = e[i]
      BY <1>1, <1>4, <2>1, <3>1, BestIsLeast
    <3>2. CASE o[k] # e[i]
      <4>1. \A j \in 1..k : o[j] # e[i]
        BY <1>4, <2>3, <2>4, <3>2
      <4> QED BY <1>1, <2>1, <2>2, <4>1
    <3> QED BY <3>1, <3>2
  <2>6. Best(e[i]) <= board[i].best
    BY <1>4, <2>2 DEF BoardInv, Entry
  <2>7. board[i].best <= board[k].best
    <3>1. i \in DOMAIN board /\ k \in DOMAIN board /\ board[i].best \in Nat
      BY <1>4, BoardType
    <3> QED BY <1>4, <3>1 DEF BoardInv
  <2>8. Best(o[k]) \in Nat /\ Best(e[i]) \in Nat
    <3>1. o[k] \in Timed /\ e[i] \in Timed
      BY <1>1, <2>1, <2>2
    <3> QED BY <1>4, <3>1, BestIsLeast
  <2>9. board[i].best \in Nat /\ board[k].best \in Nat
    <3>1. i \in DOMAIN board /\ k \in DOMAIN board
      BY <1>4
    <3> QED BY <3>1, BoardType
  <2> QED BY <2>1, <2>5, <2>6, <2>7, <2>8, <2>9
<1> QED BY <1>2, <1>3, <1>4, <1>7

LEMMA BoardStep ==
  ASSUME SysInv, SysInv', BoardInv, [SysNext]_sysvars
  PROVE  /\ BoardInv'
         /\ \A k \in DOMAIN board : k \in DOMAIN board' /\ board'[k].best <= board[k].best
<1>1. CASE ServeBoard
  <2>1. PICK o \in Ranked : board' = [k \in DOMAIN o |-> [player |-> o[k], best |-> Best(o[k])]]
    BY <1>1 DEF ServeBoard
  <2>2. /\ DOMAIN board' = 1..Length /\ Len(board') = Length
        /\ \A k \in 1..Length : /\ board'[k].player = o[k] /\ o[k] \in Timed
                                 /\ board'[k].best = Best(o[k])
        /\ \A k \in DOMAIN board : k \in DOMAIN board' /\ board'[k].best <= board[k].best
    BY <2>1, BoardServed
  <2>3. /\ Length \in Nat /\ Length <= TopN
        /\ \A k \in 1..Length : \A j \in 1..(k - 1) : o[j] # o[k]
        /\ \A k \in 1..Length, p \in Timed :
             (\A j \in 1..k : o[j] # p) => Best(o[k]) <= Best(p)
    BY RankedIs
  <2>4. UNCHANGED db
    BY <1>1 DEF ServeBoard, vars
  <2>5. \A k \in DOMAIN board' : Entry(k)'
    <3> SUFFICES ASSUME NEW k \in 1..Length PROVE Entry(k)'
      BY <2>2
    <3>1. o[k] \in Timed /\ Best(o[k]) \in Nat
      BY <2>2, BestIsLeast DEF SysInv
    <3>2. \A p : Laps(p)' = Laps(p)
      BY <2>4 DEF Laps
    <3>3. o[k] \in Timed' /\ Best(o[k])' = Best(o[k])
      BY <3>1, <3>2 DEF Timed, Best
    <3>4. board'[k].player = o[k] /\ board'[k].best = Best(o[k])
      BY <2>2
    <3> QED BY <3>1, <3>3, <3>4 DEF Entry
  <2>6. \A j, k \in 1..Length : j < k => o[j] # o[k] /\ Best(o[j]) <= Best(o[k])
    <3> SUFFICES ASSUME NEW j \in 1..Length, NEW k \in 1..Length, j < k
                 PROVE  o[j] # o[k] /\ Best(o[j]) <= Best(o[k])
      OBVIOUS
    <3>1. \A i \in 1..j : o[i] # o[k]
      BY <2>3
    <3> QED BY <2>2, <2>3, <3>1
  <2>7. \A j, k \in DOMAIN board' :
          /\ j # k => board'[j].player # board'[k].player
          /\ j < k => board'[j].best <= board'[k].best
    BY <2>2, <2>3, <2>6
  <2> QED BY <2>2, <2>3, <2>5, <2>7 DEF BoardInv
<1>2. CASE ~ServeBoard
  <2>1. UNCHANGED board
    BY <1>2 DEF SysNext, Read, FirstPage, NextPage, AskRace, ReadResults, DetailFails, readers, sysvars
  <2>2. ASSUME NEW k \in DOMAIN board PROVE Entry(k)' /\ board[k].best \in Nat
    <3>1. Entry(k) /\ board[k].best \in Nat
      BY <2>2, BoardType DEF BoardInv
    <3>2. Best(board[k].player) \in Nat
      BY <3>1, BestIsLeast DEF Entry, SysInv
    <3>3. PICK p \in Timed : p = board[k].player
      BY <3>1 DEF Entry
    <3>4. Inv /\ Inv'
      BY DEF SysInv
    <3>5. p \in Timed' /\ Best(p)' <= Best(p) /\ Best(p)' \in Nat
      BY <3>4, BestKept
    <3> QED BY <2>1, <3>1, <3>2, <3>3, <3>5 DEF Entry
  <2> QED BY <2>1, <2>2 DEF BoardInv
<1> QED BY <1>1, <1>2

(* The k-th best lap of a track is never answered worse than before, and   *)
(* never missing (BestLapsByTrack).                                        *)
THEOREM BoardNeverWorseHolds == SysSpec => BoardNeverWorse
<1>1. SysInit => BoardInv
  <2> SUFFICES ASSUME SysInit PROVE BoardInv
    OBVIOUS
  <2>1. board = <<>>
    BY DEF SysInit
  <2>2. Len(board) = 0 /\ DOMAIN board = {}
    BY <2>1
  <2> QED BY <2>2, HistoryAssumption DEF BoardInv
<1>2. SysInv /\ SysInv' /\ BoardInv /\ [SysNext]_sysvars => BoardInv'
  BY BoardStep
<1>3. SysInv /\ SysInv' /\ BoardInv /\ [SysNext]_sysvars
      => [\A k \in DOMAIN board :
            k \in DOMAIN board' /\ board'[k].best <= board[k].best]_sysvars
  BY BoardStep
<1> QED BY <1>1, <1>2, <1>3, SysInvHolds, PTL DEF SysSpec, BoardNeverWorse
=============================================================================
