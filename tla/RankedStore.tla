----------------------------- MODULE RankedStore -----------------------------
(***************************************************************************)
(* Ranked battles: the two battle reports of a game session (the report    *)
(* part of WriteDocuments and expireSession, src/gamesync_store.go) and    *)
(* the store that turns an agreed pair of reports into statistics and      *)
(* keeps them in a file (src/ranked_state.go).                             *)
(*                                                                         *)
(* WriteDocuments holds the publication lock from the commit of a report   *)
(* to the end of recordConsensus, so the two are one step.  A session is   *)
(* a fresh UUID with at most two seats, Sequence 1 and 2; a participant    *)
(* who leaves and returns gets a higher Sequence and can report no more.   *)
(* DisconnectCount and Rank are never written and are left out.            *)
(***************************************************************************)
EXTENDS Integers, FiniteSets

CONSTANTS
    Player,          (* NPLN users                                         *)
    Session,         (* game sessions: one battle each                     *)
    Competition,     (* ranked competition ids                             *)
    Outcome,         (* the result maps clients may report                 *)
    NoReport,        (* the report document does not exist                 *)
    InitialRating,   (* rankedInitialRating, 1500                          *)
    RatingStep,      (* rankedRatingStep, 30                               *)
    PointStep        (* rankedPointStep, 1                                 *)

ASSUME RatingAssumption ==
    /\ InitialRating \in Nat \ {0} /\ RatingStep \in Nat \ {0} /\ PointStep \in Nat
ASSUME OutcomeAssumption ==
    Outcome \subseteq [1..2 -> 0..3] /\ NoReport \notin [competition : Competition, result : Outcome]

VARIABLES
    seats,           (* the players of each session opened so far          *)
    present,         (* the seats whose gamesync session is alive          *)
    report,          (* the report document of each seat                   *)
    participants,    (* (competition, player) -> statistics, in memory     *)
    processed,       (* (competition, session) pairs applied, in memory    *)
    disk             (* what the last completed rename left in the file    *)

battles == <<seats, present, report>>
store   == <<participants, processed>>
vars    == <<battles, store, disk>>

Lose == 0  Win == 1  Draw == 2  NoContest == 3

Stats == [matches : Nat, wins : Nat, losses : Nat, draws : Nat, noContests : Nat,
          winStreak : Nat, loseStreak : Nat, rating : Nat, point : Nat, maxPoint : Nat]

defaultRankedStats ==
    [matches |-> 0, wins |-> 0, losses |-> 0, draws |-> 0, noContests |-> 0,
     winStreak |-> 0, loseStreak |-> 0, rating |-> InitialRating, point |-> 0, maxPoint |-> 0]

Report == [competition : Competition, result : Outcome]
Seating == {p \in [1..2 -> Player] : p[1] # p[2]}
Opened == DOMAIN seats
PartialMap(S, T) == UNION {[D -> T] : D \in SUBSET S}

(* A file or a memory image: PartialMap spelled out, for the provers. *)
IsImage(ps, done) ==
    /\ DOMAIN ps \subseteq Competition \X Player
    /\ ps \in [DOMAIN ps -> Stats]
    /\ done \subseteq Competition \X Opened

TypeOK ==
    /\ Opened \subseteq Session
    /\ seats \in [Opened -> Seating]
    /\ present \in [Session -> SUBSET (1..2)]
    /\ report \in [Session -> [1..2 -> Report \cup {NoReport}]]
    /\ IsImage(participants, processed)
    /\ IsImage(disk.participants, disk.processed)

Init ==
    /\ seats = [s \in {} |-> NoReport]
    /\ present = [s \in Session |-> {}]
    /\ report = [s \in Session |-> [i \in 1..2 |-> NoReport]]
    /\ participants = [k \in {} |-> defaultRankedStats]
    /\ processed = {}
    /\ disk = [participants |-> participants, processed |-> processed]

-----------------------------------------------------------------------------
(* Ratings and points are floored at zero. *)
Minus(a, b) == IF a < b THEN 0 ELSE a - b
Larger(a, b) == IF a < b THEN b ELSE a

Lost(st) ==
    [st EXCEPT !.losses = @ + 1, !.loseStreak = @ + 1, !.winStreak = 0,
               !.rating = Minus(@, RatingStep), !.point = Minus(@, PointStep)]

Won(st) ==
    [st EXCEPT !.wins = @ + 1, !.winStreak = @ + 1, !.loseStreak = 0,
               !.rating = @ + RatingStep, !.point = @ + PointStep,
               !.maxPoint = Larger(@, st.point + PointStep)]

Drawn(st) == [st EXCEPT !.draws = @ + 1, !.winStreak = 0, !.loseStreak = 0]

NotContested(st) == [st EXCEPT !.noContests = @ + 1, !.winStreak = 0, !.loseStreak = 0]

(* A rating of zero stands for "no statistics yet" and starts afresh. *)
Started(st) == IF st.rating = 0 THEN defaultRankedStats ELSE st

applyRankedResult(stats, r) ==
    LET st == [Started(stats) EXCEPT !.matches = @ + 1] IN
    IF r = Lose THEN Lost(st)
    ELSE IF r = Win THEN Won(st)
    ELSE IF r = Draw THEN Drawn(st)
    ELSE NotContested(st)

ValidPair(r) ==
    \/ {r[1], r[2]} = {Lose, Win}
    \/ r[1] = r[2] /\ r[1] \in {Draw, NoContest}

StatsOf(k) == IF k \in DOMAIN participants THEN participants[k] ELSE defaultRankedStats

(* Mutant: the reports need only agree on the first seat's result. *)
AgreedOnFirst(reports) ==
    /\ \A i \in 1..2 : reports[i] # NoReport
    /\ reports[1].competition = reports[2].competition
    /\ reports[1].result[1] = reports[2].result[1]

(* matchingRankedReports: both documents exist and say the same. *)
Agreed(reports) == reports[1] # NoReport /\ reports[1] = reports[2]

(* Mutant: the file is written before the session is marked as processed. *)
PersistBeforeMark ==
    \/ disk' = [participants |-> participants', processed |-> processed]
    \/ UNCHANGED disk

(* persistLocked: a temporary file renamed over the old one.  A failure is *)
(* only logged; the next battle writes everything again.                   *)
Persist ==
    \/ disk' = [participants |-> participants', processed |-> processed']
    \/ UNCHANGED disk

(* recordConsensus, called with the reports this write has just committed. *)
RecordConsensus(s, reports) ==
    LET c == reports[1].competition
        r == reports[1].result
        key(i) == <<c, seats[s][i]>>
    IN  IF /\ Agreed(reports) /\ ValidPair(r)
           /\ present[s] = 1..2
           /\ <<c, s>> \notin processed
        THEN /\ participants' =
                  [k \in DOMAIN participants \cup {key(1), key(2)} |->
                     IF k = key(1) THEN applyRankedResult(StatsOf(k), r[1])
                     ELSE IF k = key(2) THEN applyRankedResult(StatsOf(k), r[2])
                     ELSE participants[k]]
             /\ processed' = processed \cup {<<c, s>>}
             /\ Persist
        ELSE UNCHANGED <<store, disk>>

-----------------------------------------------------------------------------
(* Two matched players have joined a new session as Sequence 1 and 2. *)
Open(s, p) ==
    /\ s \notin Opened
    /\ seats' = [x \in Opened \cup {s} |-> IF x = s THEN p ELSE seats[x]]
    /\ present' = [present EXCEPT ![s] = 1..2]
    /\ UNCHANGED <<report, store, disk>>

(* WriteDocuments with an update of one's own report document. *)
WriteReport(s, i, r) ==
    /\ i \in present[s]
    /\ report' = [report EXCEPT ![s][i] = r]
    /\ RecordConsensus(s, report'[s])
    /\ UNCHANGED <<seats, present>>

(* WriteDocuments with a delete of one's own report document. *)
DeleteReport(s, i) ==
    /\ i \in present[s]
    /\ report[s][i] # NoReport
    /\ report' = [report EXCEPT ![s][i] = NoReport]
    /\ UNCHANGED <<seats, present, store, disk>>

(* Mutant: the report of a departed player is kept. *)
LeaveKeepsReport(s, i) ==
    /\ i \in present[s]
    /\ present' = [present EXCEPT ![s] = @ \ {i}]
    /\ UNCHANGED <<seats, report, store, disk>>

(* expireSession: the participant goes, and the documents he owns. *)
Leave(s, i) ==
    /\ i \in present[s]
    /\ present' = [present EXCEPT ![s] = @ \ {i}]
    /\ report' = [report EXCEPT ![s][i] = NoReport]
    /\ UNCHANGED <<seats, store, disk>>

(* The process dies and newRankedStore reads the file back; every game     *)
(* session was in memory.                                                  *)
Restart ==
    /\ participants' = disk.participants
    /\ processed' = disk.processed
    /\ present' = [s \in Session |-> {}]
    /\ report' = [s \in Session |-> [i \in 1..2 |-> NoReport]]
    /\ UNCHANGED <<seats, disk>>

Next ==
    \/ \E s \in Session, p \in Seating : Open(s, p)
    \/ \E s \in Session, i \in 1..2, r \in Report : WriteReport(s, i, r)
    \/ \E s \in Session, i \in 1..2 : DeleteReport(s, i) \/ Leave(s, i)
    \/ Restart

Spec == Init /\ [][Next]_vars

-----------------------------------------------------------------------------
(* SAFETY *)

BattlesOf(k, done) ==
    {s \in Opened : <<k[1], s>> \in done /\ k[2] \in {seats[s][1], seats[s][2]}}

CountsBattles(ps, done) ==
    /\ \A k \in DOMAIN ps : ps[k].matches = Cardinality(BattlesOf(k, done))
    /\ \A b \in done : \A i \in 1..2 : <<b[1], seats[b[2]][i]>> \in DOMAIN ps

(* Every battle is applied exactly once to each of its two players: in     *)
(* memory and in the file, the match count of a participant is the number  *)
(* of processed battles he played, whatever was reported again, failed to  *)
(* be written or was lost in a restart ("recordConsensus applies a battle  *)
(* exactly once").                                                         *)
EachBattleCountedOnce ==
    CountsBattles(participants, processed) /\ CountsBattles(disk.participants, disk.processed)

StatsAddUp(st) ==
    /\ st.matches = st.wins + st.losses + st.draws + st.noContests
    /\ st.winStreak = 0 \/ st.loseStreak = 0
    /\ st.winStreak <= st.wins /\ st.loseStreak <= st.losses
    /\ st.point <= st.maxPoint /\ st.maxPoint <= PointStep * st.wins

(* The counters of a participant fit together: battles split into wins,    *)
(* losses, draws and no-contests, at most one streak runs, and points are  *)
(* covered by wins (applyRankedResult, with its floors and its reset).     *)
CountersAddUp ==
    /\ \A k \in DOMAIN participants : StatsAddUp(participants[k])
    /\ \A k \in DOMAIN disk.participants : StatsAddUp(disk.participants[k])

NewlyRecordedAgreed ==
    \A b \in processed' \ processed :
         LET rs == report'[b[2]] IN
         /\ present[b[2]] = 1..2
         /\ \A i \in 1..2 : rs[i] \in Report /\ rs[i].competition = b[1]
         /\ rs[1].result = rs[2].result /\ ValidPair(rs[1].result)

(* A battle is entered only on the word of both its players, who are both  *)
(* still there and have reported the same consistent result.               *)
RecordedOnAgreement ==
    [][NewlyRecordedAgreed]_vars

(* A report somebody could still be judged by belongs to a player who is   *)
(* there: who leaves takes his report with him.                            *)
ReportsOfPresent ==
    \A s \in Session, i \in 1..2 : report[s][i] # NoReport => i \in present[s]
=============================================================================
