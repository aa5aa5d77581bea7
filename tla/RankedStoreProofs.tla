-------------------------- MODULE RankedStoreProofs --------------------------
(* Theorems about RankedStore, for all players, sessions, competitions and *)
(* rating constants.                                                       *)
EXTENDS RankedStore, FiniteSetTheorems, TLAPS

LEMMA DefaultStats == defaultRankedStats \in Stats /\ StatsAddUp(defaultRankedStats)
<1>1. PointStep * 0 = 0
  BY RatingAssumption
<1> QED BY <1>1, RatingAssumption DEF defaultRankedStats, Stats, StatsAddUp

(* The branches of applyRankedResult keep the record well-typed; one field *)
(* at a time, as the provers follow it.                                    *)
LEMMA LostType == ASSUME NEW st \in Stats PROVE Lost(st) \in Stats
<1>0. /\ st.matches \in Nat /\ st.wins \in Nat /\ st.losses \in Nat /\ st.draws \in Nat
      /\ st.noContests \in Nat /\ st.winStreak \in Nat /\ st.loseStreak \in Nat
      /\ st.rating \in Nat /\ st.point \in Nat /\ st.maxPoint \in Nat
  BY DEF Stats
<1> DEFINE s1 == [st EXCEPT !.losses = st.losses + 1]
           s2 == [s1 EXCEPT !.loseStreak = st.loseStreak + 1]
           s3 == [s2 EXCEPT !.winStreak = 0]
           s4 == [s3 EXCEPT !.rating = Minus(st.rating, RatingStep)]
           s5 == [s4 EXCEPT !.point = Minus(st.point, PointStep)]
<1> HIDE DEF s1, s2, s3, s4, s5
<1>1. s1 \in Stats
  BY <1>0, RatingAssumption DEF s1, Stats
<1>2. s2 \in Stats
  BY <1>0, <1>1, RatingAssumption DEF s2, Stats
<1>3. s3 \in Stats
  BY <1>0, <1>2, RatingAssumption DEF s3, Stats
<1>4. s4 \in Stats
  BY <1>0, <1>3, RatingAssumption DEF s4, Stats, Minus, Larger
<1>5. s5 \in Stats
  BY <1>0, <1>4, RatingAssumption DEF s5, Stats, Minus, Larger
<1> QED BY <1>5 DEF Lost, s1, s2, s3, s4, s5

LEMMA WonType == ASSUME NEW st \in Stats PROVE Won(st) \in Stats
<1>0. /\ st.matches \in Nat /\ st.wins \in Nat /\ st.losses \in Nat /\ st.draws \in Nat
      /\ st.noContests \in Nat /\ st.winStreak \in Nat /\ st.loseStreak \in Nat
      /\ st.rating \in Nat /\ st.point \in Nat /\ st.maxPoint \in Nat
  BY DEF Stats
<1> DEFINE s1 == [st EXCEPT !.wins = st.wins + 1]
           s2 == [s1 EXCEPT !.winStreak = st.winStreak + 1]
           s3 == [s2 EXCEPT !.loseStreak = 0]
           s4 == [s3 EXCEPT !.rating = st.rating + RatingStep]
           s5 == [s4 EXCEPT !.point = st.point + PointStep]
           s6 == [s5 EXCEPT !.maxPoint = Larger(st.maxPoint, st.point + PointStep)]
<1> HIDE DEF s1, s2, s3, s4, s5, s6
<1>1. s1 \in Stats
  BY <1>0, RatingAssumption DEF s1, Stats
<1>2. s2 \in Stats
  BY <1>0, <1>1, RatingAssumption DEF s2, Stats
<1>3. s3 \in Stats
  BY <1>0, <1>2, RatingAssumption DEF s3, Stats
<1>4. s4 \in Stats
  BY <1>0, <1>3, RatingAssumption DEF s4, Stats
<1>5. s5 \in Stats
  BY <1>0, <1>4, RatingAssumption DEF s5, Stats
<1>6. s6 \in Stats
  BY <1>0, <1>5, RatingAssumption DEF s6, Stats, Minus, Larger
<1> QED BY <1>6 DEF Won, s1, s2, s3, s4, s5, s6

LEMMA DrawnType == ASSUME NEW st \in Stats PROVE Drawn(st) \in Stats
<1>0. /\ st.matches \in Nat /\ st.wins \in Nat /\ st.losses \in Nat /\ st.draws \in Nat
      /\ st.noContests \in Nat /\ st.winStreak \in Nat /\ st.loseStreak \in Nat
      /\ st.rating \in Nat /\ st.point \in Nat /\ st.maxPoint \in Nat
  BY DEF Stats
<1> DEFINE s1 == [st EXCEPT !.draws = st.draws + 1]
           s2 == [s1 EXCEPT !.winStreak = 0]
           s3 == [s2 EXCEPT !.loseStreak = 0]
<1> HIDE DEF s1, s2, s3
<1>1. s1 \in Stats
  BY <1>0, RatingAssumption DEF s1, Stats
<1>2. s2 \in Stats
  BY <1>0, <1>1, RatingAssumption DEF s2, Stats
<1>3. s3 \in Stats
  BY <1>0, <1>2, RatingAssumption DEF s3, Stats
<1> QED BY <1>3 DEF Drawn, s1, s2, s3

LEMMA NotContestedType == ASSUME NEW st \in Stats PROVE NotContested(st) \in Stats
<1>0. /\ st.matches \in Nat /\ st.wins \in Nat /\ st.losses \in Nat /\ st.draws \in Nat
      /\ st.noContests \in Nat /\ st.winStreak \in Nat /\ st.loseStreak \in Nat
      /\ st.rating \in Nat /\ st.point \in Nat /\ st.maxPoint \in Nat
  BY DEF Stats
<1> DEFINE s1 == [st EXCEPT !.noContests = st.noContests + 1]
           s2 == [s1 EXCEPT !.winStreak = 0]
           s3 == [s2 EXCEPT !.loseStreak = 0]
<1> HIDE DEF s1, s2, s3
<1>1. s1 \in Stats
  BY <1>0, RatingAssumption DEF s1, Stats
<1>2. s2 \in Stats
  BY <1>0, <1>1, RatingAssumption DEF s2, Stats
<1>3. s3 \in Stats
  BY <1>0, <1>2, RatingAssumption DEF s3, Stats
<1> QED BY <1>3 DEF NotContested, s1, s2, s3

LEMMA ApplyKeepsSums ==
    ASSUME NEW stats \in Stats, StatsAddUp(stats), NEW r \in 0..3
    PROVE  applyRankedResult(stats, r) \in Stats /\ StatsAddUp(applyRankedResult(stats, r))
<1> DEFINE s0 == Started(stats)
           st == [s0 EXCEPT !.matches = @ + 1]
<1>1. s0 \in Stats /\ StatsAddUp(s0)
  BY DefaultStats DEF Started
<1> HIDE DEF s0
<1>2. /\ st \in Stats /\ st.matches = s0.matches + 1
      /\ st.wins = s0.wins /\ st.losses = s0.losses /\ st.draws = s0.draws
      /\ st.noContests = s0.noContests /\ st.winStreak = s0.winStreak
      /\ st.loseStreak = s0.loseStreak /\ st.rating = s0.rating
      /\ st.point = s0.point /\ st.maxPoint = s0.maxPoint
  BY <1>1 DEF Stats
<1> HIDE DEF st
<1>3. applyRankedResult(stats, r) =
        IF r = Lose THEN Lost(st) ELSE IF r = Win THEN Won(st)
        ELSE IF r = Draw THEN Drawn(st) ELSE NotContested(st)
  BY DEF applyRankedResult, st, s0
<1>4. CASE r = Lose
  <2>1. applyRankedResult(stats, r) = Lost(st)
    BY <1>3, <1>4 DEF Lose, Win, Draw, NoContest
  <2>2. /\ Lost(st).matches = st.matches /\ Lost(st).losses = st.losses + 1
        /\ Lost(st).wins = st.wins /\ Lost(st).draws = st.draws
        /\ Lost(st).noContests = st.noContests
        /\ Lost(st).winStreak = 0 /\ Lost(st).loseStreak = st.loseStreak + 1
        /\ Lost(st).maxPoint = st.maxPoint
    BY <1>2 DEF Lost, Stats
  <2>5. Lost(st).point = Minus(st.point, PointStep)
    BY <1>2 DEF Lost, Stats
  <2>6. Lost(st) \in Stats
    BY <1>2, LostType
  <2>3. PointStep * st.wins \in Nat
    BY <1>2, RatingAssumption DEF Stats
  <2> HIDE DEF Lost
  <2>4. StatsAddUp(Lost(st))
    BY <1>1, <1>2, <2>2, <2>3, <2>5, RatingAssumption DEF StatsAddUp, Stats, Minus
  <2> QED BY <2>1, <2>6, <2>4
<1>5. CASE r = Win
  <2>1. applyRankedResult(stats, r) = Won(st)
    BY <1>3, <1>5 DEF Lose, Win, Draw, NoContest
  <2>2. /\ Won(st).matches = st.matches /\ Won(st).losses = st.losses
        /\ Won(st).wins = st.wins + 1 /\ Won(st).draws = st.draws
        /\ Won(st).noContests = st.noContests
        /\ Won(st).winStreak = st.winStreak + 1 /\ Won(st).loseStreak = 0
    BY <1>2 DEF Won, Stats
  <2>5. /\ Won(st).point = st.point + PointStep
        /\ Won(st).maxPoint = Larger(st.maxPoint, st.point + PointStep)
    BY <1>2 DEF Won, Stats
  <2>6. Won(st) \in Stats
    BY <1>2, WonType
  <2>3. PointStep * (st.wins + 1) = PointStep * st.wins + PointStep /\ PointStep * st.wins \in Nat
    BY <1>2, RatingAssumption DEF Stats
  <2>4. StatsAddUp(Won(st))
    BY <1>1, <1>2, <2>2, <2>3, <2>5, RatingAssumption DEF StatsAddUp, Stats, Larger
  <2> QED BY <2>1, <2>6, <2>4
<1>6. CASE r = Draw
  <2>1. applyRankedResult(stats, r) = Drawn(st)
    BY <1>3, <1>6 DEF Lose, Win, Draw, NoContest
  <2>2. Drawn(st) \in Stats /\ Drawn(st).draws = st.draws + 1
    BY <1>2, DrawnType DEF Drawn, Stats
  <2> QED BY <1>1, <1>2, <2>1, <2>2 DEF Drawn, Stats, StatsAddUp
<1>7. CASE r = NoContest
  <2>1. applyRankedResult(stats, r) = NotContested(st)
    BY <1>3, <1>7 DEF Lose, Win, Draw, NoContest
  <2>2. NotContested(st) \in Stats /\ NotContested(st).noContests = st.noContests + 1
    BY <1>2, NotContestedType DEF NotContested, Stats
  <2> QED BY <1>1, <1>2, <2>1, <2>2 DEF NotContested, Stats, StatsAddUp
<1> QED BY <1>4, <1>5, <1>6, <1>7 DEF Lose, Win, Draw, NoContest

-----------------------------------------------------------------------------
(* Only opened sessions have participants. *)
PresentOpened == \A s \in Session : present[s] # {} => s \in Opened

(* The file never knows of a battle that memory does not.                  *)
FileBehind == disk.processed \subseteq processed

Inv == TypeOK /\ CountersAddUp /\ ReportsOfPresent /\ PresentOpened /\ FileBehind

(* The statistics of a well-formed image all add up. *)
AddUp(ps) == \A k \in DOMAIN ps : StatsAddUp(ps[k])

(* What an accepted pair of reports does to the memory image. *)
LEMMA RecordFacts ==
    ASSUME TypeOK, AddUp(participants), AddUp(disk.participants), FileBehind,
           NEW s \in Session, NEW reports \in [1..2 -> Report \cup {NoReport}],
           RecordConsensus(s, reports), present[s] # {} => s \in Opened
    PROVE  /\ IsImage(participants', processed') /\ AddUp(participants')
           /\ IsImage(disk'.participants, disk'.processed) /\ AddUp(disk'.participants)
           /\ disk'.processed \subseteq processed'
<1> DEFINE c == reports[1].competition
           r == reports[1].result
           k1 == <<c, seats[s][1]>>
           k2 == <<c, seats[s][2]>>
<1>1. CASE UNCHANGED <<store, disk>>
  BY <1>1 DEF TypeOK, IsImage, AddUp, FileBehind, store, Opened
<1>2. CASE /\ Agreed(reports) /\ present[s] = 1..2
           /\ participants' = [k \in DOMAIN participants \cup {k1, k2} |->
                     IF k = k1 THEN applyRankedResult(StatsOf(k), r[1])
                     ELSE IF k = k2 THEN applyRankedResult(StatsOf(k), r[2])
                     ELSE participants[k]]
           /\ processed' = processed \cup {<<c, s>>}
           /\ Persist
  <2>1. reports[1] \in Report
    BY <1>2 DEF Agreed
  <2>2. c \in Competition /\ r[1] \in 0..3 /\ r[2] \in 0..3
    BY <2>1, OutcomeAssumption DEF Report
  <2>3. s \in Opened /\ seats[s][1] \in Player /\ seats[s][2] \in Player
    <3>1. s \in Opened
      BY <1>2
    <3> QED BY <3>1 DEF TypeOK, Seating
  <2>4. k1 \in Competition \X Player /\ k2 \in Competition \X Player
    BY <2>2, <2>3
  <2>5. ASSUME NEW k \in Competition \X Player
        PROVE  StatsOf(k) \in Stats /\ StatsAddUp(StatsOf(k))
    BY DefaultStats DEF StatsOf, TypeOK, IsImage, AddUp
  <2>6. /\ applyRankedResult(StatsOf(k1), r[1]) \in Stats
        /\ StatsAddUp(applyRankedResult(StatsOf(k1), r[1]))
        /\ applyRankedResult(StatsOf(k2), r[2]) \in Stats
        /\ StatsAddUp(applyRankedResult(StatsOf(k2), r[2]))
    BY <2>2, <2>4, <2>5, ApplyKeepsSums
  <2> HIDE DEF k1, k2, r
  <2>7. /\ DOMAIN participants' = DOMAIN participants \cup {k1, k2}
        /\ \A k \in DOMAIN participants' :
              participants'[k] \in Stats /\ StatsAddUp(participants'[k])
    BY <1>2, <2>6 DEF TypeOK, IsImage, AddUp
  <2>8. participants' \in [DOMAIN participants' -> Stats]
    BY <1>2, <2>7
  <2>9. IsImage(participants', processed') /\ AddUp(participants')
    <3>1. DOMAIN participants' \subseteq Competition \X Player
      BY <2>4, <2>7 DEF TypeOK, IsImage
    <3>2. processed' \subseteq Competition \X Opened
      <4>1. <<c, s>> \in Competition \X Opened
        BY <2>2, <2>3
      <4>2. processed' = processed \cup {<<c, s>>}
        BY <1>2
      <4> HIDE DEF c
      <4> QED BY <4>1, <4>2 DEF TypeOK, IsImage
    <3>3. AddUp(participants')
      BY <2>7 DEF AddUp
    <3>4. IsImage(participants', processed')
      BY <2>8, <3>1, <3>2 DEF IsImage
    <3> QED BY <3>3, <3>4
  <2>10. \/ disk' = [participants |-> participants', processed |-> processed']
         \/ disk' = disk
    BY <1>2 DEF Persist
  <2>11. CASE disk' = disk
    <3>1. disk'.participants = disk.participants /\ disk'.processed = disk.processed
      BY <2>11
    <3>2. IsImage(disk'.participants, disk'.processed)
      BY <3>1 DEF TypeOK, IsImage
    <3>3. AddUp(disk'.participants)
      BY <3>1 DEF AddUp
    <3> QED BY <1>2, <2>9, <3>1, <3>2, <3>3 DEF FileBehind
  <2>12. CASE disk' = [participants |-> participants', processed |-> processed']
    <3>1. disk'.participants = participants' /\ disk'.processed = processed'
      BY <2>12
    <3> QED BY <2>9, <3>1
  <2> QED BY <2>10, <2>11, <2>12
<1> QED BY <1>1, <1>2 DEF RecordConsensus

-----------------------------------------------------------------------------
USE DEF Opened

LEMMA InitInv == Init => Inv
<1> SUFFICES ASSUME Init PROVE Inv
  OBVIOUS
<1>1. DOMAIN seats = {} /\ DOMAIN participants = {} /\ processed = {}
  BY DEF Init
<1>2. disk.participants = participants /\ disk.processed = processed
  BY DEF Init
<1>3. IsImage(participants, processed)
  BY <1>1 DEF IsImage, Init
<1>4. IsImage(disk.participants, disk.processed)
  BY <1>2, <1>3 DEF IsImage
<1>5. TypeOK
  BY <1>1, <1>3, <1>4 DEF Init, TypeOK
<1> QED BY <1>1, <1>2, <1>5 DEF Init, Inv, CountersAddUp, ReportsOfPresent, PresentOpened, FileBehind

(* What is in the file and in memory survives a step that leaves both      *)
(* alone and closes no session.                                            *)
LEMMA StoreKept ==
    ASSUME TypeOK, CountersAddUp, UNCHANGED <<store, disk>>, DOMAIN seats \subseteq DOMAIN seats'
    PROVE  /\ IsImage(participants, processed)' /\ IsImage(disk.participants, disk.processed)'
           /\ CountersAddUp' /\ (FileBehind => FileBehind')
<1>1. participants' = participants /\ processed' = processed /\ disk' = disk
  BY DEF store
<1>2. IsImage(participants, processed)'
  BY <1>1 DEF TypeOK, IsImage
<1>3. IsImage(disk.participants, disk.processed)'
  BY <1>1 DEF TypeOK, IsImage
<1>4. CountersAddUp'
  BY <1>1 DEF CountersAddUp
<1> QED BY <1>1, <1>2, <1>3, <1>4 DEF FileBehind

LEMMA OpenInv == ASSUME Inv, NEW s \in Session, NEW p \in Seating, Open(s, p) PROVE Inv'
<1>1. /\ DOMAIN seats' = DOMAIN seats \cup {s}
      /\ seats' \in [DOMAIN seats' -> Seating]
  BY DEF Inv, TypeOK, Open
<1>2. present' \in [Session -> SUBSET (1..2)] /\ present'[s] = 1..2
  BY DEF Inv, TypeOK, Open
<1>3. \A x \in Session : present[x] \subseteq present'[x]
  BY DEF Inv, TypeOK, Open
<1>4. /\ IsImage(participants, processed)' /\ IsImage(disk.participants, disk.processed)'
      /\ CountersAddUp' /\ FileBehind'
  BY <1>1, StoreKept DEF Inv, Open
<1>5. TypeOK'
  BY <1>1, <1>2, <1>4 DEF Inv, TypeOK, Open
<1>6. ReportsOfPresent'
  BY <1>3 DEF Inv, ReportsOfPresent, Open
<1>7. PresentOpened'
  BY <1>1 DEF Inv, TypeOK, PresentOpened, Open
<1> QED BY <1>4, <1>5, <1>6, <1>7 DEF Inv

LEMMA WriteReportInv ==
    ASSUME Inv, NEW s \in Session, NEW i \in 1..2, NEW r \in Report, WriteReport(s, i, r)
    PROVE  Inv'
<1>1. /\ report' \in [Session -> [1..2 -> Report \cup {NoReport}]]
      /\ \A x \in Session, j \in 1..2 :
            report'[x][j] # report[x][j] => x = s /\ j = i
  BY DEF Inv, TypeOK, WriteReport
<1>2. AddUp(participants) /\ AddUp(disk.participants)
  BY DEF Inv, CountersAddUp, AddUp
<1>3. RecordConsensus(s, report'[s]) /\ report'[s] \in [1..2 -> Report \cup {NoReport}]
  BY <1>1 DEF WriteReport
<1>4. seats' = seats /\ present' = present
  BY DEF WriteReport
<1>5. /\ IsImage(participants', processed') /\ AddUp(participants')
      /\ IsImage(disk'.participants, disk'.processed) /\ AddUp(disk'.participants)
      /\ disk'.processed \subseteq processed'
  BY <1>2, <1>3, RecordFacts DEF Inv, PresentOpened
<1>6. IsImage(participants, processed)' /\ IsImage(disk.participants, disk.processed)'
  BY <1>4, <1>5 DEF IsImage
<1>7. TypeOK'
  BY <1>1, <1>4, <1>6 DEF Inv, TypeOK
<1>8. CountersAddUp'
  BY <1>5 DEF CountersAddUp, AddUp
<1>9. ReportsOfPresent'
  BY <1>1, <1>4 DEF Inv, ReportsOfPresent, WriteReport
<1> QED BY <1>4, <1>5, <1>7, <1>8, <1>9 DEF Inv, PresentOpened, FileBehind

LEMMA DropInv ==
    ASSUME Inv, NEW s \in Session, NEW i \in 1..2, DeleteReport(s, i) \/ Leave(s, i)
    PROVE  Inv'
<1>1. /\ report' = [report EXCEPT ![s][i] = NoReport]
      /\ present' \in {present, [present EXCEPT ![s] = @ \ {i}]}
      /\ seats' = seats /\ UNCHANGED <<store, disk>>
  BY DEF DeleteReport, Leave
<1>2. /\ IsImage(participants, processed)' /\ IsImage(disk.participants, disk.processed)'
      /\ CountersAddUp' /\ FileBehind'
  BY <1>1, StoreKept DEF Inv
<1>3. report' \in [Session -> [1..2 -> Report \cup {NoReport}]]
  BY <1>1 DEF Inv, TypeOK
<1>4. /\ present' \in [Session -> SUBSET (1..2)]
      /\ \A x \in Session : present'[x] \subseteq present[x]
      /\ \A x \in Session, j \in 1..2 :
            (x = s /\ j = i) \/ (j \in present'[x] <=> j \in present[x])
  BY <1>1 DEF Inv, TypeOK
<1>5. \A x \in Session, j \in 1..2 :
        /\ ~ (x = s /\ j = i) => report'[x][j] = report[x][j]
        /\ x = s /\ j = i => report'[x][j] = NoReport
  BY <1>1 DEF Inv, TypeOK
<1>6. TypeOK'
  BY <1>1, <1>2, <1>3, <1>4 DEF Inv, TypeOK
<1>7. ReportsOfPresent'
  BY <1>4, <1>5 DEF Inv, ReportsOfPresent
<1>8. PresentOpened'
  BY <1>1, <1>4 DEF Inv, PresentOpened
<1> QED BY <1>2, <1>6, <1>7, <1>8 DEF Inv

LEMMA RestartInv == ASSUME Inv, Restart PROVE Inv'
<1>1. /\ participants' = disk.participants /\ processed' = disk.processed
      /\ disk' = disk /\ seats' = seats
  BY DEF Restart
<1>2. IsImage(participants, processed)' /\ IsImage(disk.participants, disk.processed)'
  BY <1>1 DEF Inv, TypeOK, IsImage
<1>3. TypeOK'
  BY <1>1, <1>2 DEF Inv, TypeOK, Restart
<1>4. CountersAddUp'
  BY <1>1 DEF Inv, CountersAddUp
<1> QED BY <1>1, <1>3, <1>4 DEF Inv, ReportsOfPresent, PresentOpened, FileBehind, Restart

LEMMA StutterInv == ASSUME Inv, UNCHANGED vars PROVE Inv'
<1>1. UNCHANGED <<store, disk>> /\ UNCHANGED <<seats, present, report>>
  BY DEF vars, battles
<1>2. /\ IsImage(participants, processed)' /\ IsImage(disk.participants, disk.processed)'
      /\ CountersAddUp' /\ FileBehind'
  BY <1>1, StoreKept DEF Inv
<1> QED BY <1>1, <1>2 DEF Inv, TypeOK, ReportsOfPresent, PresentOpened

LEMMA NextInv == Inv /\ [Next]_vars => Inv'
BY OpenInv, WriteReportInv, DropInv, RestartInv, StutterInv DEF Next

(* Everything the store keeps and the file holds has its type, the         *)
(* counters add up, and reports belong to players who are there.           *)
THEOREM SpecInv == Spec => []Inv
BY InitInv, NextInv, PTL DEF Spec

(* applyRankedResult, from any statistics it can have produced and through *)
(* any number of restarts, keeps the counters of a participant in step.    *)
THEOREM CountersTheorem == Spec => []CountersAddUp
BY SpecInv, PTL DEF Inv

(* expireSession takes the report with its owner in every session.         *)
THEOREM ReportsTheorem == Spec => []ReportsOfPresent
BY SpecInv, PTL DEF Inv

-----------------------------------------------------------------------------
LEMMA StepAgreed == Inv /\ [Next]_vars => NewlyRecordedAgreed \/ UNCHANGED vars
<1> SUFFICES ASSUME Inv, [Next]_vars PROVE NewlyRecordedAgreed \/ UNCHANGED vars
  OBVIOUS
<1>1. CASE processed' \subseteq processed
  BY <1>1 DEF NewlyRecordedAgreed
<1>2. ASSUME NEW s \in Session, NEW i \in 1..2, NEW r \in Report, WriteReport(s, i, r)
      PROVE  NewlyRecordedAgreed
  <2> DEFINE rs == report'[s]
  <2>1. rs \in [1..2 -> Report \cup {NoReport}]
    BY <1>2 DEF Inv, TypeOK, WriteReport
  <2>2. CASE processed' = processed
    BY <2>2 DEF NewlyRecordedAgreed
  <2>3. CASE /\ Agreed(rs) /\ ValidPair(rs[1].result) /\ present[s] = 1..2
             /\ processed' = processed \cup {<<rs[1].competition, s>>}
    <3>1. rs[1] \in Report /\ rs[2] = rs[1]
      BY <2>1, <2>3 DEF Agreed
    <3>2. ASSUME NEW b \in processed' \ processed
          PROVE  b[1] = rs[1].competition /\ b[2] = s
      BY <2>3
    <3> HIDE DEF rs
    <3>3. ASSUME NEW b \in processed' \ processed
          PROVE  /\ present[b[2]] = 1..2
                 /\ \A j \in 1..2 : rs[j] \in Report /\ rs[j].competition = b[1]
                 /\ rs[1].result = rs[2].result /\ ValidPair(rs[1].result)
      BY <2>3, <3>1, <3>2
    <3> QED BY <3>2, <3>3 DEF NewlyRecordedAgreed, rs
  <2> QED BY <1>2, <2>2, <2>3 DEF WriteReport, RecordConsensus, store
<1>3. CASE UNCHANGED <<store, disk>>
  BY <1>3 DEF NewlyRecordedAgreed, store
<1>4. CASE Restart
  <2>1. processed' = disk.processed
    BY <1>4 DEF Restart
  <2> QED BY <1>1, <2>1 DEF Inv, FileBehind
<1> QED BY <1>2, <1>3, <1>4 DEF Next, Open, DeleteReport, Leave

(* recordConsensus counts a battle only when both players are still there  *)
(* and their two reports agree on one consistent result, even across       *)
(* restarts and repeated reports.                                          *)
THEOREM AgreementTheorem == Spec => RecordedOnAgreement
<1>1. Inv /\ [Next]_vars => [NewlyRecordedAgreed]_vars
  BY StepAgreed
<1> QED BY <1>1, SpecInv, PTL DEF Spec, RecordedOnAgreement

-----------------------------------------------------------------------------
(* A rating has fallen by at most one step per loss. *)
Rated(st) == InitialRating <= st.rating + RatingStep * st.losses

(* An image that counts every battle and has not reached rating zero       *)
(* before anybody's last battle.                                           *)
Counted(ps, done) == CountsBattles(ps, done) /\ \A k \in DOMAIN ps : Rated(ps[k])

CountInv ==
    Counted(participants, processed) /\ Counted(disk.participants, disk.processed)

LEMMA ApplyCounts ==
    ASSUME NEW stats \in Stats, Rated(stats), RatingStep * stats.losses < InitialRating,
           NEW r \in 0..3
    PROVE  /\ applyRankedResult(stats, r).matches = stats.matches + 1
           /\ Rated(applyRankedResult(stats, r))
<1> DEFINE st == [stats EXCEPT !.matches = @ + 1]
<1>1. RatingStep * stats.losses \in Nat /\ stats.rating \in Nat /\ stats.losses \in Nat
  BY RatingAssumption DEF Stats
<1>2. Started(stats) = stats
  BY <1>1, RatingAssumption DEF Started, Rated
<1>3. /\ st \in Stats /\ st.matches = stats.matches + 1
      /\ st.losses = stats.losses /\ st.rating = stats.rating
  BY DEF Stats
<1> HIDE DEF st
<1>4. applyRankedResult(stats, r) =
        IF r = Lose THEN Lost(st) ELSE IF r = Win THEN Won(st)
        ELSE IF r = Draw THEN Drawn(st) ELSE NotContested(st)
  BY <1>2 DEF applyRankedResult, st
<1>5. /\ Lost(st).matches = st.matches /\ Lost(st).losses = st.losses + 1
      /\ Lost(st).rating = Minus(st.rating, RatingStep)
  BY <1>3 DEF Lost, Stats
<1>6. /\ Won(st).matches = st.matches /\ Won(st).losses = st.losses
      /\ Won(st).rating = st.rating + RatingStep
  BY <1>3 DEF Won, Stats
<1>7. /\ Drawn(st).matches = st.matches /\ Drawn(st).losses = st.losses
      /\ Drawn(st).rating = st.rating
  BY <1>3 DEF Drawn, Stats
<1>8. /\ NotContested(st).matches = st.matches /\ NotContested(st).losses = st.losses
      /\ NotContested(st).rating = st.rating
  BY <1>3 DEF NotContested, Stats
<1>9. RatingStep * (stats.losses + 1) = RatingStep * stats.losses + RatingStep
  BY <1>1, RatingAssumption
<1>10. CASE r = Lose
  <2>1. applyRankedResult(stats, r) = Lost(st)
    BY <1>4, <1>10
  <2>2. Rated(Lost(st))
    BY <1>1, <1>3, <1>5, <1>9, RatingAssumption DEF Rated, Minus
  <2>3. QED BY <1>3, <1>5, <2>1, <2>2
<1>11. CASE r # Lose
  <2>1. applyRankedResult(stats, r) \in {Won(st), Drawn(st), NotContested(st)}
    BY <1>4, <1>11
  <2>2. Rated(Won(st)) /\ Rated(Drawn(st)) /\ Rated(NotContested(st))
    BY <1>1, <1>3, <1>6, <1>7, <1>8, RatingAssumption DEF Rated
  <2>3. QED BY <1>3, <1>6, <1>7, <1>8, <2>1, <2>2
<1>12. QED BY <1>10, <1>11

(* How many battles anybody can have lost before another one of his. *)
LEMMA LossesAreFew ==
    ASSUME IsFiniteSet(Session), RatingStep * Cardinality(Session) <= InitialRating,
           NEW B, B \subseteq Session, NEW s \in Session, s \notin B,
           NEW st \in Stats, StatsAddUp(st), st.matches = Cardinality(B)
    PROVE  /\ RatingStep * st.losses < InitialRating
           /\ IsFiniteSet(B) /\ Cardinality(B \cup {s}) = Cardinality(B) + 1
<1>1. IsFiniteSet(B) /\ Cardinality(B) \in Nat
  BY FS_Subset, FS_CardinalityType
<1>2. Cardinality(B \cup {s}) = Cardinality(B) + 1
  BY <1>1, FS_AddElement
<1>3. Cardinality(B \cup {s}) <= Cardinality(Session) /\ Cardinality(Session) \in Nat
  BY FS_Subset, FS_CardinalityType
<1>4. st.losses \in Nat /\ st.losses + 1 <= Cardinality(Session)
  BY <1>1, <1>2, <1>3 DEF StatsAddUp, Stats
<1> DEFINE n == Cardinality(Session)
           l == st.losses
<1>5. n \in Nat /\ l \in Nat /\ l + 1 <= n
  BY <1>3, <1>4
<1> HIDE DEF n, l
<1>6. PICK d \in Nat : n = l + 1 + d
  <2>1. n - l - 1 \in Nat /\ n = l + 1 + (n - l - 1)
    BY <1>5
  <2>2. QED BY <2>1
<1>7. RatingStep * n = RatingStep * l + RatingStep + RatingStep * d
      /\ RatingStep * d \in Nat /\ RatingStep * l \in Nat
  BY <1>5, <1>6, RatingAssumption
<1>8. RatingStep * l < InitialRating
  BY <1>7, RatingAssumption DEF n
<1>9. QED BY <1>1, <1>2, <1>8 DEF l

(* A battle that was processed counts for its two players and nobody else. *)
LEMMA RecordCounts ==
    ASSUME IsFiniteSet(Session), RatingStep * Cardinality(Session) <= InitialRating,
           Inv, CountInv, UNCHANGED seats,
           NEW s \in Session, NEW reports \in [1..2 -> Report \cup {NoReport}],
           RecordConsensus(s, reports)
    PROVE  CountInv'
<1> DEFINE c == reports[1].competition
           r == reports[1].result
           k1 == <<c, seats[s][1]>>
           k2 == <<c, seats[s][2]>>
<1>1. CASE UNCHANGED <<store, disk>>
  BY <1>1 DEF CountInv, Counted, CountsBattles, BattlesOf, store
<1>2. CASE /\ Agreed(reports) /\ present[s] = 1..2 /\ <<c, s>> \notin processed
           /\ participants' = [k \in DOMAIN participants \cup {k1, k2} |->
                     IF k = k1 THEN applyRankedResult(StatsOf(k), r[1])
                     ELSE IF k = k2 THEN applyRankedResult(StatsOf(k), r[2])
                     ELSE participants[k]]
           /\ processed' = processed \cup {<<c, s>>}
           /\ Persist
  <2>1. c \in Competition /\ r[1] \in 0..3 /\ r[2] \in 0..3
    <3>1. reports[1] \in Report
      BY <1>2 DEF Agreed
    <3>2. QED BY <3>1, OutcomeAssumption DEF Report
  <2>2. /\ s \in Opened /\ seats[s][1] \in Player /\ seats[s][2] \in Player
        /\ seats[s][1] # seats[s][2]
    <3>1. s \in DOMAIN seats
      BY <1>2 DEF Inv, PresentOpened
    <3>2. seats[s] \in Seating
      BY <3>1 DEF Inv, TypeOK
    <3>3. QED BY <3>1, <3>2 DEF Seating
  <2>3. /\ DOMAIN participants \subseteq Competition \X Player
        /\ participants \in [DOMAIN participants -> Stats]
        /\ processed \subseteq Competition \X Opened /\ Opened \subseteq Session
        /\ \A k \in DOMAIN participants : StatsAddUp(participants[k])
    BY DEF Inv, TypeOK, IsImage, CountersAddUp
  <2>4. /\ \A k \in DOMAIN participants :
               participants[k].matches = Cardinality(BattlesOf(k, processed)) /\ Rated(participants[k])
        /\ \A b \in processed : \A i \in 1..2 : <<b[1], seats[b[2]][i]>> \in DOMAIN participants
    BY DEF CountInv, Counted, CountsBattles
  <2>5. ASSUME NEW k \in Competition \X Player
        PROVE  /\ StatsOf(k) \in Stats /\ StatsAddUp(StatsOf(k)) /\ Rated(StatsOf(k))
               /\ StatsOf(k).matches = Cardinality(BattlesOf(k, processed))
    <3>1. CASE k \in DOMAIN participants
      BY <2>3, <2>4, <3>1 DEF StatsOf
    <3>2. CASE k \notin DOMAIN participants
      <4>1. BattlesOf(k, processed) = {}
        <5>1. ASSUME NEW x \in BattlesOf(k, processed) PROVE FALSE
          <6>1. <<k[1], x>> \in processed /\ k[2] \in {seats[x][1], seats[x][2]}
            BY <5>1 DEF BattlesOf
          <6>2. <<k[1], seats[x][1]>> \in DOMAIN participants
                /\ <<k[1], seats[x][2]>> \in DOMAIN participants
            BY <2>4, <6>1
          <6>3. k = <<k[1], k[2]>>
            OBVIOUS
          <6>4. QED BY <3>2, <6>1, <6>2, <6>3
        <5>2. QED BY <5>1
      <4>2. StatsOf(k) = defaultRankedStats
        BY <3>2 DEF StatsOf
      <4>3. Rated(defaultRankedStats) /\ defaultRankedStats.matches = 0
        BY RatingAssumption DEF Rated, defaultRankedStats
      <4>4. QED BY <4>1, <4>2, <4>3, DefaultStats, FS_EmptySet
    <3>3. QED BY <3>1, <3>2
  <2>6. ASSUME NEW k \in {k1, k2}, NEW o \in 0..3
        PROVE  /\ applyRankedResult(StatsOf(k), o).matches
                     = Cardinality(BattlesOf(k, processed \cup {<<c, s>>}))
               /\ Rated(applyRankedResult(StatsOf(k), o))
    <3>1. k \in Competition \X Player /\ k[1] = c /\ k[2] \in {seats[s][1], seats[s][2]}
      BY <2>1, <2>2
    <3> DEFINE B == BattlesOf(k, processed)
    <3>2. B \subseteq Session /\ s \notin B
      BY <1>2, <2>3, <3>1 DEF BattlesOf
    <3>3. BattlesOf(k, processed \cup {<<c, s>>}) = B \cup {s}
      BY <2>2, <3>1 DEF BattlesOf
    <3> HIDE DEF B
    <3>4. StatsOf(k) \in Stats /\ StatsAddUp(StatsOf(k)) /\ Rated(StatsOf(k))
          /\ StatsOf(k).matches = Cardinality(B)
      BY <2>5, <3>1 DEF B
    <3>5. RatingStep * StatsOf(k).losses < InitialRating
          /\ Cardinality(B \cup {s}) = Cardinality(B) + 1
      BY <3>2, <3>4, LossesAreFew
    <3>6. QED BY <3>3, <3>4, <3>5, ApplyCounts
  <2>7. ASSUME NEW k \in DOMAIN participants, k # k1, k # k2
        PROVE  BattlesOf(k, processed \cup {<<c, s>>}) = BattlesOf(k, processed)
    <3>1. k = <<k[1], k[2]>>
      BY <2>3
    <3>2. ~ (k[1] = c /\ k[2] \in {seats[s][1], seats[s][2]})
      BY <2>7, <3>1
    <3>3. QED BY <3>2 DEF BattlesOf
  <2> DEFINE done == processed \cup {<<c, s>>}
  <2>8. ASSUME NEW k \in DOMAIN participants \cup {k1, k2}
        PROVE  participants'[k].matches = Cardinality(BattlesOf(k, done)) /\ Rated(participants'[k])
    <3>1. CASE k = k1
      BY <1>2, <2>1, <2>6, <3>1
    <3>2. CASE k = k2 /\ k # k1
      BY <1>2, <2>1, <2>6, <3>2
    <3>3. CASE k # k1 /\ k # k2
      BY <1>2, <2>4, <2>7, <3>3
    <3>4. QED BY <3>1, <3>2, <3>3
  <2>9. ASSUME NEW b \in done, NEW i \in 1..2
        PROVE  <<b[1], seats[b[2]][i]>> \in DOMAIN participants \cup {k1, k2}
    <3>1. CASE b \in processed
      BY <2>4, <3>1
    <3>2. CASE b = <<c, s>>
      <4>1. b[1] = c /\ b[2] = s /\ i \in {1, 2}
        BY <3>2
      <4>2. QED BY <4>1
    <3>3. QED BY <3>1, <3>2
  <2>10. DOMAIN participants' = DOMAIN participants \cup {k1, k2} /\ processed' = done
    BY <1>2
  <2> HIDE DEF done, k1, k2
  <2>11. Counted(participants, processed)'
    BY <2>8, <2>9, <2>10 DEF Counted, CountsBattles, BattlesOf
  <2>12. \/ disk' = [participants |-> participants', processed |-> processed']
         \/ disk' = disk
    BY <1>2 DEF Persist
  <2>13. CASE disk' = disk
    <3>1. Counted(disk.participants, disk.processed)'
      BY <2>13 DEF CountInv, Counted, CountsBattles, BattlesOf
    <3>2. QED BY <2>11, <3>1 DEF CountInv
  <2>14. CASE disk' = [participants |-> participants', processed |-> processed']
    <3>1. disk'.participants = participants' /\ disk'.processed = processed'
      BY <2>14
    <3>2. Counted(disk.participants, disk.processed)'
      BY <2>11, <3>1 DEF Counted, CountsBattles, BattlesOf
    <3>3. QED BY <2>11, <3>2 DEF CountInv
  <2>15. QED BY <2>12, <2>13, <2>14
<1>3. QED BY <1>1, <1>2 DEF RecordConsensus

(* A new session has no processed battle yet. *)
LEMMA OpenCounts ==
    ASSUME Inv, CountInv, NEW s \in Session, NEW p \in Seating, Open(s, p)
    PROVE  CountInv'
<1>1. UNCHANGED <<participants, processed, disk>>
  BY DEF Open, store
<1>2. /\ DOMAIN seats' = DOMAIN seats \cup {s} /\ s \notin DOMAIN seats
      /\ \A x \in DOMAIN seats : seats'[x] = seats[x]
  BY DEF Open
<1>3. ASSUME NEW ps, NEW done, done \subseteq Competition \X DOMAIN seats,
             Counted(ps, done)
      PROVE  /\ \A k \in DOMAIN ps : ps[k].matches = Cardinality(
                    {x \in DOMAIN seats' : <<k[1], x>> \in done
                                         /\ k[2] \in {seats'[x][1], seats'[x][2]}})
             /\ \A b \in done : \A i \in 1..2 : <<b[1], seats'[b[2]][i]>> \in DOMAIN ps
  <2>1. \A k : {x \in DOMAIN seats' : <<k[1], x>> \in done
                                      /\ k[2] \in {seats'[x][1], seats'[x][2]}}
                 = BattlesOf(k, done)
    BY <1>2, <1>3 DEF BattlesOf
  <2>2. QED BY <1>2, <1>3, <2>1 DEF Counted, CountsBattles
<1>4. processed \subseteq Competition \X DOMAIN seats
      /\ disk.processed \subseteq Competition \X DOMAIN seats
  BY DEF Inv, TypeOK, IsImage
<1>5. Counted(participants, processed)'
  <2>1. Counted(participants, processed)
    BY DEF CountInv
  <2>2. /\ \A k \in DOMAIN participants : participants[k].matches = Cardinality(
               {x \in DOMAIN seats' : <<k[1], x>> \in processed
                                    /\ k[2] \in {seats'[x][1], seats'[x][2]}})
        /\ \A b \in processed : \A i \in 1..2 :
               <<b[1], seats'[b[2]][i]>> \in DOMAIN participants
    BY <1>3, <1>4, <2>1
  <2>3. participants' = participants /\ processed' = processed
    BY <1>1
  <2>4. QED BY <2>1, <2>2, <2>3 DEF Counted, CountsBattles, BattlesOf
<1>6. Counted(disk.participants, disk.processed)'
  <2>1. Counted(disk.participants, disk.processed)
    BY DEF CountInv
  <2>2. /\ \A k \in DOMAIN disk.participants : disk.participants[k].matches = Cardinality(
               {x \in DOMAIN seats' : <<k[1], x>> \in disk.processed
                                    /\ k[2] \in {seats'[x][1], seats'[x][2]}})
        /\ \A b \in disk.processed : \A i \in 1..2 :
               <<b[1], seats'[b[2]][i]>> \in DOMAIN disk.participants
    BY <1>3, <1>4, <2>1
  <2>3. disk' = disk
    BY <1>1
  <2>4. QED BY <2>1, <2>2, <2>3 DEF Counted, CountsBattles, BattlesOf
<1>7. QED BY <1>5, <1>6 DEF CountInv

LEMMA NextCounts ==
    ASSUME IsFiniteSet(Session), RatingStep * Cardinality(Session) <= InitialRating,
           Inv, CountInv, [Next]_vars
    PROVE  CountInv'
<1>1. ASSUME NEW s \in Session, NEW i \in 1..2, NEW r \in Report, WriteReport(s, i, r)
      PROVE  CountInv'
  <2>1. report'[s] \in [1..2 -> Report \cup {NoReport}]
    BY <1>1 DEF Inv, TypeOK, WriteReport
  <2>2. RecordConsensus(s, report'[s]) /\ UNCHANGED seats
    BY <1>1 DEF WriteReport
  <2>3. QED BY <2>1, <2>2, RecordCounts
<1>2. ASSUME UNCHANGED <<store, disk, seats>> PROVE CountInv'
  BY <1>2 DEF CountInv, Counted, CountsBattles, BattlesOf, store
<1>3. ASSUME Restart PROVE CountInv'
  BY <1>3 DEF CountInv, Counted, CountsBattles, BattlesOf, Restart
<1>4. ASSUME NEW s \in Session, NEW i \in 1..2, DeleteReport(s, i) \/ Leave(s, i)
      PROVE  CountInv'
  BY <1>2, <1>4 DEF DeleteReport, Leave
<1>5. ASSUME UNCHANGED vars PROVE CountInv'
  BY <1>2, <1>5 DEF vars, battles
<1>6. QED BY <1>1, <1>3, <1>4, <1>5, OpenCounts DEF Next

(* As long as the sessions are too few for anybody to lose his rating      *)
(* before his last battle (fifty, with a rating of 1500 and steps of 30),  *)
(* recordConsensus applies every battle exactly once to both players, in   *)
(* memory and in the file, through failed writes and restarts.             *)
THEOREM CountedTheorem ==
    ASSUME IsFiniteSet(Session), RatingStep * Cardinality(Session) <= InitialRating
    PROVE  Spec => []EachBattleCountedOnce
<1>1. Init => CountInv
  BY DEF Init, CountInv, Counted, CountsBattles
<1>2. Inv /\ CountInv /\ [Next]_vars => CountInv'
  BY NextCounts
<1>3. CountInv => EachBattleCountedOnce
  BY DEF CountInv, Counted, EachBattleCountedOnce
<1>4. QED BY SpecInv, <1>1, <1>2, <1>3, PTL DEF Spec
=============================================================================
