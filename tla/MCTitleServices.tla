--------------------------- MODULE MCTitleServices ---------------------------
EXTENDS TitleServices

CONSTANTS alice, bob

-----------------------------------------------------------------------------
(* Competitions: two share a code. *)
CONSTANTS cup1, cup2, singles
CompetitionCodes ==
    [n \in Competition |-> IF n = Official THEN "CUP002" ELSE IF n \in Ranked THEN "CUP003" ELSE "CUP001"]

(* A participant as the game has read it, sent back; one that cannot be    *)
(* registered, only host. *)
Returned ==
    <<<<"name", <<Official, bob>>>>, <<"device", 1>>, <<"offset", 0>>, <<"binary", "team1">>,
      <<"state", 2>>, <<"rating", 1700>>, <<"state", 2>>, <<"binary", "team2">>>>
Incomplete == <<<<"device", 1>>>>
MCSubmitted == {Returned, Incomplete}

-----------------------------------------------------------------------------
(* Rental teams and penalties: a counted code may have been chosen before. *)
CONSTANTS s1, s2, n1, t1, c1, c2, c3
CountedCodes == [i \in 1..3 |-> IF i = 1 THEN c1 ELSE IF i = 2 THEN c2 ELSE c3]

One(w) == [writes |-> <<w>>, ruled |-> FALSE]
Publish(s) ==
    One([update |-> [name |-> s, fields |-> [binary |-> t1, code |-> None]],
         mask |-> Everything, current |-> None])
Patch(s, c) ==
    One([update |-> [name |-> s, fields |-> [binary |-> None, code |-> c]],
         mask |-> {"code"}, current |-> None])
Delete(s) == One([delete |-> s, current |-> None])
Penalty(n, k, mask) ==
    One([update |-> [name |-> n, fields |-> [f \in PenaltyField |->
                        IF f \in Selected(mask) THEN k ELSE None]],
         mask |-> mask, current |-> None])
MCCommits ==
    {Publish(s) : s \in {s1, s2}} \cup {Patch(s1, c) : c \in {c1, c2}}
        \cup {Delete(s) : s \in {s1, s2}}
        \cup {Penalty(n1, 1, {}), Penalty(n1, 2, {"warning_flag"})}
        \cup {One([unset |-> s1, force |-> TRUE])}
MCAliasRequests == {[document |-> s, name |-> c] : s \in {s1, s2}, c \in {None, c2}}

-----------------------------------------------------------------------------
(* Rooms: 3, which is no raid, has a code of its own, the others share     *)
(* one; 2 is too hard for who searches, 4 is made during the walk.         *)
CircleCodes == [n \in RoomName |-> IF n = 3 THEN "NPLN42" ELSE "NPLN23"]
RaidRooms == {1, 2, 4}
FirstHosts == [n \in {1, 2, 3} |-> [name |-> 2, user |-> alice, team |-> "owner"]]
PlacesOf == [n \in RoomName |-> 2]
StarsOf == [n \in RoomName |-> IF n = 2 THEN 5 ELSE IF n = 3 THEN 0 ELSE 3]
Query(config, hardest, with) ==
    [config |-> config, vacancy |-> 1, participants |-> 1, difficulty |-> hardest, users |-> with,
     size |-> 1, token |-> 0, view |-> "BASIC"]
MCQueries == {Query("RaidPublicSearch", 3, {}), Query("", Absent, {bob})}
Joins ==
    {[name |-> x[1], definitions |-> <<[user |-> Absent, team |-> ""]>>, password |-> x[2], tokens |-> Person] :
        x \in (RoomName \X {""}) \cup {<<3, "secret">>}}

-----------------------------------------------------------------------------
(* The page: bob's account is not known since the server started; one room *)
(* that 2 hosts and 3 is in.                                               *)
CONSTANTS hall
LinkKey == [l \in 1..2 |-> alice]
SessionKey == [s \in 1..3 |-> IF s = 2 THEN bob ELSE alice]
SessionHall == [s \in 1..3 |-> IF s = 1 THEN NoHall ELSE hall]
HallHost == [h \in {hall} |-> 2]
=============================================================================
