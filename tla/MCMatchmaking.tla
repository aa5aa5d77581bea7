--------------------------- MODULE MCMatchmaking ---------------------------
EXTENDS Matchmaking, TLC

CONSTANTS duo, trio, lobby, circle, raid, easy, hard

DuoKind == [pl \in {duo} |-> "coded"]
DuoCapacity == [pl \in {duo} |-> 2]
DuoRooms == [pl \in {duo} |-> 2]
DuoSearches == {<<{duo}, MaxTickets, 0>>}
DuoRequests == {[pool |-> duo, fits |-> {}]}
NoPool == {}
NoRequest == {}

(* The rooms of the lobby are coded ones that players also join by name. *)
AllPools == {duo, trio, lobby, circle, raid}
AllKind ==
    [pl \in AllPools |-> IF pl = raid THEN "raid" ELSE IF pl = circle THEN "circle" ELSE "coded"]
AllCapacity == [pl \in AllPools |-> IF pl = trio THEN 3 ELSE 2]
AllRooms == [pl \in AllPools |-> IF pl \in {duo, trio} THEN 2 ELSE 1]
AllSearches ==
    {<<{duo}, 3, 0>>, <<{trio}, 3, 0>>, <<{lobby}, 1, 0>>, <<{lobby}, 0, 1>>,
     <<{circle}, 2, 0>>, <<{raid}, 2, 1>>, <<{circle, raid}, 1, 1>>}

(* What tickets ask for: a search for any raid or for an easy one, a room  *)
(* of the server's size, a larger and too large a one.                     *)
AllRequests ==
    {[pool |-> pl, fits |-> {}] : pl \in {duo, trio, lobby, circle}}
        \cup {[pool |-> raid, fits |-> fits] : fits \in {{easy}, {easy, hard}}}
AllCreations ==
    {[pool |-> raid, size |-> 0, hidden |-> FALSE, posting |-> hard],
     [pool |-> circle, size |-> 3, hidden |-> TRUE, posting |-> easy],
     [pool |-> circle, size |-> 65, hidden |-> FALSE, posting |-> easy],
     [pool |-> lobby, size |-> 0, hidden |-> FALSE, posting |-> easy]}

(* Only a search for raids looks at whether a room is public.  A trio is   *)
(* not controlled: three admissions leave no seat to enter it again.       *)
AllControls ==
    {[pool |-> pl, cp |-> cp, ip |-> TRUE] : pl \in AllPools \ {trio}, cp \in BOOLEAN}
        \cup {[pool |-> raid, cp |-> cp, ip |-> FALSE] : cp \in BOOLEAN}

PlayerSymmetry == Permutations(Player)
=============================================================================
