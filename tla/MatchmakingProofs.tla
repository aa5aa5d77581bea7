-------------------------- MODULE MatchmakingProofs --------------------------
(***************************************************************************)
(* Rooms stay whole under matchmaking, creation, joins, cancellations and  *)
(* departures in any order, for any pools, players and numbers of rooms.   *)
(* What makes it inductive is what a room may become in one step (Follows) *)
(* and what pools, tickets and offers remember of rooms.  That searchers   *)
(* of a coded pool meet is a step property on top of it (OneFresh); that   *)
(* they can be joined takes two more invariants (ShutInv, FillInv).        *)
(***************************************************************************)
EXTENDS Matchmaking, FiniteSetTheorems, SequenceTheorems, TLAPS

(* A roster: one seat per player, numbered by admission, in one count. *)
RosterFits(r) ==
    /\ r \in RoomState
    /\ IsFiniteSet(r.users) /\ r.count = Cardinality(r.users)
    /\ r.members = IF r.pooled THEN r.users ELSE {}
    /\ \A x, y \in r.users : x[2] = y[2] => x = y
    /\ \A x \in r.users : x[1] <= r.admissions
    /\ r.count <= r.max
    /\ r.pooled /\ Kind[r.pool] # "raid" => r.max = Capacity[r.pool]

Hosted(r) == Kind[r.pool] = "raid" /\ r.active => \E x \in r.users : Owner(x)

RoomFits(r) == RosterFits(r) /\ (r.active => r.users # {}) /\ Hosted(r)

(* What room r may be after a step: q. *)
Follows(r, q) ==
    /\ q.pool = r.pool /\ q.max = r.max /\ (r.pooled => q.pooled)
    /\ Kind[r.pool] # "raid" => q.pooled = r.pooled
    /\ ~ r.active => ~ q.active
    /\ ~ r.active \/ ~ r.open => q.users \subseteq r.users

(* A step that opens nothing and leaves a full room alone. *)
Spares(r, q) == (q.open => r.open) /\ (r.count = r.max => q.users = r.users)

-----------------------------------------------------------------------------
(* Numbers and seats *)

LEMMA LeastNumber ==
    ASSUME NEW S, S \subseteq Nat, S # {}
    PROVE  \E i \in S : \A j \in S : i <= j
<1> DEFINE R == OpToRel(<, Nat)
<1>1. \A a, b \in Nat : a < b => <<a, b>> \in R
  BY DEF OpToRel
<1>2. IsWellFoundedOn(R, Nat)
  BY NatLessThanWellFounded
<1> HIDE DEF R
<1>3. PICK i \in S : \A j \in S : ~ (<<j, i>> \in R)
  BY <1>2, WFMin
<1>4. \A j \in S : ~ (j < i)
  BY <1>1, <1>3
<1>5. \A j \in S : i <= j
  BY <1>4
<1>6. QED BY <1>5

LEMMA FirstIsThere ==
    ASSUME NEW S, S \subseteq Nat, S # {}
    PROVE  First(S) \in S
  BY LeastNumber DEF First

LEMMA FirstSeatIsThere ==
    ASSUME NEW seats \in SUBSET Seat, seats # {}
    PROVE  FirstSeat(seats) \in seats
<1> DEFINE S == {x[1] : x \in seats}
<1>1. S \subseteq Nat /\ S # {}
  BY BoundAssumption DEF Seat
<1> HIDE DEF S
<1>2. PICK i \in S : \A j \in S : i <= j
  BY <1>1, LeastNumber
<1>3. PICK x \in seats : x[1] = i
  BY DEF S
<1>4. \A y \in seats : x[1] <= y[1]
  BY <1>2, <1>3 DEF S
<1>5. QED BY <1>3, <1>4 DEF FirstSeat

LEMMA SeatOfIsThere ==
    ASSUME NEW seats, NEW p, Holds(seats, p)
    PROVE  SeatOf(seats, p) \in seats /\ SeatOf(seats, p)[2] = p
  BY DEF Holds, SeatOf

-----------------------------------------------------------------------------
(* Rooms *)

LEMMA RosterType ==
    ASSUME NEW r, RosterFits(r)
    PROVE  /\ r.pool \in Pool /\ r.users \in SUBSET Seat /\ r.members \in SUBSET Seat
           /\ r.pooled \in BOOLEAN /\ r.open \in BOOLEAN /\ r.active \in BOOLEAN
           /\ r.count \in Nat /\ r.max \in Nat /\ r.admissions \in 0..MaxAdmissions
           /\ r.public \in BOOLEAN
           /\ IsFiniteSet(r.users) /\ r.count = Cardinality(r.users)
  BY DEF RosterFits, RoomState

LEMMA NewRoomFits ==
    ASSUME NEW pl \in Pool
    PROVE  RosterFits(NewRoom(pl)) /\ NewRoom(pl).pooled /\ NewRoom(pl).pool = pl
           /\ NewRoom(pl).admissions = 0 /\ NewRoom(pl).count = 0
           /\ NewRoom(pl).max \in Nat \ {0} /\ NewRoom(pl).open = TRUE
  BY PoolAssumption, BoundAssumption, FS_EmptySet DEF RosterFits, NewRoom, RoomState

(* One more seat. *)
LEMMA SeatedRoster ==
    ASSUME NEW r, RosterFits(r), NEW p \in Player, ~ Holds(r.users, p),
           r.admissions < MaxAdmissions, r.count + 1 <= r.max
    PROVE  LET x == <<r.admissions + 1, p>>  u == r.users \cup {x} IN
           /\ x \in Seat /\ u \in SUBSET Seat /\ IsFiniteSet(u)
           /\ Cardinality(u) = r.count + 1
           /\ \A y, z \in u : y[2] = z[2] => y = z
           /\ \A y \in u : y[1] <= r.admissions + 1
           /\ r.admissions + 1 \in 0..MaxAdmissions
<1> DEFINE x == <<r.admissions + 1, p>>
           u == r.users \cup {x}
<1>0. r.admissions \in Nat /\ MaxAdmissions \in Nat
  BY RosterType, BoundAssumption
<1>1. r.admissions + 1 \in 1..MaxAdmissions
  BY <1>0
<1>2. x \in Seat
  BY <1>1 DEF Seat
<1>3. x \notin r.users
  BY DEF Holds
<1>4. IsFiniteSet(u) /\ Cardinality(u) = r.count + 1
  <2>1. IsFiniteSet(r.users) /\ r.count = Cardinality(r.users)
    BY RosterType
  <2>2. QED BY <1>3, <2>1, FS_AddElement
<1>5. \A y \in r.users : y[2] # p /\ y[1] <= r.admissions /\ y[1] \in Nat
  <2>1. r.users \subseteq Seat
    BY RosterType
  <2>2. QED BY <1>0, <2>1 DEF Holds, RosterFits, Seat
<1>6. \A y, z \in u : y[2] = z[2] => y = z
  BY <1>5 DEF RosterFits
<1>7. \A y \in u : y[1] <= r.admissions + 1
  BY <1>0, <1>5
<1>8. u \in SUBSET Seat
  BY <1>2, RosterType
<1>9. QED BY <1>0, <1>1, <1>2, <1>4, <1>6, <1>7, <1>8

LEMMA AdmitFits ==
    ASSUME NEW r, RosterFits(r), r.pooled, NEW p \in Player, r.admissions < MaxAdmissions,
           Holds(r.users, p) \/ r.count + 1 <= r.max
    PROVE  LET q == Admit(r, p) IN
           /\ RosterFits(q) /\ q.pooled /\ Holds(q.members, p) /\ q.users # {}
           /\ q.pool = r.pool /\ q.active = r.active /\ q.open = r.open
           /\ r.users \subseteq q.users /\ q.max = r.max
           /\ Holds(r.users, p) => q = r
<1> DEFINE q == Admit(r, p)
           x == <<r.admissions + 1, p>>
           u == r.users \cup {x}
<1>1. r.members = r.users
  BY DEF RosterFits
<1>2. CASE Holds(r.users, p)
  <2>1. q = r
    BY <1>1, <1>2 DEF Admit
  <2>2. QED BY <1>1, <1>2, <2>1 DEF Holds
<1>3. CASE ~ Holds(r.users, p)
  <2>1. /\ x \in Seat /\ u \in SUBSET Seat /\ IsFiniteSet(u)
        /\ Cardinality(u) = r.count + 1
        /\ \A y, z \in u : y[2] = z[2] => y = z
        /\ \A y \in u : y[1] <= r.admissions + 1
        /\ r.admissions + 1 \in 0..MaxAdmissions
    BY <1>3, SeatedRoster
  <2>2. q = [r EXCEPT !.members = u, !.users = u, !.admissions = @ + 1,
                      !.count = Cardinality(u), !.max = Larger(@, Cardinality(u))]
    BY <1>1, <1>3 DEF Admit
  <2>3. r \in RoomState /\ r.count \in Nat /\ r.max \in Nat /\ r.count + 1 <= r.max
    BY <1>3, RosterType DEF RosterFits
  <2>4. Larger(r.max, Cardinality(u)) = r.max
    BY <2>1, <2>3 DEF Larger
  <2>5. p = x[2] /\ x \in u
    OBVIOUS
  <2> HIDE DEF u, x
  <2>6. /\ DOMAIN q = DOMAIN r
        /\ q.members = u /\ q.users = u /\ q.admissions = r.admissions + 1
        /\ q.count = Cardinality(u) /\ q.max = r.max
        /\ q.pool = r.pool /\ q.pooled = r.pooled /\ q.active = r.active
        /\ q.open = r.open /\ q.public = r.public
    BY <2>2, <2>3, <2>4 DEF RoomState
  <2>7. q \in RoomState
    <3>1. Cardinality(u) \in Nat /\ r.admissions + 1 \in 0..MaxAdmissions
      BY <2>1, <2>3
    <3>2. q = [r EXCEPT !.members = u, !.users = u, !.admissions = r.admissions + 1,
                        !.count = Cardinality(u), !.max = r.max]
      BY <2>2, <2>4
    <3>3. QED BY <2>1, <2>3, <3>1, <3>2 DEF RoomState
  <2> HIDE DEF q
  <2>8. RosterFits(q)
    BY <2>1, <2>3, <2>6, <2>7 DEF RosterFits
  <2>9. r.users \subseteq q.users
    BY <2>6 DEF u
  <2>10. QED BY <1>3, <2>5, <2>6, <2>8, <2>9 DEF Holds, q
<1>4. QED BY <1>2, <1>3

LEMMA AsPooledFits ==
    ASSUME NEW r, RosterFits(r), Kind[r.pool] = "raid"
    PROVE  LET q == AsPooled(r) IN
           /\ RosterFits(q) /\ q.pooled /\ q.users = r.users /\ q.pool = r.pool
           /\ q.active = r.active /\ q.open = r.open /\ q.count = r.count /\ q.max = r.max
           /\ q.admissions = r.admissions
  BY DEF AsPooled, RosterFits, RoomState

LEMMA JoinedFits ==
    ASSUME NEW r, RosterFits(r), ~ r.pooled, NEW p \in Player, ~ Holds(r.users, p),
           r.admissions < MaxAdmissions, r.count + 1 <= r.max
    PROVE  LET q == [r EXCEPT !.users = @ \cup {<<r.admissions + 1, p>>},
                              !.count = Cardinality(r.users) + 1,
                              !.admissions = @ + 1] IN
           /\ RosterFits(q) /\ q.pooled = r.pooled /\ q.users = r.users \cup {<<r.admissions + 1, p>>}
           /\ q.pool = r.pool /\ q.active = r.active /\ q.open = r.open /\ q.max = r.max
<1> DEFINE x == <<r.admissions + 1, p>>
           u == r.users \cup {x}
           q == [r EXCEPT !.users = @ \cup {x}, !.count = Cardinality(r.users) + 1,
                          !.admissions = @ + 1]
<1>1. /\ x \in Seat /\ u \in SUBSET Seat /\ IsFiniteSet(u)
      /\ Cardinality(u) = r.count + 1
      /\ \A y, z \in u : y[2] = z[2] => y = z
      /\ \A y \in u : y[1] <= r.admissions + 1
      /\ r.admissions + 1 \in 0..MaxAdmissions
  BY SeatedRoster
<1>2. r \in RoomState /\ r.count = Cardinality(r.users)
  BY DEF RosterFits
<1> HIDE DEF x
<1>3. /\ DOMAIN q = DOMAIN r
      /\ q.users = u /\ q.admissions = r.admissions + 1 /\ q.count = Cardinality(u)
      /\ q.max = r.max /\ q.members = r.members
      /\ q.pool = r.pool /\ q.pooled = r.pooled /\ q.active = r.active
      /\ q.open = r.open /\ q.public = r.public
  BY <1>1, <1>2 DEF RoomState
<1>4. q \in RoomState
  <2>1. r.count + 1 \in Nat
    BY RosterType
  <2>2. QED BY <1>1, <1>2, <2>1 DEF RoomState
<1> HIDE DEF q, u
<1>5. RosterFits(q)
  BY <1>1, <1>2, <1>3, <1>4 DEF RosterFits
<1>6. QED BY <1>3, <1>5 DEF q, u, x

(* Fewer seats; the room ends with the last. *)
LEMMA WithoutFits ==
    ASSUME NEW r, RosterFits(r), NEW seats
    PROVE  LET q == Without(r, seats) IN
           /\ RosterFits(q) /\ q.users = r.users \ seats /\ q.users \subseteq r.users
           /\ q.pool = r.pool /\ q.pooled = r.pooled
           /\ q.active => r.active /\ q.users # {}
           /\ q.open => r.open
           /\ q.max = r.max
<1> DEFINE q == Without(r, seats)
           left == r.users \ seats
<1>1. left \in SUBSET r.users /\ IsFiniteSet(r.users) /\ r.count = Cardinality(r.users)
      /\ r.users \in SUBSET Seat /\ r.count \in Nat /\ r.max \in Nat /\ r \in RoomState
  BY RosterType DEF RosterFits
<1>2. IsFiniteSet(left) /\ Cardinality(left) <= Cardinality(r.users) /\ Cardinality(left) \in Nat
  BY <1>1, FS_Subset, FS_CardinalityType
<1>3. r.open \in BOOLEAN /\ r.active \in BOOLEAN /\ r.members \in SUBSET Seat
  BY RosterType
<1>4. /\ DOMAIN q = DOMAIN r
      /\ q.users = left /\ q.members = r.members \ seats /\ q.count = Cardinality(left)
      /\ q.open = (r.open /\ left # {}) /\ q.active = (r.active /\ left # {})
      /\ q.pool = r.pool /\ q.pooled = r.pooled /\ q.max = r.max
      /\ q.admissions = r.admissions /\ q.public = r.public
  BY <1>1 DEF Without, RoomState
<1>5. q \in RoomState
  BY <1>1, <1>2, <1>3 DEF Without, RoomState
<1> HIDE DEF q
<1>6. q.members = IF q.pooled THEN q.users ELSE {}
  BY <1>4 DEF RosterFits
<1>7. RosterFits(q)
  BY <1>1, <1>2, <1>4, <1>5, <1>6 DEF RosterFits
<1>8. QED BY <1>1, <1>3, <1>4, <1>7 DEF q

(* Flags alone. *)
LEMMA FlagsFit ==
    ASSUME NEW r, RosterFits(r), NEW a \in BOOLEAN, NEW b \in BOOLEAN, NEW c \in BOOLEAN
    PROVE  LET q == [r EXCEPT !.open = a, !.public = b, !.active = c] IN
           /\ RosterFits(q) /\ q.users = r.users /\ q.members = r.members /\ q.count = r.count
           /\ q.pool = r.pool /\ q.pooled = r.pooled /\ q.max = r.max
           /\ q.open = a /\ q.public = b /\ q.active = c
  BY DEF RosterFits, RoomState

LEMMA ClosedFits ==
    ASSUME NEW r, RosterFits(r)
    PROVE  LET q == Closed(r) IN
           /\ RosterFits(q) /\ q.users = r.users /\ q.members = r.members /\ q.count = r.count
           /\ q.pool = r.pool /\ q.pooled = r.pooled /\ q.active = r.active /\ q.max = r.max
           /\ Kind[r.pool] = "coded" => ~ q.open
           /\ q.open => r.open
  BY DEF Closed, RosterFits, RoomState

-----------------------------------------------------------------------------
(* The rooms, and what changes them *)

RoomsFit ==
    /\ room \in Seq(RoomState)
    /\ \A s \in Rooms : RoomFits(room[s]) /\ s <= MaxRooms[room[s].pool]

(* Rooms evolve, and one that no creation ticket asked for is a search's. *)
Evolves ==
    /\ Rooms \subseteq Rooms' /\ \A s \in Rooms : Follows(room[s], room'[s])
    /\ UNCHANGED creations =>
          \A s \in Rooms' \ Rooms : room'[s].pooled /\ Kind[room'[s].pool] # "raid"

LEMMA RoomNumbers ==
    ASSUME RoomsFit
    PROVE  Rooms = 1..Len(room) /\ Len(room) \in Nat /\ 0 \notin Rooms
  BY DEF RoomsFit, Rooms

LEMMA RoomsStay ==
    ASSUME RoomsFit, UNCHANGED room
    PROVE  RoomsFit' /\ Evolves /\ Rooms' = Rooms
  BY DEF RoomsFit, Evolves, Rooms, Follows

LEMMA RoomChanges ==
    ASSUME RoomsFit, NEW s \in Rooms, NEW q, RoomFits(q), Follows(room[s], q),
           room' = [room EXCEPT ![s] = q]
    PROVE  RoomsFit' /\ Evolves /\ Rooms' = Rooms
<1>1. q \in RoomState
  BY DEF RoomFits, RosterFits
<1>2. room \in Seq(RoomState) /\ Rooms = 1..Len(room)
  BY RoomNumbers DEF RoomsFit
<1>3. room' \in Seq(RoomState) /\ Len(room') = Len(room) /\ Rooms' = Rooms
  BY <1>1, <1>2, ExceptSeq DEF Rooms
<1>4. \A i \in Rooms : room'[i] = IF i = s THEN q ELSE room[i]
  BY <1>2 DEF Rooms
<1>5. \A i \in Rooms : RoomFits(room'[i]) /\ room'[i].pool = room[i].pool
                       /\ Follows(room[i], room'[i])
  BY <1>4 DEF RoomsFit, Follows
<1>6. RoomsFit'
  BY <1>3, <1>5 DEF RoomsFit
<1>7. QED BY <1>3, <1>5, <1>6 DEF Evolves

LEMMA RoomIsAdded ==
    ASSUME RoomsFit, NEW q, RoomFits(q), Len(room) + 1 <= MaxRooms[q.pool],
           room' = Append(room, q),
           UNCHANGED creations => q.pooled /\ Kind[q.pool] # "raid"
    PROVE  /\ RoomsFit' /\ Evolves /\ Rooms' = Rooms \cup {Len(room) + 1}
           /\ room'[Len(room) + 1] = q
<1>1. q \in RoomState
  BY DEF RoomFits, RosterFits
<1>2. room \in Seq(RoomState) /\ Rooms = 1..Len(room) /\ Len(room) \in Nat
  BY RoomNumbers DEF RoomsFit
<1>3. /\ room' \in Seq(RoomState) /\ Len(room') = Len(room) + 1
      /\ \A i \in 1..Len(room) : room'[i] = room[i]
      /\ room'[Len(room) + 1] = q
  BY <1>1, <1>2, AppendProperties
<1>4. Rooms' = 1..(Len(room) + 1)
  BY <1>3 DEF Rooms
<1>5. Rooms' = Rooms \cup {Len(room) + 1}
  BY <1>2, <1>4
<1>6. \A i \in Rooms : room'[i] = room[i]
  BY <1>2, <1>3
<1>7. RoomsFit'
  BY <1>3, <1>5, <1>6 DEF RoomsFit
<1>8. Evolves
  BY <1>3, <1>5, <1>6 DEF Evolves, Follows
<1>9. QED BY <1>3, <1>5, <1>7, <1>8

-----------------------------------------------------------------------------
(* What is remembered of rooms *)

PoolsFit ==
    /\ poolRooms \in [Pool -> Seq(Rooms)]
    /\ \A pl \in Pool : \A i \in DOMAIN poolRooms[pl] :
          room[poolRooms[pl][i]].pool = pl /\ room[poolRooms[pl][i]].pooled

StreamState == {"idle", "entered", "returning", "ended"} \cup TicketState

(* The room of a search: of its pool, but for raids. *)
Serves(r, pl) ==
    r.pooled /\ Kind[r.pool] = Kind[pl] /\ (Kind[pl] # "raid" => r.pool = pl)

TicketsFit ==
    /\ Live \subseteq Ticket /\ tickets \in [Live -> MatchmakingTicket]
    /\ ticketRoom \in [Ticket -> Rooms \cup {0}]
    /\ pc \in [Ticket -> StreamState]
    /\ \A t \in Ticket : pc[t] = "idle" => ticketRoom[t] = 0
    /\ \A t \in Live : ticketRoom[t] # 0 =>
          Serves(room[ticketRoom[t]], tickets[t].pool)

(* A coded room to which nobody has connected yet is full and closed. *)
Locked(s) == Coded(s) /\ Fresh(s) => ~ room[s].open /\ room[s].count = room[s].max

(* An announced room is locked. *)
OffersFit ==
    /\ offered \in [Ticket -> (Rooms \X Seat) \cup {NoOffer}]
    /\ \A t \in Ticket : pc[t] = "PLACING" => offered[t] \in Rooms \X Seat
    /\ \A t \in Ticket : offered[t] \in Rooms \X Seat => Locked(offered[t][1])

(* A room is as large as its creation ticket was granted, or its pool says. *)
Sized(s) ==
    /\ \A c \in DOMAIN creations : creations[c].room = s => room[s].max = Granted(c)
    /\ (\A c \in DOMAIN creations : creations[c].room # s)
          => room[s].max = Capacity[room[s].pool]

CreationsFit ==
    /\ DOMAIN creations \subseteq Creation /\ \E n \in Nat : DOMAIN creations = 1..n
    /\ creations \in [DOMAIN creations -> GameSessionCreationTicket]
    /\ \A c \in DOMAIN creations :
          IF creations[c].state = "SUCCEEDED" THEN creations[c].room \in Rooms
          ELSE creations[c].room = 0
    /\ \A s \in Rooms : Sized(s)

Ruler == Seat \cup {NoSeat, Departed}

GamesyncFit ==
    /\ tokens \subseteq Rooms \X Seat /\ connected \subseteq tokens
    /\ ruler \in Seq(Ruler) /\ Len(ruler) = Len(room)
    /\ reopening \subseteq Rooms
    /\ \A s \in Rooms, x \in Seat : <<s, x>> \in connected => ~ Fresh(s)

IInv == RoomsFit /\ PoolsFit /\ TicketsFit /\ OffersFit /\ CreationsFit /\ GamesyncFit

LEMMA PoolsStay ==
    ASSUME PoolsFit, Evolves, UNCHANGED poolRooms
    PROVE  PoolsFit'
<1>1. ASSUME NEW pl \in Pool
      PROVE  poolRooms[pl] \in Seq(Rooms) /\ poolRooms[pl] \in Seq(Rooms')
  <2>1. poolRooms[pl] \in Seq(Rooms) /\ Rooms \subseteq Rooms'
    BY DEF PoolsFit, Evolves
  <2>2. QED BY <2>1, SeqMonotonic
<1>2. \A pl \in Pool : \A i \in DOMAIN poolRooms[pl] : poolRooms[pl][i] \in Rooms
  BY <1>1, ElementOfSeq, LenProperties
<1>3. poolRooms' \in [Pool -> Seq(Rooms')]
  BY <1>1 DEF PoolsFit
<1>4. \A pl \in Pool : \A i \in DOMAIN poolRooms[pl] :
          room'[poolRooms[pl][i]].pool = pl /\ room'[poolRooms[pl][i]].pooled
  BY <1>2 DEF PoolsFit, Evolves, Follows
<1>5. QED BY <1>3, <1>4 DEF PoolsFit

LEMMA TicketsStay ==
    ASSUME RoomsFit, TicketsFit, Evolves, UNCHANGED <<tickets, ticketRoom, pc>>
    PROVE  TicketsFit'
<1>1. ticketRoom' \in [Ticket -> Rooms' \cup {0}]
  BY DEF TicketsFit, Evolves
<1>2. \A t \in Live : ticketRoom[t] # 0 =>
         /\ room'[ticketRoom[t]].pool = room[ticketRoom[t]].pool
         /\ room[ticketRoom[t]].pooled => room'[ticketRoom[t]].pooled
  BY DEF TicketsFit, Evolves, Follows
<1>3. QED BY <1>1, <1>2 DEF TicketsFit, Live, Serves

LEMMA CreationsStay ==
    ASSUME RoomsFit, CreationsFit, RoomsFit', Evolves, UNCHANGED creations
    PROVE  CreationsFit'
<1>1. ASSUME NEW s \in Rooms'
      PROVE  Sized(s)'
  <2>1. CASE s \in Rooms
    BY <2>1 DEF CreationsFit, Evolves, Follows, Sized, Granted
  <2>2. CASE s \notin Rooms
    <3>1. room'[s].max = Capacity[room'[s].pool]
      BY <2>2 DEF Evolves, RoomsFit, RoomFits, RosterFits
    <3>2. \A c \in DOMAIN creations : creations[c].room # s
      <4>1. 0 \notin Rooms'
        BY DEF RoomsFit, Rooms
      <4>2. QED BY <2>2, <4>1 DEF CreationsFit
    <3>3. QED BY <3>1, <3>2 DEF Sized
  <2>3. QED BY <2>1, <2>2
<1>2. QED BY <1>1 DEF CreationsFit, Evolves

LEMMA GamesyncStays ==
    ASSUME GamesyncFit, Evolves, UNCHANGED <<tokens, connected, ruler, reopening>>,
           Len(room') = Len(room)
    PROVE  GamesyncFit'
<1>1. connected \subseteq Rooms \X Seat
  BY DEF GamesyncFit
<1>2. QED BY <1>1 DEF GamesyncFit, Evolves, Fresh

-----------------------------------------------------------------------------
(* Streams and tickets that move on *)

LEMMA TicketsFollow ==
    ASSUME RoomsFit, TicketsFit, Evolves,
           pc' \in [Ticket -> StreamState], \A u \in Ticket : pc'[u] = "idle" => pc[u] = "idle",
           Live' \subseteq Live, tickets' \in [Live' -> MatchmakingTicket],
           \A u \in Live' : tickets'[u] = tickets[u],
           ticketRoom' \in [Ticket -> Rooms \cup {0}],
           \A u \in Ticket : ticketRoom'[u] \in {ticketRoom[u], 0}
    PROVE  TicketsFit'
<1>1. ticketRoom' \in [Ticket -> Rooms' \cup {0}]
  BY DEF Evolves
<1>2. ASSUME NEW u \in Live', ticketRoom'[u] # 0
      PROVE  Serves(room'[ticketRoom'[u]], tickets'[u].pool)
  <2>1. u \in Live /\ u \in Ticket /\ tickets'[u] = tickets[u]
    BY <1>2 DEF TicketsFit
  <2>2. ticketRoom'[u] = ticketRoom[u] /\ ticketRoom[u] \in Rooms
    BY <1>2, <2>1 DEF TicketsFit
  <2>3. /\ room'[ticketRoom[u]].pool = room[ticketRoom[u]].pool
        /\ room[ticketRoom[u]].pooled => room'[ticketRoom[u]].pooled
    BY <2>2 DEF Evolves, Follows
  <2>4. QED BY <1>2, <2>1, <2>2, <2>3 DEF TicketsFit, Serves
<1>3. \A u \in Ticket : pc'[u] = "idle" => ticketRoom'[u] = 0
  BY DEF TicketsFit
<1>4. Live' \subseteq Ticket
  BY DEF TicketsFit
<1>5. QED BY <1>1, <1>2, <1>3, <1>4 DEF TicketsFit

(* Nobody disconnects or opens a locked room before somebody connects. *)
Secure(s) ==
    Coded(s) =>
        /\ Fresh(s)' => Fresh(s)
        /\ ~ room[s].open /\ room'[s].open =>
              <<s, ruler[s]>> \in connected /\ \E q \in ControlRequests : q.pool = room[s].pool
        /\ Fresh(s) /\ room[s].count = room[s].max => room'[s].users = room[s].users

Secures == \A s \in Rooms : Secure(s)

LEMMA SecureStays ==
    ASSUME IInv, NEW s \in Rooms, room'[s] = room[s], Fresh(s)' => Fresh(s)
    PROVE  Secure(s)
  BY DEF Secure

LEMMA FreshStaysClosed ==
    ASSUME IInv, NEW s \in Rooms, Secure(s), Coded(s), Fresh(s)
    PROVE  room'[s].open => room[s].open
<1>1. <<s, ruler[s]>> \notin connected
  <2>1. NoSeat \notin Seat
    BY DEF NoSeat, Seat
  <2>2. connected \subseteq Rooms \X Seat
    BY DEF IInv, GamesyncFit
  <2>3. QED BY <2>1, <2>2 DEF Fresh
<1>2. QED BY <1>1 DEF Secure

LEMMA LockStays ==
    ASSUME IInv, RoomsFit', Evolves, NEW s \in Rooms, Secure(s), Locked(s)
    PROVE  Locked(s)'
<1> SUFFICES ASSUME Coded(s)', Fresh(s)'
             PROVE  ~ room'[s].open /\ room'[s].count = room'[s].max
  BY DEF Locked
<1>1. Coded(s) /\ room'[s].max = room[s].max /\ s \in Rooms'
  BY DEF Evolves, Follows, Coded
<1>2. Fresh(s) /\ ~ room[s].open /\ room[s].count = room[s].max
  BY <1>1 DEF Secure, Locked
<1>3. ~ room'[s].open
  BY <1>1, <1>2, FreshStaysClosed
<1>4. room'[s].users = room[s].users
  BY <1>1, <1>2 DEF Secure
<1>5. room'[s].count = room[s].count
  BY <1>1, <1>4 DEF IInv, RoomsFit, RoomFits, RosterFits
<1>6. QED BY <1>1, <1>2, <1>3, <1>5

LEMMA OffersFollow ==
    ASSUME IInv, RoomsFit', Evolves, Secures, UNCHANGED offered,
           \A u \in Ticket : pc'[u] = "PLACING" => pc[u] = "PLACING"
    PROVE  OffersFit'
<1>1. Rooms \X Seat \subseteq Rooms' \X Seat
  BY DEF Evolves
<1>2. ASSUME NEW t \in Ticket, offered[t] \in Rooms \X Seat, NEW s \in Rooms, s = offered[t][1]
      PROVE  Locked(s)'
  <2>1. Locked(s)
    BY <1>2 DEF IInv, OffersFit
  <2>2. QED BY <2>1, LockStays DEF Secures
<1>3. NoOffer \notin Rooms' \X Seat
  BY DEF NoOffer, NoSeat, Seat
<1>4. QED BY <1>1, <1>2, <1>3 DEF IInv, OffersFit, Locked, Coded, Fresh

-----------------------------------------------------------------------------
(* Polls *)

(* A group of a coded room is complete, and p is in it. *)
Complete(r, p) ==
    Kind[r.pool] = "coded" =>
        /\ Cardinality({x[2] : x \in r.users}) = Capacity[r.pool]
        /\ p \in {x[2] : x \in r.users}

LEMMA PlayersAreSeats ==
    ASSUME NEW r, RosterFits(r)
    PROVE  Cardinality({x[2] : x \in r.users}) = r.count
<1> DEFINE P == {x[2] : x \in r.users}
           f == [x \in r.users |-> x[2]]
<1>1. f \in [r.users -> P] /\ (\A y \in P : \E x \in r.users : f[x] = y)
  OBVIOUS
<1>2. \A x, y \in r.users : f[x] = f[y] => x = y
  BY DEF RosterFits
<1> HIDE DEF f, P
<1>3. f \in Bijection(r.users, P)
  BY <1>1, <1>2 DEF Bijection, Injection, Surjection, IsInjective
<1>4. ExistsBijection(r.users, P)
  BY <1>3 DEF ExistsBijection
<1>5. IsFiniteSet(r.users) /\ r.count = Cardinality(r.users)
  BY DEF RosterFits
<1>6. Cardinality(P) = Cardinality(r.users)
  BY <1>4, <1>5, FS_Bijection
<1>7. QED BY <1>5, <1>6 DEF P

LEMMA FollowsClosed ==
    ASSUME NEW r, NEW q, RoomFits(q), Follows(r, q)
    PROVE  RoomFits(Closed(q)) /\ Follows(r, Closed(q))
<1>1. /\ RosterFits(Closed(q)) /\ Closed(q).users = q.users /\ Closed(q).max = q.max
      /\ Closed(q).pool = q.pool /\ Closed(q).pooled = q.pooled
      /\ Closed(q).active = q.active /\ (Closed(q).open => q.open)
  BY ClosedFits DEF RoomFits
<1>2. QED BY <1>1 DEF RoomFits, Hosted, Follows

(* A new room of a search. *)
Added(s, q) ==
    s = Len(room) + 1 /\ s <= MaxRooms[q.pool] /\ q.pooled /\ Kind[q.pool] # "raid"

(* The room in which a ticket settles. *)
LEMMA SettleRoom ==
    ASSUME RoomsFit, NEW t, NEW s, NEW q, RoomFits(q), Settle(t, s, q),
           (s \in Rooms /\ Follows(room[s], q)) \/ Added(s, q)
    PROVE  /\ RoomsFit' /\ Evolves /\ Rooms' = Rooms \cup {s}
           /\ room'[s] = IF StillSearching(q) THEN q ELSE Closed(q)
           /\ s \in Rooms => Len(room') = Len(room)
           /\ s \notin Rooms => Len(room') = Len(room) + 1
<1> DEFINE final == IF StillSearching(q) THEN q ELSE Closed(q)
<1>1. room' = IF s \in Rooms THEN [room EXCEPT ![s] = final] ELSE Append(room, final)
  BY DEF Settle
<1>2. RoomFits(final)
  BY ClosedFits DEF RoomFits, Hosted
<1>3. final.pool = q.pool /\ final.pooled = q.pooled
  BY ClosedFits DEF RoomFits
<1>4. s \in Rooms => Follows(room[s], final)
  <2>1. CASE s \in Rooms
    <3>1. Follows(room[s], q)
      BY <2>1, RoomNumbers DEF Added
    <3>2. QED BY <3>1, FollowsClosed
  <2>2. QED BY <2>1
<1> HIDE DEF final
<1>5. CASE s \in Rooms
  <2>1. room' = [room EXCEPT ![s] = final]
    BY <1>1, <1>5
  <2>2. RoomsFit' /\ Evolves /\ Rooms' = Rooms
    BY <1>2, <1>4, <1>5, <2>1, RoomChanges
  <2>3. room'[s] = final /\ Len(room') = Len(room)
    BY <1>5, <2>1, RoomNumbers DEF RoomsFit, Rooms
  <2>4. QED BY <1>5, <2>2, <2>3 DEF final
<1>6. CASE s \notin Rooms
  <2>1. /\ room' = Append(room, final) /\ s = Len(room) + 1 /\ s <= MaxRooms[final.pool]
        /\ final.pooled /\ Kind[final.pool] # "raid"
    BY <1>1, <1>3, <1>6 DEF Added
  <2>2. RoomsFit' /\ Evolves /\ Rooms' = Rooms \cup {s} /\ room'[s] = final
    BY <1>2, <2>1, RoomIsAdded
  <2>3. Len(room') = Len(room) + 1
    BY <2>1, AppendProperties, <1>2 DEF RoomsFit, RoomFits, RosterFits
  <2>4. QED BY <1>6, <2>2, <2>3 DEF final
<1>7. QED BY <1>5, <1>6

LEMMA SettleSecures ==
    ASSUME IInv, NEW s, NEW q, RoomFits(q),
           \/ /\ s \in Rooms /\ Follows(room[s], q) /\ Spares(room[s], q)
              /\ UNCHANGED ruler
           \/ Added(s, q) /\ ruler' = Append(ruler, NoSeat),
           NEW t, Settle(t, s, q)
    PROVE  Secures
<1>1. RoomsFit /\ GamesyncFit /\ Rooms = 1..Len(room) /\ Len(room) \in Nat
  BY RoomNumbers DEF IInv
<1>2. ruler \in Seq(Ruler) /\ Len(ruler) = Len(room)
  BY <1>1 DEF GamesyncFit
<1> DEFINE final == IF StillSearching(q) THEN q ELSE Closed(q)
<1>3. final.users = q.users /\ (final.open => q.open)
  BY ClosedFits DEF RoomFits
<1>4. room' = IF s \in Rooms THEN [room EXCEPT ![s] = final] ELSE Append(room, final)
  BY DEF Settle
<1>5. final \in RoomState
  BY ClosedFits DEF RoomFits, RosterFits
<1> HIDE DEF final
<1>6. ASSUME NEW z \in Rooms
      PROVE  /\ room'[z] = IF z = s THEN final ELSE room[z]
             /\ ruler'[z] = ruler[z]
  <2>1. CASE s \in Rooms
    <3>1. ruler' = ruler
      BY <1>1, <2>1 DEF Added
    <3>2. QED BY <1>4, <2>1, <3>1 DEF Rooms
  <2>2. CASE s \notin Rooms
    <3>1. room' = Append(room, final) /\ ruler' = Append(ruler, NoSeat)
      BY <1>4, <2>2
    <3>2. NoSeat \in Ruler
      BY DEF Ruler
    <3>3. QED BY <1>1, <1>2, <1>5, <2>2, <3>1, <3>2, AppendProperties DEF RoomsFit
  <2>3. QED BY <2>1, <2>2
<1>7. ASSUME NEW z \in Rooms
      PROVE  Secure(z)
  <2>1. CASE z = s
    <3>1. Spares(room[s], q)
      BY <1>1, <2>1 DEF Added
    <3>2. QED BY <1>3, <1>6, <2>1, <3>1 DEF Secure, Spares, Fresh
  <2>2. CASE z # s
    BY <1>6, <2>2 DEF Secure, Fresh
  <2>3. QED BY <2>1, <2>2
<1>8. QED BY <1>7 DEF Secures

LEMMA SettleOffers ==
    ASSUME IInv, NEW t \in Ticket, t \in Live, NEW s, NEW q, RoomFits(q), q.pooled,
           Holds(q.members, tickets[t].user), Settle(t, s, q),
           (s \in Rooms /\ Follows(room[s], q)) \/ Added(s, q), Secures
    PROVE  /\ OffersFit' /\ s # 0
           /\ \/ pc' = [pc EXCEPT ![t] = "SEARCHING"]
              \/ pc' = [pc EXCEPT ![t] = "PLACING"]
           /\ pc'[t] = "PLACING" => Complete(room'[s], tickets[t].user)
<1> DEFINE x == SeatOf(q.members, tickets[t].user)
<1>1. RoomsFit /\ TicketsFit /\ OffersFit
  BY DEF IInv
<1>2. /\ RoomsFit' /\ Evolves /\ Rooms' = Rooms \cup {s}
      /\ room'[s] = IF StillSearching(q) THEN q ELSE Closed(q)
  BY <1>1, SettleRoom
<1>3. s # 0
  BY <1>1, RoomNumbers DEF Added
<1>4. x \in Seat /\ x \in q.users /\ x[2] = tickets[t].user
  <2>1. x \in q.members /\ x[2] = tickets[t].user
    BY SeatOfIsThere
  <2>2. q.members = q.users /\ q.users \in SUBSET Seat
    BY RosterType DEF RoomFits, RosterFits
  <2>3. QED BY <2>1, <2>2
<1>5. pc \in [Ticket -> StreamState] /\ offered \in [Ticket -> (Rooms \X Seat) \cup {NoOffer}]
  BY <1>1 DEF TicketsFit, OffersFit
<1> HIDE DEF x
<1>6. CASE StillSearching(q)
  <2>1. pc' = [pc EXCEPT ![t] = "SEARCHING"] /\ offered' = offered
    BY <1>6 DEF Settle
  <2>2. \A u \in Ticket : pc'[u] = "PLACING" => pc[u] = "PLACING"
    BY <1>5, <2>1
  <2>3. OffersFit'
    BY <1>2, <2>1, <2>2, OffersFollow
  <2>4. QED BY <1>3, <1>5, <2>1, <2>3
<1>7. CASE ~ StillSearching(q)
  <2>1. pc' = [pc EXCEPT ![t] = "PLACING"] /\ offered' = [offered EXCEPT ![t] = <<s, x>>]
    BY <1>7 DEF Settle, x
  <2>2. /\ RosterFits(room'[s]) /\ room'[s].pool = q.pool /\ room'[s].users = q.users
        /\ room'[s].count = q.count /\ room'[s].max = q.max
        /\ Kind[q.pool] = "coded" => ~ room'[s].open
    BY <1>2, <1>7, ClosedFits DEF RoomFits
  <2>3. <<s, x>> \in Rooms' \X Seat
    BY <1>2, <1>4
  <2>4. Kind[q.pool] = "coded" => q.count = Capacity[q.pool] /\ q.count = q.max
    <3>1. q.count \in Nat /\ q.max \in Nat /\ q.count <= q.max
          /\ (Kind[q.pool] = "coded" => q.max = Capacity[q.pool])
      BY RosterType DEF RoomFits, RosterFits
    <3>2. QED BY <1>7, <3>1 DEF StillSearching
  <2>5. Locked(s)'
    BY <2>2, <2>4 DEF Locked, Coded
  <2>6. NoOffer \notin Rooms' \X Seat /\ Rooms \subseteq Rooms'
    BY <1>2 DEF NoOffer, NoSeat, Seat
  <2>7. ASSUME NEW u \in Ticket
        PROVE  /\ offered'[u] \in (Rooms' \X Seat) \cup {NoOffer}
               /\ pc'[u] = "PLACING" => offered'[u] \in Rooms' \X Seat
               /\ \A z \in Rooms' : offered'[u] \in Rooms' \X Seat /\ z = offered'[u][1]
                     => Locked(z)'
    <3>1. CASE u = t
      <4>1. offered'[u] = <<s, x>> /\ offered'[u][1] = s
        BY <1>5, <2>1, <3>1
      <4>2. QED BY <2>3, <2>5, <4>1
    <3>2. CASE u # t
      <4>1. offered'[u] = offered[u] /\ pc'[u] = pc[u]
        BY <1>5, <2>1, <3>2
      <4>2. offered[u] \in (Rooms \X Seat) \cup {NoOffer}
            /\ (pc[u] = "PLACING" => offered[u] \in Rooms \X Seat)
        BY <1>1 DEF OffersFit
      <4>3. offered[u] \in Rooms' \X Seat => offered[u] \in Rooms \X Seat
        BY <2>6, <4>2
      <4>4. ASSUME NEW z \in Rooms, offered[u] \in Rooms \X Seat, z = offered[u][1]
            PROVE  Locked(z)'
        <5>1. Locked(z)
          BY <1>1, <4>4 DEF OffersFit
        <5>2. QED BY <1>2, <5>1, LockStays DEF Secures
      <4>5. Rooms \X Seat \subseteq Rooms' \X Seat
        BY <2>6
      <4>6. QED BY <4>1, <4>2, <4>3, <4>4, <4>5
    <3>3. QED BY <3>1, <3>2
  <2>8. OffersFit'
    <3>1. offered' \in [Ticket -> (Rooms' \X Seat) \cup {NoOffer}]
      <4>1. DOMAIN offered' = Ticket /\ offered' = [u \in Ticket |-> offered'[u]]
        BY <1>5, <2>1
      <4>2. QED BY <2>7, <4>1
    <3>2. \A u \in Ticket : offered'[u] \in Rooms' \X Seat => offered'[u][1] \in Rooms'
      OBVIOUS
    <3>3. QED BY <2>7, <3>1, <3>2 DEF OffersFit, Locked, Coded, Fresh
  <2>9. Complete(room'[s], tickets[t].user)
    <3>1. tickets[t].user \in {y[2] : y \in room'[s].users}
      BY <1>4, <2>2
    <3>2. QED BY <2>2, <2>4, <3>1, PlayersAreSeats DEF Complete
  <2>10. QED BY <1>3, <2>1, <2>8, <2>9
<1>8. QED BY <1>6, <1>7

(* What OnlyCompleteGroups says of a step. *)
Announces ==
    \A t \in Ticket :
        LET s == ticketRoom'[t] IN
        pc[t] # "PLACING" /\ pc'[t] = "PLACING" /\ Kind[tickets[t].pool] = "coded"
        => /\ Cardinality({x[2] : x \in room'[s].users}) = Capacity[room'[s].pool]
           /\ tickets[t].user \in {x[2] : x \in room'[s].users}

StepFits == IInv' /\ Evolves /\ Secures /\ Announces

LEMMA SettleFits ==
    ASSUME IInv, NEW t \in Ticket, t \in Live, NEW s, NEW q, RoomFits(q), q.pooled,
           Holds(q.members, tickets[t].user), Settle(t, s, q),
           (s \in Rooms /\ Follows(room[s], q) /\ Spares(room[s], q)) \/ Added(s, q),
           Serves(q, tickets[t].pool), ticketRoom' = [ticketRoom EXCEPT ![t] = s],
           IF s \in Rooms THEN UNCHANGED <<poolRooms, ruler>>
           ELSE /\ poolRooms' = [poolRooms EXCEPT ![q.pool] = Append(@, s)]
                /\ ruler' = Append(ruler, NoSeat),
           UNCHANGED <<tickets, creations, tokens, connected, reopening>>
    PROVE  StepFits
<1>1. RoomsFit /\ PoolsFit /\ TicketsFit /\ OffersFit /\ CreationsFit /\ GamesyncFit
  BY DEF IInv
<1>2. /\ RoomsFit' /\ Evolves /\ Rooms' = Rooms \cup {s}
      /\ room'[s] = IF StillSearching(q) THEN q ELSE Closed(q)
      /\ s \in Rooms => Len(room') = Len(room)
      /\ s \notin Rooms => Len(room') = Len(room) + 1
  BY <1>1, SettleRoom
<1>0. Secures
  <2>1. s \notin Rooms => Added(s, q)
    OBVIOUS
  <2>2. Added(s, q) => s \notin Rooms
    BY <1>1, RoomNumbers DEF Added
  <2>3. QED BY <2>1, <2>2, SettleSecures
<1>3. /\ OffersFit' /\ s # 0
      /\ \/ pc' = [pc EXCEPT ![t] = "SEARCHING"]
         \/ pc' = [pc EXCEPT ![t] = "PLACING"]
      /\ pc'[t] = "PLACING" => Complete(room'[s], tickets[t].user)
  BY <1>0, SettleOffers
<1>4. room'[s].pool = q.pool /\ room'[s].pooled
  BY <1>2, ClosedFits DEF RoomFits
<1>5. pc \in [Ticket -> StreamState] /\ ticketRoom \in [Ticket -> Rooms \cup {0}]
  BY <1>1 DEF TicketsFit
<1>6. ticketRoom'[t] = s /\ \A u \in Ticket \ {t} : ticketRoom'[u] = ticketRoom[u]
  BY <1>5
<1>7. /\ pc' \in [Ticket -> StreamState] /\ pc'[t] # "idle"
      /\ \A u \in Ticket \ {t} : pc'[u] = pc[u]
  BY <1>3, <1>5 DEF StreamState, TicketState
<1>8. TicketsFit'
  <2>1. ticketRoom' \in [Ticket -> Rooms' \cup {0}]
    BY <1>2, <1>5
  <2>2. ASSUME NEW u \in Live, ticketRoom'[u] # 0
        PROVE  Serves(room'[ticketRoom'[u]], tickets[u].pool)
    <3>1. CASE u = t
      BY <1>4, <1>6, <3>1 DEF Serves
    <3>2. CASE u # t
      <4>1. u \in Ticket /\ ticketRoom'[u] = ticketRoom[u] /\ ticketRoom[u] \in Rooms
        BY <1>1, <1>5, <1>6, <2>2, <3>2 DEF TicketsFit
      <4>2. /\ room'[ticketRoom[u]].pool = room[ticketRoom[u]].pool
            /\ room[ticketRoom[u]].pooled => room'[ticketRoom[u]].pooled
        BY <1>2, <4>1 DEF Evolves, Follows
      <4>3. QED BY <1>1, <2>2, <4>1, <4>2 DEF TicketsFit, Serves
    <3>3. QED BY <3>1, <3>2
  <2>3. \A u \in Ticket : pc'[u] = "idle" => ticketRoom'[u] = 0
    BY <1>1, <1>6, <1>7 DEF TicketsFit
  <2>4. Live' = Live
    BY DEF Live
  <2>5. QED BY <1>1, <1>7, <2>1, <2>2, <2>3, <2>4 DEF TicketsFit
<1>9. PoolsFit'
  <2>1. CASE s \in Rooms
    BY <1>1, <1>2, <2>1, PoolsStay
  <2>2. CASE s \notin Rooms
    <3>1. q.pool \in Pool /\ poolRooms' = [poolRooms EXCEPT ![q.pool] = Append(@, s)]
      BY <2>2, RosterType DEF RoomFits
    <3>2. ASSUME NEW pl \in Pool
          PROVE  /\ poolRooms'[pl] \in Seq(Rooms')
                 /\ \A i \in DOMAIN poolRooms'[pl] :
                       room'[poolRooms'[pl][i]].pool = pl /\ room'[poolRooms'[pl][i]].pooled
      <4>1. poolRooms[pl] \in Seq(Rooms) /\ poolRooms[pl] \in Seq(Rooms')
        <5>1. poolRooms[pl] \in Seq(Rooms) /\ Rooms \subseteq Rooms'
          BY <1>1, <1>2 DEF PoolsFit
        <5>2. QED BY <5>1, SeqMonotonic
      <4>2. \A i \in DOMAIN poolRooms[pl] :
               room'[poolRooms[pl][i]].pool = pl /\ room'[poolRooms[pl][i]].pooled
        <5>1. \A i \in DOMAIN poolRooms[pl] : poolRooms[pl][i] \in Rooms
          BY <4>1, ElementOfSeq, LenProperties
        <5>2. QED BY <1>1, <1>2, <5>1 DEF PoolsFit, Evolves, Follows
      <4>3. CASE pl = q.pool
        <5>1. poolRooms'[pl] = Append(poolRooms[pl], s) /\ s \in Rooms'
          BY <1>1, <1>2, <3>1, <4>3 DEF PoolsFit
        <5>2. /\ poolRooms'[pl] \in Seq(Rooms')
              /\ Len(poolRooms'[pl]) = Len(poolRooms[pl]) + 1
              /\ \A i \in 1..Len(poolRooms[pl]) : poolRooms'[pl][i] = poolRooms[pl][i]
              /\ poolRooms'[pl][Len(poolRooms[pl]) + 1] = s
              /\ Len(poolRooms[pl]) \in Nat
              /\ DOMAIN poolRooms[pl] = 1..Len(poolRooms[pl])
              /\ DOMAIN poolRooms'[pl] = 1..(Len(poolRooms[pl]) + 1)
          BY <4>1, <5>1, AppendProperties, LenProperties
        <5>3. \A i \in DOMAIN poolRooms'[pl] :
                 i \in DOMAIN poolRooms[pl] \/ i = Len(poolRooms[pl]) + 1
          BY <5>2
        <5>4. ASSUME NEW i \in DOMAIN poolRooms'[pl]
              PROVE  room'[poolRooms'[pl][i]].pool = pl /\ room'[poolRooms'[pl][i]].pooled
          <6>1. CASE i \in DOMAIN poolRooms[pl]
            <7>1. poolRooms'[pl][i] = poolRooms[pl][i]
              BY <5>2, <6>1
            <7>2. QED BY <4>2, <6>1, <7>1
          <6>2. CASE i = Len(poolRooms[pl]) + 1
            <7>1. poolRooms'[pl][i] = s
              BY <5>2, <6>2
            <7>2. QED BY <1>4, <4>3, <7>1
          <6>3. QED BY <5>3, <6>1, <6>2
        <5>5. QED BY <5>2, <5>4
      <4>4. CASE pl # q.pool
        <5>1. poolRooms'[pl] = poolRooms[pl]
          BY <1>1, <3>1, <4>4 DEF PoolsFit
        <5>2. QED BY <4>1, <4>2, <5>1
      <4>5. QED BY <4>3, <4>4
    <3>3. DOMAIN poolRooms' = Pool
      BY <1>1, <3>1 DEF PoolsFit
    <3>4. poolRooms' \in [Pool -> Seq(Rooms')]
      BY <1>1, <3>1, <3>2, <3>3 DEF PoolsFit
    <3>5. QED BY <3>2, <3>4 DEF PoolsFit
  <2>3. QED BY <2>1, <2>2
<1>10. CreationsFit'
  BY <1>1, <1>2, CreationsStay
<1>11. GamesyncFit'
  <2>1. CASE s \in Rooms
    BY <1>1, <1>2, <2>1, GamesyncStays
  <2>2. CASE s \notin Rooms
    <3>1. ruler' \in Seq(Ruler) /\ Len(ruler') = Len(ruler) + 1
      <4>1. ruler' = Append(ruler, NoSeat)
        BY <2>2
      <4>2. NoSeat \in Ruler
        BY DEF Ruler
      <4>3. ruler \in Seq(Ruler)
        BY <1>1 DEF GamesyncFit
      <4>4. QED BY <4>1, <4>2, <4>3, AppendProperties
    <3>2. \A z \in Rooms, x \in Seat : <<z, x>> \in connected => ruler'[z] # NoSeat
      <4>1. \A z \in Rooms : ruler'[z] = ruler[z]
        BY <1>1, <2>2, RoomNumbers, AppendProperties DEF GamesyncFit, Ruler
      <4>2. QED BY <1>1, <4>1 DEF GamesyncFit, Fresh
    <3>3. connected \subseteq Rooms \X Seat
      BY <1>1 DEF GamesyncFit
    <3>4. QED BY <1>1, <1>2, <2>2, <3>1, <3>2, <3>3 DEF GamesyncFit, Fresh
  <2>3. QED BY <2>1, <2>2
<1>12. Announces
  <2>1. ASSUME NEW u \in Ticket, pc[u] # "PLACING", pc'[u] = "PLACING",
               Kind[tickets[u].pool] = "coded"
        PROVE  /\ Cardinality({y[2] : y \in room'[ticketRoom'[u]].users})
                     = Capacity[room'[ticketRoom'[u]].pool]
               /\ tickets[u].user \in {y[2] : y \in room'[ticketRoom'[u]].users}
    <3>1. u = t
      BY <1>7, <2>1
    <3>2. ticketRoom'[u] = s /\ Complete(room'[s], tickets[u].user)
      BY <1>3, <1>6, <2>1, <3>1
    <3>3. Kind[room'[s].pool] = "coded"
      BY <1>4, <2>1, <3>1 DEF Serves
    <3>4. QED BY <3>2, <3>3 DEF Complete
  <2>2. QED BY <2>1 DEF Announces
<1>13. QED BY <1>0, <1>2, <1>3, <1>8, <1>9, <1>10, <1>11, <1>12 DEF StepFits, IInv

LEMMA NobodyMoves ==
    ASSUME IInv, UNCHANGED <<room, ruler>>
    PROVE  Secures
  BY DEF Secures, Secure, Fresh

(* A step after which rooms are as they were, or less than that. *)
LEMMA RestStays ==
    ASSUME IInv, RoomsFit', Evolves, Secures, Len(room') = Len(room),
           UNCHANGED <<poolRooms, offered, creations>>, TicketsFit', GamesyncFit',
           \A u \in Ticket : pc'[u] = "PLACING" => pc[u] = "PLACING"
    PROVE  StepFits
<1>1. PoolsFit' /\ OffersFit' /\ CreationsFit'
  BY PoolsStay, OffersFollow, CreationsStay DEF IInv
<1>2. Announces
  BY DEF Announces
<1>3. QED BY <1>1, <1>2 DEF StepFits, IInv

LEMMA PollFailedFits ==
    ASSUME IInv, NEW t \in Ticket, PollFailed(t)
    PROVE  StepFits
<1>1. RoomsFit /\ TicketsFit /\ GamesyncFit
  BY DEF IInv
<1>2. RoomsFit' /\ Evolves /\ Rooms' = Rooms
  BY <1>1, RoomsStay DEF PollFailed
<1>3. /\ pc' \in [Ticket -> StreamState]
      /\ \A u \in Ticket : pc'[u] \in {pc[u], "FAILED", "returning"}
  BY <1>1 DEF PollFailed, TicketsFit, StreamState, TicketState
<1>4. TicketsFit'
  BY <1>1, <1>2, <1>3, TicketsFollow DEF PollFailed, TicketsFit, Live
<1>5. GamesyncFit'
  BY <1>1, <1>2, GamesyncStays DEF PollFailed, gamesync
<1>6. QED BY <1>2, <1>3, <1>4, <1>5, RestStays, NobodyMoves DEF PollFailed, gamesync

LEMMA PollSeatedFits ==
    ASSUME IInv, NEW t \in Ticket, PollSeated(t)
    PROVE  StepFits
<1> DEFINE s == ticketRoom[t]
<1>1. t \in Live /\ s \in Rooms /\ Serves(room[s], tickets[t].pool)
  BY DEF PollSeated, IInv, TicketsFit
<1>2. RoomFits(room[s]) /\ Holds(room[s].members, tickets[t].user)
  BY <1>1 DEF PollSeated, IInv, RoomsFit
<1>3. room[s].pooled
  BY <1>2 DEF RoomFits, RosterFits, Holds
<1>4. Follows(room[s], room[s]) /\ Spares(room[s], room[s])
  BY DEF Follows, Spares
<1>5. ticketRoom' = [ticketRoom EXCEPT ![t] = s]
  BY DEF PollSeated, IInv, TicketsFit
<1>6. Settle(t, s, room[s]) /\ UNCHANGED <<poolRooms, tickets, creations, tokens, gamesync>>
  BY DEF PollSeated
<1> HIDE DEF s
<1>7. QED BY <1>1, <1>2, <1>3, <1>4, <1>5, <1>6, SettleFits DEF gamesync

(* The room a coded or circle search finds. *)
LEMMA ChoiceFits ==
    ASSUME IInv, NEW pl \in Pool, NEW p, Choice(pl, p) # 0
    PROVE  LET s == Choice(pl, p) IN
           /\ s \in Rooms /\ room[s].pool = pl /\ room[s].pooled /\ Joinable(s)
           /\ Holds(room[s].users, p) \/ room[s].count + 1 <= room[s].max
<1>1. poolRooms[pl] \in Seq(Rooms) /\ DOMAIN poolRooms[pl] \subseteq Nat
  <2>1. poolRooms[pl] \in Seq(Rooms)
    BY DEF IInv, PoolsFit
  <2>2. QED BY <2>1, LenProperties
<1>2. \A i \in DOMAIN poolRooms[pl] :
         /\ poolRooms[pl][i] \in Rooms /\ room[poolRooms[pl][i]].pool = pl
         /\ room[poolRooms[pl][i]].pooled
         /\ room[poolRooms[pl][i]].members = room[poolRooms[pl][i]].users
  <2>1. \A i \in DOMAIN poolRooms[pl] : poolRooms[pl][i] \in Rooms
    BY <1>1, ElementOfSeq, LenProperties
  <2>2. QED BY <2>1 DEF IInv, PoolsFit, RoomsFit, RoomFits, RosterFits
<1>3. CASE Mine(pl, p) # {}
  <2>1. First(Mine(pl, p)) \in Mine(pl, p)
    BY <1>1, <1>3, FirstIsThere DEF Mine
  <2>2. Choice(pl, p) = poolRooms[pl][First(Mine(pl, p))]
    BY <1>3 DEF Choice
  <2>3. PICK i \in DOMAIN poolRooms[pl] :
           /\ Choice(pl, p) = poolRooms[pl][i] /\ Joinable(poolRooms[pl][i])
           /\ Holds(room[poolRooms[pl][i]].members, p)
    BY <2>1, <2>2 DEF Mine
  <2>4. QED BY <1>2, <2>3
<1>4. CASE Mine(pl, p) = {} /\ Free(pl) # {}
  <2>1. First(Free(pl)) \in Free(pl)
    BY <1>1, <1>4, FirstIsThere DEF Free
  <2>2. Choice(pl, p) = poolRooms[pl][First(Free(pl))]
    BY <1>4 DEF Choice
  <2>3. PICK i \in DOMAIN poolRooms[pl] :
           /\ Choice(pl, p) = poolRooms[pl][i] /\ Joinable(poolRooms[pl][i])
           /\ Vacant(poolRooms[pl][i])
    BY <2>1, <2>2 DEF Free
  <2>4. QED BY <1>2, <2>3 DEF Vacant
<1>5. QED BY <1>3, <1>4 DEF Choice

(* One more player in a pooled room that can be joined. *)
LEMMA AdmitFollows ==
    ASSUME NEW r, RosterFits(r), r.pooled, NEW p \in Player, r.admissions < MaxAdmissions,
           Holds(r.users, p) \/ r.count + 1 <= r.max, Hosted(r),
           NEW o, o.pool = r.pool, o.active = TRUE, o.open = TRUE, o.max = r.max,
           o.count = r.count, o.users = r.users,
           Kind[r.pool] # "raid" => o.pooled = r.pooled
    PROVE  LET q == Admit(r, p) IN
           /\ RoomFits(q) /\ q.pooled /\ Holds(q.members, p) /\ q.pool = r.pool
           /\ Follows(o, q) /\ Spares(o, q)
<1> DEFINE q == Admit(r, p)
<1>1. /\ RosterFits(q) /\ q.pooled /\ Holds(q.members, p) /\ q.users # {}
      /\ q.pool = r.pool /\ q.active = r.active /\ r.users \subseteq q.users
      /\ q.max = r.max /\ (Holds(r.users, p) => q = r)
  BY AdmitFits
<1> HIDE DEF q
<1>2. RoomFits(q)
  BY <1>1 DEF RoomFits, Hosted
<1>3. q.pooled = r.pooled
  BY <1>1, RosterType
<1>4. Follows(o, q)
  BY <1>1, <1>3 DEF Follows
<1>5. Spares(o, q)
  <2>1. r.count \in Nat /\ r.max \in Nat
    BY RosterType
  <2>2. QED BY <1>1, <2>1 DEF Spares
<1>6. QED BY <1>1, <1>2, <1>4, <1>5 DEF q

LEMMA PollUnseatedFits ==
    ASSUME IInv, NEW t \in Ticket, PollUnseated(t)
    PROVE  StepFits
<1> DEFINE p == tickets[t].user
           pl == tickets[t].pool
<1>1. t \in Live /\ p \in Player /\ pl \in Pool
  BY DEF PollUnseated, IInv, TicketsFit, MatchmakingTicket
<1>2. RoomsFit /\ TicketsFit /\ GamesyncFit /\ PoolsFit
  BY DEF IInv
<1>3. UNCHANGED <<tickets, creations, tokens, connected, reopening>>
  BY DEF PollUnseated
<1>4. CASE /\ Kind[pl] = "raid" /\ RaidRooms(t) = {}
           /\ pc' = [pc EXCEPT ![t] = "SEARCHING"]
           /\ UNCHANGED <<room, poolRooms, ticketRoom, offered, ruler>>
  <2>1. RoomsFit' /\ Evolves /\ Rooms' = Rooms
    BY <1>2, <1>4, RoomsStay
  <2>2. /\ pc' \in [Ticket -> StreamState]
        /\ \A u \in Ticket : pc'[u] \in {pc[u], "SEARCHING"}
    BY <1>2, <1>4 DEF TicketsFit, StreamState, TicketState
  <2>3. TicketsFit'
    BY <1>2, <1>3, <1>4, <2>1, <2>2, TicketsFollow DEF TicketsFit, Live
  <2>4. GamesyncFit'
    BY <1>2, <1>3, <1>4, <2>1, GamesyncStays
  <2>5. QED BY <1>3, <1>4, <2>1, <2>2, <2>3, <2>4, RestStays, NobodyMoves
<1>5. ASSUME Kind[pl] = "raid", NEW s \in RaidRooms(t),
             room[s].admissions < MaxAdmissions,
             Settle(t, s, Admit(AsPooled(room[s]), p)),
             ticketRoom' = [ticketRoom EXCEPT ![t] = s],
             UNCHANGED <<poolRooms, ruler>>
      PROVE  StepFits
  <2> DEFINE r == AsPooled(room[s])
             q == Admit(r, p)
  <2>1. s \in Rooms /\ Raid(s) /\ Joinable(s) /\ Vacant(s)
    BY DEF RaidRooms
  <2>2. RoomFits(room[s])
    BY <1>2, <2>1 DEF RoomsFit
  <2>3. /\ RosterFits(r) /\ r.pooled /\ r.users = room[s].users /\ r.pool = room[s].pool
        /\ r.active = room[s].active /\ r.count = room[s].count /\ r.max = room[s].max
        /\ r.admissions = room[s].admissions
    BY <2>1, <2>2, AsPooledFits DEF RoomFits, Raid
  <2>4. Hosted(r)
    BY <2>2, <2>3 DEF RoomFits, Hosted
  <2>5. room[s].active = TRUE /\ room[s].open = TRUE /\ r.count + 1 <= r.max
    BY <2>1, <2>2, <2>3, RosterType DEF Joinable, Vacant, RoomFits
  <2> HIDE DEF r
  <2>6. /\ RoomFits(q) /\ q.pooled /\ Holds(q.members, p) /\ q.pool = r.pool
        /\ Follows(room[s], q) /\ Spares(room[s], q)
    BY <1>1, <1>5, <2>1, <2>3, <2>4, <2>5, AdmitFollows DEF Raid
  <2>7. Serves(q, pl) /\ Settle(t, s, q)
    BY <1>5, <2>1, <2>3, <2>6 DEF Raid, r, Serves
  <2> HIDE DEF q
  <2>8. QED BY <1>1, <1>3, <1>5, <2>1, <2>6, <2>7, SettleFits
<1>6. CASE /\ Kind[pl] # "raid" /\ Choice(pl, p) # 0
           /\ room[Choice(pl, p)].admissions < MaxAdmissions
           /\ Settle(t, Choice(pl, p), Admit(room[Choice(pl, p)], p))
           /\ ticketRoom' = [ticketRoom EXCEPT ![t] = Choice(pl, p)]
           /\ UNCHANGED <<poolRooms, ruler>>
  <2> DEFINE s == Choice(pl, p)
             q == Admit(room[s], p)
  <2>1. /\ s \in Rooms /\ room[s].pool = pl /\ room[s].pooled /\ Joinable(s)
        /\ Holds(room[s].users, p) \/ room[s].count + 1 <= room[s].max
    BY <1>1, <1>6, ChoiceFits
  <2>2. Settle(t, s, q) /\ ticketRoom' = [ticketRoom EXCEPT ![t] = s]
        /\ room[s].admissions < MaxAdmissions
    BY <1>6
  <2> HIDE DEF s
  <2>3. RoomFits(room[s])
    BY <1>2, <2>1 DEF RoomsFit
  <2>4. room[s].active = TRUE /\ room[s].open = TRUE
    BY <2>1, <2>3, RosterType DEF Joinable, RoomFits
  <2>5. /\ RoomFits(q) /\ q.pooled /\ Holds(q.members, p) /\ q.pool = pl
        /\ Follows(room[s], q) /\ Spares(room[s], q)
    BY <1>1, <2>1, <2>2, <2>3, <2>4, AdmitFollows DEF RoomFits
  <2> HIDE DEF q
  <2>6. QED BY <1>1, <1>3, <1>6, <2>1, <2>2, <2>5, SettleFits DEF Serves
<1>7. CASE /\ Kind[pl] # "raid" /\ Choice(pl, p) = 0 /\ Len(room) < MaxRooms[pl]
           /\ Settle(t, Len(room) + 1, Admit(NewRoom(pl), p))
           /\ ticketRoom' = [ticketRoom EXCEPT ![t] = Len(room) + 1]
           /\ poolRooms' = [poolRooms EXCEPT ![pl] = Append(@, Len(room) + 1)]
           /\ ruler' = Append(ruler, NoSeat)
  <2> DEFINE s == Len(room) + 1
             q == Admit(NewRoom(pl), p)
  <2>1. /\ RosterFits(NewRoom(pl)) /\ NewRoom(pl).pooled /\ NewRoom(pl).pool = pl
        /\ NewRoom(pl).admissions = 0 /\ NewRoom(pl).count = 0 /\ NewRoom(pl).max \in Nat \ {0}
    BY <1>1, NewRoomFits
  <2>2. NewRoom(pl).admissions < MaxAdmissions /\ NewRoom(pl).count + 1 <= NewRoom(pl).max
    BY <2>1, BoundAssumption
  <2>3. /\ RosterFits(q) /\ q.pooled /\ Holds(q.members, p) /\ q.users # {} /\ q.pool = pl
    BY <1>1, <2>1, <2>2, AdmitFits
  <2>4. RoomFits(q)
    BY <1>7, <2>3 DEF RoomFits, Hosted
  <2>5. s \notin Rooms /\ s <= MaxRooms[pl]
    BY <1>1, <1>2, <1>7, RoomNumbers, BoundAssumption
  <2>6. Settle(t, s, q) /\ ticketRoom' = [ticketRoom EXCEPT ![t] = s]
        /\ poolRooms' = [poolRooms EXCEPT ![q.pool] = Append(@, s)]
    BY <1>7, <2>3
  <2>7. s = Len(room) + 1
    OBVIOUS
  <2> HIDE DEF s, q
  <2>8. QED BY <1>1, <1>3, <1>7, <2>3, <2>4, <2>5, <2>6, <2>7, SettleFits DEF Serves, Added
<1>8. QED BY <1>4, <1>5, <1>6, <1>7 DEF PollUnseated

-----------------------------------------------------------------------------
(* Results, cancelled searches and new tickets *)

LEMMA SendResultFits ==
    ASSUME IInv, NEW t \in Ticket, SendResult(t)
    PROVE  StepFits
<1>1. RoomsFit /\ TicketsFit /\ OffersFit /\ GamesyncFit
  BY DEF IInv
<1>2. RoomsFit' /\ Evolves /\ Rooms' = Rooms
  BY <1>1, RoomsStay DEF SendResult
<1>3. /\ pc' \in [Ticket -> StreamState]
      /\ \A u \in Ticket : pc'[u] \in {pc[u], "SUCCEEDED"}
  BY <1>1 DEF SendResult, TicketsFit, StreamState, TicketState
<1>4. TicketsFit'
  BY <1>1, <1>2, <1>3, TicketsFollow DEF SendResult, TicketsFit, Live
<1>5. offered[t] \in Rooms \X Seat
  BY <1>1 DEF SendResult, OffersFit
<1>6. GamesyncFit'
  BY <1>1, <1>2, <1>5 DEF SendResult, gamesync, GamesyncFit, Fresh
<1>7. QED BY <1>2, <1>3, <1>4, <1>6, RestStays, NobodyMoves DEF SendResult, gamesync

(* A waiting coded player leaves his room with his ticket. *)
LEMMA CancelPendingFits ==
    ASSUME IInv, NEW t \in Ticket, Pending(t), CancelPending(t),
           pc' \in [Ticket -> StreamState], \A u \in Ticket : pc'[u] \in {pc[u], "ended"},
           UNCHANGED <<poolRooms, offered, creations, tokens, gamesync>>
    PROVE  StepFits
<1> DEFINE s == ticketRoom[t]
           q == Without(room[s], SeatsToRelease(t))
<1>1. RoomsFit /\ TicketsFit /\ GamesyncFit
  BY DEF IInv
<1>2. /\ t \in Live /\ s \in Rooms /\ Kind[room[s].pool] = "coded" /\ room[s].pooled
      /\ room[s].count < Capacity[room[s].pool]
  BY <1>1 DEF Pending, TicketsFit, Serves
<1>3. RosterFits(room[s])
  BY <1>1, <1>2 DEF RoomsFit, RoomFits
<1>4. /\ RosterFits(q) /\ q.users \subseteq room[s].users
      /\ q.pool = room[s].pool /\ q.pooled = room[s].pooled
      /\ (q.active => room[s].active /\ q.users # {}) /\ (q.open => room[s].open)
      /\ q.max = room[s].max
  BY <1>3, WithoutFits
<1>5. room' = [room EXCEPT ![s] = q]
  BY DEF CancelPending
<1> HIDE DEF s, q
<1>6. RoomFits(q) /\ Follows(room[s], q)
  BY <1>2, <1>4 DEF RoomFits, Hosted, Follows
<1>7. RoomsFit' /\ Evolves /\ Rooms' = Rooms
  BY <1>1, <1>2, <1>5, <1>6, RoomChanges
<1>8. Len(room') = Len(room)
  BY <1>1, <1>5 DEF RoomsFit
<1>9. TicketsFit'
  <2>1. Live' = Live \ {t} /\ \A u \in Live' : tickets'[u] = tickets[u]
    BY DEF CancelPending, WithoutTicket, Live
  <2>2. tickets' \in [Live' -> MatchmakingTicket]
    BY <1>1, <2>1 DEF CancelPending, WithoutTicket, Live, TicketsFit
  <2>3. ticketRoom' \in [Ticket -> Rooms \cup {0}]
        /\ \A u \in Ticket : ticketRoom'[u] \in {ticketRoom[u], 0}
    BY <1>1 DEF CancelPending, TicketsFit
  <2>4. QED BY <1>1, <1>7, <2>1, <2>2, <2>3, TicketsFollow
<1>10. GamesyncFit'
  BY <1>1, <1>7, <1>8, GamesyncStays DEF gamesync
<1>11. Secures
  <2>1. room[s].count # room[s].max
    BY <1>2, <1>3, RosterType, PoolAssumption DEF RosterFits
  <2>2. \A z \in Rooms : room'[z] = IF z = s THEN q ELSE room[z]
    BY <1>2, <1>5 DEF Rooms
  <2>3. QED BY <1>4, <2>1, <2>2 DEF Secures, Secure, Fresh, gamesync
<1>12. QED BY <1>7, <1>8, <1>9, <1>10, <1>11, RestStays

(* A ticket goes, or not, and no room changes. *)
LEMMA TicketGoes ==
    ASSUME IInv, NEW t \in Ticket, tickets' = tickets \/ tickets' = WithoutTicket(t),
           pc' \in [Ticket -> StreamState], \A u \in Ticket : pc'[u] \in {pc[u], "ended"},
           UNCHANGED <<room, ticketRoom, poolRooms, offered, creations, tokens, gamesync>>
    PROVE  StepFits
<1>1. RoomsFit /\ TicketsFit /\ GamesyncFit
  BY DEF IInv
<1>2. RoomsFit' /\ Evolves /\ Rooms' = Rooms
  BY <1>1, RoomsStay
<1>3. TicketsFit'
  <2>1. Live' \subseteq Live /\ \A u \in Live' : tickets'[u] = tickets[u]
    BY DEF WithoutTicket, Live
  <2>2. tickets' \in [Live' -> MatchmakingTicket]
    BY <1>1, <2>1 DEF WithoutTicket, Live, TicketsFit
  <2>3. ticketRoom' \in [Ticket -> Rooms \cup {0}] /\ ticketRoom' = ticketRoom
    BY <1>1 DEF TicketsFit
  <2>4. QED BY <1>1, <1>2, <2>1, <2>2, <2>3, TicketsFollow
<1>4. GamesyncFit'
  BY <1>1, <1>2, GamesyncStays DEF gamesync
<1>5. QED BY <1>2, <1>3, <1>4, RestStays, NobodyMoves DEF gamesync

LEMMA EndTrackingFits ==
    ASSUME IInv, NEW t \in Ticket, EndTracking(t)
    PROVE  StepFits
<1>1. pc' \in [Ticket -> StreamState] /\ \A u \in Ticket : pc'[u] \in {pc[u], "ended"}
  BY DEF EndTracking, IInv, TicketsFit, StreamState
<1>2. CASE Pending(t) /\ CancelPending(t)
  BY <1>1, <1>2, CancelPendingFits DEF EndTracking
<1>3. CASE ~ Pending(t)
  BY <1>1, <1>3, TicketGoes DEF EndTracking
<1>4. QED BY <1>2, <1>3 DEF EndTracking

LEMMA CancelFits ==
    ASSUME IInv, NEW t \in Ticket, Cancel(t)
    PROVE  StepFits
<1>1. pc' \in [Ticket -> StreamState] /\ \A u \in Ticket : pc'[u] \in {pc[u], "ended"}
  BY DEF Cancel, IInv, TicketsFit
<1>2. CASE Pending(t) /\ CancelPending(t)
  BY <1>1, <1>2, CancelPendingFits DEF Cancel
<1>3. CASE ~ Pending(t)
  BY <1>1, <1>3, TicketGoes DEF Cancel
<1>4. QED BY <1>2, <1>3 DEF Cancel

LEMMA CreateTicketFits ==
    ASSUME IInv, NEW t \in Ticket, NEW p \in Player, NEW q \in SearchRequests,
           CreateTicket(t, p, q)
    PROVE  StepFits
<1>1. RoomsFit /\ TicketsFit /\ GamesyncFit
  BY DEF IInv
<1>2. RoomsFit' /\ Evolves /\ Rooms' = Rooms
  BY <1>1, RoomsStay DEF CreateTicket
<1>3. /\ pc' \in [Ticket -> StreamState]
      /\ \A u \in Ticket : pc'[u] \in {pc[u], "entered"}
  BY <1>1 DEF CreateTicket, TicketsFit, StreamState
<1>4. Live' = Live \cup {t} /\ ticketRoom[t] = 0
  BY <1>1 DEF CreateTicket, Live, TicketsFit
<1>5. TicketsFit'
  <2>1. tickets' \in [Live' -> MatchmakingTicket]
        /\ \A u \in Live \ {t} : tickets'[u] = tickets[u]
    <3>1. [user |-> p, pool |-> q.pool, fits |-> q.fits] \in MatchmakingTicket
      BY PoolAssumption DEF MatchmakingTicket
    <3>2. QED BY <1>1, <1>4, <3>1 DEF CreateTicket, Live, TicketsFit
  <2>2. \A u \in Live' : ticketRoom[u] # 0 => u \in Live \ {t}
    BY <1>4
  <2>3. \A u \in Live : ticketRoom[u] # 0 => room'[ticketRoom[u]] = room[ticketRoom[u]]
    BY DEF CreateTicket
  <2>4. \A u \in Ticket : pc'[u] = "idle" => pc[u] = "idle"
    BY <1>3
  <2>5. ticketRoom' = ticketRoom /\ room' = room
    BY DEF CreateTicket
  <2>6. QED BY <1>1, <1>2, <1>3, <1>4, <2>1, <2>2, <2>4, <2>5 DEF TicketsFit
<1>6. GamesyncFit'
  BY <1>1, <1>2, GamesyncStays DEF CreateTicket, gamesync
<1>7. QED BY <1>2, <1>3, <1>5, <1>6, RestStays, NobodyMoves DEF CreateTicket, gamesync

-----------------------------------------------------------------------------
(* Created rooms and joins *)

(* A step of the rooms that leaves all tickets alone. *)
LEMMA SearchingStays ==
    ASSUME IInv, RoomsFit', Evolves, Secures, UNCHANGED <<poolRooms, searching>>
    PROVE  PoolsFit' /\ TicketsFit' /\ OffersFit' /\ Announces
<1>1. PoolsFit'
  BY PoolsStay DEF IInv
<1>2. TicketsFit'
  BY TicketsStay DEF IInv, searching
<1>3. OffersFit'
  BY OffersFollow DEF IInv, searching
<1>4. Announces
  BY DEF Announces, searching
<1>5. QED BY <1>1, <1>2, <1>3, <1>4

LEMMA CreateCreationFits ==
    ASSUME IInv, NEW c \in Creation, NEW p \in Player, NEW q \in CreationRequests,
           CreateCreation(c, p, q)
    PROVE  StepFits
<1> DEFINE d == [user |-> p, pool |-> q.pool, size |-> q.size, hidden |-> q.hidden,
                 posting |-> q.posting, state |-> "PENDING", room |-> 0]
<1>1. RoomsFit /\ CreationsFit /\ GamesyncFit
  BY DEF IInv
<1>2. RoomsFit' /\ Evolves /\ Rooms' = Rooms /\ Secures
  BY <1>1, RoomsStay, NobodyMoves DEF CreateCreation, gamesync
<1>3. PoolsFit' /\ TicketsFit' /\ OffersFit' /\ Announces
  BY <1>2, SearchingStays DEF CreateCreation
<1>4. GamesyncFit'
  BY <1>1, <1>2, GamesyncStays DEF CreateCreation, gamesync
<1>5. /\ DOMAIN creations' = DOMAIN creations \cup {c} /\ room' = room
      /\ creations' = [x \in DOMAIN creations \cup {c} |-> IF x = c THEN d ELSE creations[x]]
  BY DEF CreateCreation
<1>6. d \in GameSessionCreationTicket /\ d.state = "PENDING" /\ d.room = 0
  BY PoolAssumption DEF GameSessionCreationTicket, CreationState
<1>7. c \notin DOMAIN creations /\ \E n \in Nat : DOMAIN creations \cup {c} = 1..n
  <2>1. PICK n \in Nat : DOMAIN creations = 1..n
    BY <1>1 DEF CreationsFit
  <2>2. Cardinality(1..n) = n
    BY <2>1, FS_Interval
  <2>3. c = n + 1
    BY <2>1, <2>2 DEF CreateCreation
  <2>4. DOMAIN creations \cup {c} = 1..(n + 1)
    BY <2>1, <2>3
  <2>5. QED BY <2>1, <2>3, <2>4
<1> HIDE DEF d
<1>8. creations' \in [DOMAIN creations' -> GameSessionCreationTicket]
  BY <1>1, <1>5, <1>6 DEF CreationsFit
<1>9. \A x \in DOMAIN creations' :
         IF creations'[x].state = "SUCCEEDED" THEN creations'[x].room \in Rooms
         ELSE creations'[x].room = 0
  BY <1>1, <1>5, <1>6 DEF CreationsFit
<1>10. ASSUME NEW s \in Rooms
       PROVE  Sized(s)'
  <2>1. Sized(s) /\ s # 0
    BY <1>1, RoomNumbers DEF CreationsFit
  <2>2. QED BY <1>5, <1>6, <1>7, <2>1 DEF Sized, Granted
<1>11. CreationsFit'
  BY <1>1, <1>2, <1>5, <1>7, <1>8, <1>9, <1>10 DEF CreationsFit
<1>12. QED BY <1>2, <1>3, <1>4, <1>11 DEF StepFits, IInv

(* The room a creation ticket is granted. *)
Created(c) ==
    [NewRoom(creations[c].pool) EXCEPT !.users = {<<1, creations[c].user>>}, !.pooled = FALSE,
                                       !.count = 1, !.admissions = 1, !.max = Granted(c),
                                       !.public = ~ creations[c].hidden]

LEMMA CreatedRoomFits ==
    ASSUME NEW c, creations[c] \in GameSessionCreationTicket, Granted(c) \in 1..LargestRoom
    PROVE  LET q == Created(c) IN
           /\ RoomFits(q) /\ q.pool = creations[c].pool /\ <<1, creations[c].user>> \in Seat
           /\ q.pooled = FALSE /\ q.max = Granted(c)
<1> DEFINE p == creations[c].user
           pl == creations[c].pool
           q == Created(c)
<1>0. p \in Player /\ pl \in Pool /\ creations[c].hidden \in BOOLEAN
  BY DEF GameSessionCreationTicket
<1>1. 1 \in 1..MaxAdmissions /\ 1 \in 0..MaxAdmissions
  BY BoundAssumption
<1>2. <<1, p>> \in Seat
  BY <1>0, <1>1 DEF Seat
<1>3. IsFiniteSet({<<1, p>>}) /\ Cardinality({<<1, p>>}) = 1
  BY FS_Singleton
<1>4. Granted(c) \in Nat /\ 1 <= Granted(c) /\ (~ creations[c].hidden) \in BOOLEAN
  BY <1>0 DEF LargestRoom
<1>5. /\ q \in RoomState /\ q.users = {<<1, p>>} /\ q.pooled = FALSE /\ q.members = {}
      /\ q.count = 1 /\ q.admissions = 1 /\ q.max = Granted(c) /\ q.pool = pl
  <2> DEFINE g == Granted(c)
             h == ~ creations[c].hidden
  <2>1. q = [NewRoom(pl) EXCEPT !.users = {<<1, p>>}, !.pooled = FALSE, !.count = 1,
                                !.admissions = 1, !.max = g, !.public = h]
    BY DEF Created
  <2>2. NewRoom(pl).public = TRUE /\ g \in Nat /\ h \in BOOLEAN
    BY <1>4 DEF NewRoom
  <2> HIDE DEF g, h, q, p, pl
  <2>3. QED BY <1>0, <1>1, <1>2, <2>1, <2>2, PoolAssumption DEF NewRoom, RoomState, g
<1> HIDE DEF q
<1>6. RosterFits(q)
  BY <1>3, <1>4, <1>5 DEF RosterFits
<1>7. Hosted(q)
  BY <1>5 DEF Hosted, Owner
<1>8. QED BY <1>2, <1>5, <1>6, <1>7 DEF RoomFits, q

LEMMA CompleteCreationFits ==
    ASSUME IInv, NEW c \in Creation, CompleteCreation(c)
    PROVE  StepFits
<1> DEFINE p == creations[c].user
           s == creations[c].room
<1>1. RoomsFit /\ CreationsFit /\ GamesyncFit
  BY DEF IInv
<1>2. /\ c \in DOMAIN creations /\ p \in Player /\ creations[c].pool \in Pool
      /\ creations[c] \in GameSessionCreationTicket
      /\ creations[c].state \in CreationState
  BY <1>1 DEF CompleteCreation, CreationsFit, GameSessionCreationTicket
<1>3. UNCHANGED <<poolRooms, searching, connected, reopening>>
  BY DEF CompleteCreation
<1>4. CASE Uncreated(c)
  <2> DEFINE q == Created(c)
             n == Len(room) + 1
  <2>1. /\ Len(room) < MaxRooms[creations[c].pool] /\ room' = Append(room, q)
        /\ creations' = [creations EXCEPT ![c].state = "SUCCEEDED", ![c].room = n]
        /\ ruler' = Append(ruler, NoSeat) /\ tokens' = tokens \cup {<<n, <<1, p>>>>}
        /\ Granted(c) \in 1..LargestRoom
    BY <1>4 DEF CompleteCreation, Created
  <2>2. /\ RoomFits(q) /\ q.pool = creations[c].pool /\ <<1, p>> \in Seat
        /\ q.max = Granted(c)
    BY <1>2, <2>1, CreatedRoomFits
  <2>3. n <= MaxRooms[q.pool] /\ Len(room) \in Nat /\ n \in Nat /\ n # 0 /\ n \notin Rooms
    BY <1>1, <1>2, <2>1, <2>2, RoomNumbers, BoundAssumption
  <2> HIDE DEF q
  <2>4. /\ DOMAIN creations' = DOMAIN creations
        /\ creations'[c] = [creations[c] EXCEPT !.state = "SUCCEEDED", !.room = n]
        /\ \A x \in DOMAIN creations \ {c} : creations'[x] = creations[x]
    BY <1>2, <2>1
  <2>5. /\ creations'[c] \in GameSessionCreationTicket
        /\ creations'[c].state = "SUCCEEDED" /\ creations'[c].room = n
        /\ creations'[c].size = creations[c].size /\ creations'[c].pool = creations[c].pool
    <3> DEFINE d == creations[c]
    <3>1. d \in GameSessionCreationTicket /\ n \in Nat /\ "SUCCEEDED" \in CreationState
      BY <1>2, <2>3 DEF CreationState
    <3> HIDE DEF n, d
    <3>2. LET e == [d EXCEPT !.state = "SUCCEEDED", !.room = n] IN
          /\ e \in GameSessionCreationTicket /\ e.state = "SUCCEEDED" /\ e.room = n
          /\ e.size = d.size /\ e.pool = d.pool
      BY <3>1 DEF GameSessionCreationTicket
    <3>3. QED BY <2>4, <3>2 DEF d
  <2>6. creations' # creations
    BY <1>4, <2>5 DEF Uncreated
  <2>7. /\ RoomsFit' /\ Evolves /\ Rooms' = Rooms \cup {n} /\ room'[n] = q
        /\ \A z \in Rooms : room'[z] = room[z]
    <3>1. /\ RoomsFit' /\ Evolves /\ Rooms' = Rooms \cup {n} /\ room'[n] = q
      BY <1>1, <2>1, <2>2, <2>3, <2>6, RoomIsAdded
    <3>2. \A z \in Rooms : room'[z] = room[z]
      BY <1>1, <2>1, <2>2, RoomNumbers, AppendProperties DEF RoomsFit, RoomFits, RosterFits
    <3>3. QED BY <3>1, <3>2
  <2>8. Len(room') = Len(room) + 1
    BY <1>1, <2>1, <2>2, AppendProperties DEF RoomsFit, RoomFits, RosterFits
  <2>9. /\ ruler' \in Seq(Ruler) /\ Len(ruler') = Len(ruler) + 1
        /\ \A z \in Rooms : ruler'[z] = ruler[z]
    <3>1. NoSeat \in Ruler
      BY DEF Ruler
    <3>2. ruler \in Seq(Ruler) /\ Rooms = 1..Len(ruler)
      BY <1>1, RoomNumbers DEF GamesyncFit
    <3>3. QED BY <2>1, <3>1, <3>2, AppendProperties
  <2>10. Secures
    BY <2>7, <2>9 DEF Secures, Secure, Fresh
  <2>11. PoolsFit' /\ TicketsFit' /\ OffersFit' /\ Announces
    BY <1>3, <2>7, <2>10, SearchingStays
  <2>12. GamesyncFit'
    <3>1. tokens' \subseteq Rooms' \X Seat /\ connected \subseteq Rooms \X Seat
      <4>1. tokens \subseteq Rooms \X Seat /\ n \in Rooms' /\ Rooms \subseteq Rooms'
        BY <1>1, <2>7 DEF GamesyncFit
      <4>2. <<n, <<1, p>>>> \in Rooms' \X Seat
        BY <2>2, <4>1
      <4>3. \A y \in tokens : y \in Rooms' \X Seat
        BY <4>1
      <4>4. connected \subseteq Rooms \X Seat
        BY <1>1 DEF GamesyncFit
      <4> HIDE DEF n
      <4>5. QED BY <2>1, <4>2, <4>3, <4>4
    <3>2. \A z \in Rooms, x \in Seat : <<z, x>> \in connected => ruler'[z] # NoSeat
      BY <1>1, <2>9 DEF GamesyncFit, Fresh
    <3>3. QED BY <1>1, <1>3, <2>1, <2>7, <2>8, <2>9, <3>1, <3>2 DEF GamesyncFit, Fresh
  <2>13. CreationsFit'
    <3>1. creations' \in [DOMAIN creations -> GameSessionCreationTicket]
      BY <1>1, <2>1, <2>4, <2>5 DEF CreationsFit
    <3>2. \A x \in DOMAIN creations : IF creations'[x].state = "SUCCEEDED"
                                      THEN creations'[x].room \in Rooms'
                                      ELSE creations'[x].room = 0
      BY <1>1, <2>4, <2>5, <2>7 DEF CreationsFit
    <3>3. \A x \in DOMAIN creations : Granted(x)' = Granted(x)
      BY <2>4, <2>5 DEF Granted
    <3>4. \A x \in DOMAIN creations : creations[x].room # n /\ creations[c].room = 0
      BY <1>1, <1>2, <1>4, <2>3 DEF CreationsFit, Uncreated
    <3>5. ASSUME NEW z \in Rooms'
          PROVE  Sized(z)'
      <4>1. CASE z = n
        <5>1. \A x \in DOMAIN creations : creations'[x].room = n => x = c
          BY <2>4, <3>4
        <5>2. room'[z].max = Granted(c)'
          BY <1>2, <2>2, <2>7, <3>3, <4>1
        <5> HIDE DEF n
        <5>3. QED BY <1>2, <2>4, <2>5, <4>1, <5>1, <5>2 DEF Sized
      <4>2. CASE z # n
        <5>1. z \in Rooms /\ Sized(z) /\ room'[z] = room[z] /\ z # 0
          BY <1>1, <2>7, <4>2, RoomNumbers DEF CreationsFit
        <5>2. \A x \in DOMAIN creations : (creations'[x].room = z) <=> (creations[x].room = z)
          BY <2>4, <2>5, <3>4, <4>2, <5>1
        <5>3. QED BY <2>4, <3>3, <5>1, <5>2 DEF Sized
      <4>3. QED BY <4>1, <4>2
    <3>6. QED BY <1>1, <2>4, <3>1, <3>2, <3>5 DEF CreationsFit
  <2>14. QED BY <2>7, <2>10, <2>11, <2>12, <2>13 DEF StepFits, IInv
<1>5. CASE ~ Uncreated(c)
  <2>1. /\ Holds(room[s].users, p) /\ tokens' = tokens \cup {<<s, SeatOf(room[s].users, p)>>}
        /\ UNCHANGED <<room, creations, ruler>>
    BY <1>5 DEF CompleteCreation
  <2>2. s \in Rooms
    BY <1>1, <1>2, <1>5 DEF CreationsFit, Uncreated, CreationState
  <2>3. SeatOf(room[s].users, p) \in Seat
    <3>1. room[s].users \in SUBSET Seat
      BY <1>1, <2>2, RosterType DEF RoomsFit, RoomFits
    <3>2. QED BY <2>1, <3>1, SeatOfIsThere
  <2>4. RoomsFit' /\ Evolves /\ Rooms' = Rooms /\ Secures
    BY <1>1, <2>1, RoomsStay, NobodyMoves
  <2>5. PoolsFit' /\ TicketsFit' /\ OffersFit' /\ Announces
    BY <1>3, <2>4, SearchingStays
  <2>6. GamesyncFit'
    BY <1>1, <1>3, <2>1, <2>2, <2>3, <2>4 DEF GamesyncFit, Fresh
  <2>7. CreationsFit'
    BY <1>1, <2>1, <2>4, CreationsStay
  <2>8. QED BY <2>4, <2>5, <2>6, <2>7 DEF StepFits, IInv
<1>6. QED BY <1>4, <1>5

LEMMA JoinFits ==
    ASSUME IInv, NEW s \in Rooms, NEW p \in Player, Join(s, p)
    PROVE  StepFits
<1> DEFINE r == room[s]
<1>1. RoomsFit /\ CreationsFit /\ GamesyncFit /\ RoomFits(r) /\ RosterFits(r)
  BY DEF IInv, RoomsFit, RoomFits
<1>2. /\ r.users \in SUBSET Seat /\ r.count \in Nat /\ r.max \in Nat
      /\ r.admissions \in 0..MaxAdmissions /\ r.active \in BOOLEAN /\ r.open \in BOOLEAN
  BY <1>1, RosterType
<1>3. UNCHANGED <<poolRooms, searching, creations, gamesync>> /\ r.active
  BY DEF Join
<1>4. CASE /\ ~ Holds(r.users, p) /\ r.open /\ r.count < r.max
           /\ r.admissions < MaxAdmissions
           /\ room' = [room EXCEPT ![s] = Joined(@, p)]
           /\ tokens' = tokens \cup {<<s, <<r.admissions + 1, p>>>>}
  <2> DEFINE q == Joined(r, p)
  <2>1. room' = [room EXCEPT ![s] = q]
    BY <1>4
  <2>2. r.count + 1 <= r.max /\ <<r.admissions + 1, p>> \in Seat
    <3>1. r.count + 1 <= r.max
      BY <1>2, <1>4
    <3>2. QED BY <1>1, <1>4, <3>1, SeatedRoster
  <2>3. RoomFits(q) /\ Follows(r, q) /\ Spares(r, q)
    <3>1. CASE r.pooled
      BY <1>1, <1>2, <1>3, <1>4, <2>2, <3>1, AdmitFollows DEF RoomFits, Joined
    <3>2. CASE ~ r.pooled
      <4>1. /\ RosterFits(q) /\ q.pooled = r.pooled /\ q.pool = r.pool /\ q.active = r.active
            /\ q.max = r.max /\ q.open = r.open
            /\ q.users = r.users \cup {<<r.admissions + 1, p>>}
        BY <1>1, <1>4, <2>2, <3>2, JoinedFits DEF Joined
      <4> HIDE DEF q
      <4>2. r.users \subseteq q.users /\ q.users # {}
        BY <4>1
      <4> HIDE DEF r
      <4>3. QED BY <1>1, <1>2, <1>3, <1>4, <4>1, <4>2 DEF RoomFits, Hosted, Follows, Spares
    <3>3. QED BY <3>1, <3>2
  <2> HIDE DEF q
  <2>4. RoomsFit' /\ Evolves /\ Rooms' = Rooms
    BY <1>1, <2>1, <2>3, RoomChanges
  <2>5. Len(room') = Len(room) /\ \A z \in Rooms : room'[z] = IF z = s THEN q ELSE room[z]
    BY <1>1, <2>1 DEF RoomsFit, Rooms
  <2>6. Secures
    BY <1>3, <2>3, <2>5 DEF Secures, Secure, Spares, Fresh, gamesync, r
  <2>7. PoolsFit' /\ TicketsFit' /\ OffersFit' /\ Announces
    BY <1>3, <2>4, <2>6, SearchingStays
  <2>8. GamesyncFit'
    BY <1>1, <1>3, <1>4, <2>2, <2>4, <2>5 DEF GamesyncFit, gamesync, Fresh
  <2>9. CreationsFit'
    BY <1>1, <1>3, <2>4, CreationsStay
  <2>10. QED BY <2>4, <2>6, <2>7, <2>8, <2>9 DEF StepFits, IInv
<1>5. CASE /\ Holds(r.users, p) /\ tokens' = tokens \cup {<<s, SeatOf(r.users, p)>>}
           /\ UNCHANGED room
  <2>1. SeatOf(r.users, p) \in Seat
    BY <1>2, <1>5, SeatOfIsThere
  <2>2. RoomsFit' /\ Evolves /\ Rooms' = Rooms /\ Secures
    BY <1>1, <1>3, <1>5, RoomsStay, NobodyMoves DEF gamesync
  <2>3. PoolsFit' /\ TicketsFit' /\ OffersFit' /\ Announces
    BY <1>3, <2>2, SearchingStays
  <2>4. GamesyncFit'
    BY <1>1, <1>3, <1>5, <2>1, <2>2 DEF GamesyncFit, gamesync, Fresh
  <2>5. CreationsFit'
    BY <1>1, <1>3, <2>2, CreationsStay
  <2>6. QED BY <2>2, <2>3, <2>4, <2>5 DEF StepFits, IInv
<1>6. QED BY <1>4, <1>5 DEF Join

-----------------------------------------------------------------------------
(* What Gamesync does to a room *)

(* Who is connected has made his room one that somebody connected to. *)
Known ==
    /\ connected' \subseteq tokens /\ reopening' \subseteq Rooms
    /\ ruler' \in Seq(Ruler) /\ Len(ruler') = Len(ruler)
    /\ \A z \in Rooms : ruler[z] # NoSeat => ruler'[z] # NoSeat
    /\ \A z \in Rooms, x \in Seat : <<z, x>> \in connected' \ connected => ruler'[z] # NoSeat

(* A room changes in place and only Gamesync's own state with it. *)
LEMMA PlaceFits ==
    ASSUME IInv, NEW s \in Rooms, NEW q, RoomFits(q), Follows(room[s], q),
           room' = [room EXCEPT ![s] = q], Secure(s), Known,
           UNCHANGED <<poolRooms, searching, creations, tokens>>
    PROVE  StepFits
<1>1. RoomsFit /\ CreationsFit /\ GamesyncFit
  BY DEF IInv
<1>2. RoomsFit' /\ Evolves /\ Rooms' = Rooms
  BY <1>1, RoomChanges
<1>3. Len(room') = Len(room) /\ \A z \in Rooms \ {s} : room'[z] = room[z]
  BY <1>1 DEF RoomsFit, Rooms
<1>4. Secures
  BY <1>3 DEF Secures, Secure, Fresh, Known
<1>5. PoolsFit' /\ TicketsFit' /\ OffersFit' /\ Announces
  BY <1>2, <1>4, SearchingStays
<1>6. GamesyncFit'
  BY <1>1, <1>2, <1>3 DEF GamesyncFit, Known, Fresh
<1>7. CreationsFit'
  BY <1>1, <1>2, CreationsStay
<1>8. QED BY <1>2, <1>4, <1>5, <1>6, <1>7 DEF StepFits, IInv

(* The same when no room changes. *)
LEMMA NothingMoves ==
    ASSUME IInv, UNCHANGED <<room, poolRooms, searching, creations, tokens>>, Known
    PROVE  StepFits
<1>1. RoomsFit /\ CreationsFit /\ GamesyncFit
  BY DEF IInv
<1>2. RoomsFit' /\ Evolves /\ Rooms' = Rooms
  BY <1>1, RoomsStay
<1>3. Secures
  BY DEF Secures, Secure, Fresh, Known
<1>4. PoolsFit' /\ TicketsFit' /\ OffersFit' /\ Announces
  BY <1>2, <1>3, SearchingStays
<1>5. GamesyncFit'
  BY <1>1, <1>2 DEF GamesyncFit, Known, Fresh
<1>6. CreationsFit'
  BY <1>1, <1>2, CreationsStay
<1>7. QED BY <1>2, <1>3, <1>4, <1>5, <1>6 DEF StepFits, IInv

LEMMA ConnectFits ==
    ASSUME IInv, NEW s \in Rooms, NEW x \in Seat, Connect(s, x)
    PROVE  StepFits
<1>1. RoomsFit /\ GamesyncFit
  BY DEF IInv
<1>2. room[s].users \in SUBSET Seat /\ room[s].users # {}
  BY <1>1, RosterType DEF Connect, RoomsFit, RoomFits
<1>3. FirstSeat(room[s].users) \in Seat
  BY <1>2, FirstSeatIsThere
<1>4. /\ ruler' \in Seq(Ruler) /\ Len(ruler') = Len(ruler) /\ ruler'[s] # NoSeat
      /\ \A z \in Rooms \ {s} : ruler'[z] = ruler[z]
  <2> DEFINE v == IF ruler[s] = NoSeat THEN FirstSeat(room[s].users) ELSE ruler[s]
  <2>1. ruler \in Seq(Ruler) /\ s \in 1..Len(ruler) /\ Rooms = 1..Len(ruler)
    BY <1>1, RoomNumbers DEF GamesyncFit
  <2>2. v \in Ruler
    BY <1>3, <2>1, ElementOfSeq DEF Ruler
  <2>3. ruler' = [ruler EXCEPT ![s] = v]
    BY DEF Connect
  <2>4. v # NoSeat
    BY <1>3 DEF NoSeat, Seat
  <2> HIDE DEF v
  <2>5. QED BY <2>1, <2>2, <2>3, <2>4, ExceptSeq, LenProperties
<1>5. connected' \subseteq tokens /\ reopening' \subseteq Rooms
  BY <1>1 DEF Connect, GamesyncFit
<1>6. Known
  BY <1>4, <1>5 DEF Known, Connect
<1>7. QED BY <1>6, NothingMoves DEF Connect

LEMMA DepartFits ==
    ASSUME IInv, NEW s \in Rooms, NEW x \in Seat, Depart(s, x)
    PROVE  StepFits
<1> DEFINE r == Without(room[s], {x})
           ended == EndsRoom(s, x) \/ r.users = {}
           q == IF ended THEN [r EXCEPT !.open = FALSE, !.active = FALSE] ELSE r
<1>1. RoomsFit /\ GamesyncFit /\ RoomFits(room[s])
  BY DEF IInv, RoomsFit
<1>2. room' = [room EXCEPT ![s] = q]
  BY DEF Depart
<1>3. /\ RosterFits(r) /\ r.users = room[s].users \ {x} /\ r.users \subseteq room[s].users
      /\ r.pool = room[s].pool /\ r.pooled = room[s].pooled
      /\ (r.active => room[s].active /\ r.users # {}) /\ (r.open => room[s].open)
      /\ r.max = room[s].max
  BY <1>1, WithoutFits DEF RoomFits
<1>4. /\ RosterFits(q) /\ q.users = r.users /\ q.pool = r.pool /\ q.pooled = r.pooled
      /\ (q.active => r.active /\ ~ ended) /\ (q.open => r.open) /\ q.max = r.max
  <2> HIDE DEF r
  <2>1. CASE ended
    BY <1>3, <2>1, RosterType DEF RosterFits, RoomState
  <2>2. CASE ~ ended
    BY <1>3, <2>2
  <2>3. QED BY <2>1, <2>2
<1>5. ASSUME Kind[room[s].pool] = "raid", room[s].active, ~ ended
      PROVE  \E y \in r.users : Owner(y)
  <2>1. PICK y \in room[s].users : Owner(y)
    BY <1>1, <1>5 DEF RoomFits, Hosted
  <2>2. y # x
    BY <1>5, <2>1 DEF EndsRoom, Raid
  <2>3. QED BY <1>3, <2>1, <2>2
<1> HIDE DEF q, r, ended
<1>6. RoomFits(q) /\ Follows(room[s], q)
  BY <1>3, <1>4, <1>5 DEF RoomFits, Hosted, Follows
<1>7. /\ ruler' \in Seq(Ruler) /\ Len(ruler') = Len(ruler)
      /\ \A z \in Rooms : ruler[z] # NoSeat => ruler'[z] # NoSeat
  <2> DEFINE v == IF ruler[s] = x THEN Departed ELSE ruler[s]
  <2>1. ruler \in Seq(Ruler) /\ s \in 1..Len(ruler) /\ Rooms = 1..Len(ruler)
    BY <1>1, RoomNumbers DEF GamesyncFit
  <2>2. v \in Ruler
    BY <2>1, ElementOfSeq DEF Ruler
  <2>3. ruler' = [ruler EXCEPT ![s] = v]
    BY DEF Depart
  <2>4. ruler[s] # NoSeat => v # NoSeat
    BY DEF Departed, NoSeat
  <2> HIDE DEF v
  <2>5. QED BY <2>1, <2>2, <2>3, <2>4, ExceptSeq, LenProperties
<1>8. connected' \subseteq connected /\ connected \subseteq tokens /\ reopening' \subseteq Rooms
  BY <1>1 DEF Depart, GamesyncFit
<1>9. Known
  BY <1>7, <1>8 DEF Known
<1>10. Secure(s)
  <2>1. ~ Fresh(s)
    BY <1>1 DEF Depart, GamesyncFit
  <2>2. ~ Fresh(s)'
    BY <1>7, <2>1 DEF Fresh
  <2>3. room'[s] = q
    BY <1>2 DEF Rooms
  <2>4. room'[s].open => room[s].open
    BY <1>3, <1>4, <2>3
  <2>5. QED BY <2>1, <2>2, <2>4 DEF Secure
<1>11. QED BY <1>2, <1>6, <1>9, <1>10, PlaceFits DEF Depart

(* Flags of a room in use. *)
LEMMA FlagsFollow ==
    ASSUME NEW r, RoomFits(r), r.active, NEW a \in BOOLEAN, NEW b \in BOOLEAN
    PROVE  LET q == [r EXCEPT !.open = a, !.public = b] IN
           RoomFits(q) /\ Follows(r, q) /\ q.users = r.users
<1> DEFINE q == [r EXCEPT !.open = a, !.public = b]
<1>1. /\ RosterFits(q) /\ q.users = r.users /\ q.pool = r.pool /\ q.pooled = r.pooled
      /\ q.active = r.active /\ q.max = r.max
  BY DEF RoomFits, RosterFits, RoomState
<1> HIDE DEF q
<1>2. RoomFits(q) /\ Follows(r, q)
  BY <1>1 DEF RoomFits, Hosted, Follows
<1>3. QED BY <1>1, <1>2 DEF q

LEMMA ReopenFits ==
    ASSUME IInv, NEW s \in Rooms, Reopen(s)
    PROVE  StepFits
<1>1. RoomsFit /\ GamesyncFit /\ RoomFits(room[s])
  BY DEF IInv, RoomsFit
<1>2. Known /\ UNCHANGED <<poolRooms, searching, creations, tokens>>
  BY <1>1 DEF Reopen, GamesyncFit, Known
<1>3. CASE HostAlone(s) /\ ruler[s] \in Seat
  <2> DEFINE q == [room[s] EXCEPT !.open = TRUE, !.public = TRUE]
  <2>1. RoomFits(q) /\ Follows(room[s], q)
    BY <1>1, <1>3, FlagsFollow DEF HostAlone
  <2>2. room' = [room EXCEPT ![s] = q]
    BY <1>3 DEF Reopen
  <2>3. Secure(s)
    BY <1>3 DEF Secure, HostAlone, Raid, Coded
  <2> HIDE DEF q
  <2>4. QED BY <1>2, <2>1, <2>2, <2>3, PlaceFits
<1>4. CASE ~ (HostAlone(s) /\ ruler[s] \in Seat)
  BY <1>2, <1>4, NothingMoves DEF Reopen
<1>5. QED BY <1>3, <1>4

LEMMA ControlFits ==
    ASSUME IInv, NEW s \in Rooms, NEW w \in ControlRequests, Control(s, w)
    PROVE  StepFits
<1> DEFINE q == [room[s] EXCEPT !.open = w.cp, !.public = w.ip]
<1>1. RoomsFit /\ GamesyncFit /\ RoomFits(room[s]) /\ w.cp \in BOOLEAN /\ w.ip \in BOOLEAN
  BY PoolAssumption DEF IInv, RoomsFit
<1>2. Known /\ UNCHANGED <<poolRooms, searching, creations, tokens>>
  BY <1>1 DEF Control, gamesync, GamesyncFit, Known
<1>3. RoomFits(q) /\ Follows(room[s], q) /\ q.users = room[s].users
  BY <1>1, FlagsFollow DEF Control
<1>4. room' = [room EXCEPT ![s] = q]
  BY DEF Control
<1> HIDE DEF q
<1>5. Secure(s)
  <2>1. room'[s].users = room[s].users /\ ruler' = ruler
    BY <1>3, <1>4 DEF Rooms, Control, gamesync
  <2>2. QED BY <2>1 DEF Secure, Fresh, Control
<1>6. QED BY <1>2, <1>3, <1>4, <1>5, PlaceFits

-----------------------------------------------------------------------------
(* The specification *)

LEMMA InitFits == Init => IInv
<1> SUFFICES ASSUME Init PROVE IInv
  OBVIOUS
<1>1. RoomsFit
  BY DEF Init, RoomsFit, Rooms
<1>2. PoolsFit
  BY DEF Init, PoolsFit, Rooms
<1>3. TicketsFit
  BY DEF Init, TicketsFit, Live, StreamState
<1>4. OffersFit
  BY DEF Init, OffersFit, Rooms
<1>5. CreationsFit
  <2>1. DOMAIN creations = 1..0 /\ 0 \in Nat /\ Rooms = {}
    BY DEF Init, Rooms
  <2>2. QED BY <2>1 DEF Init, CreationsFit
<1>6. GamesyncFit
  BY DEF Init, GamesyncFit, Rooms
<1>7. QED BY <1>1, <1>2, <1>3, <1>4, <1>5, <1>6 DEF IInv

LEMMA NextFits ==
    ASSUME IInv, Next
    PROVE  StepFits
<1>1. ASSUME NEW t \in Ticket, NEW p \in Player, NEW q \in SearchRequests,
             CreateTicket(t, p, q)
      PROVE  StepFits
  BY <1>1, CreateTicketFits
<1>2. ASSUME NEW t \in Ticket, Poll(t) \/ SendResult(t) \/ EndTracking(t) \/ Cancel(t)
      PROVE  StepFits
  BY <1>2, PollFailedFits, PollSeatedFits, PollUnseatedFits, SendResultFits,
     EndTrackingFits, CancelFits DEF Poll
<1>3. ASSUME NEW c \in Creation, NEW p \in Player, NEW q \in CreationRequests,
             CreateCreation(c, p, q)
      PROVE  StepFits
  BY <1>3, CreateCreationFits
<1>4. ASSUME NEW c \in Creation, CompleteCreation(c)
      PROVE  StepFits
  BY <1>4, CompleteCreationFits
<1>5. ASSUME NEW s \in Rooms, NEW p \in Player, Join(s, p)
      PROVE  StepFits
  BY <1>5, JoinFits
<1>6. ASSUME NEW s \in Rooms, NEW x \in Seat, Connect(s, x) \/ Depart(s, x)
      PROVE  StepFits
  BY <1>6, ConnectFits, DepartFits
<1>7. ASSUME NEW s \in Rooms, Reopen(s)
      PROVE  StepFits
  BY <1>7, ReopenFits
<1>8. ASSUME NEW s \in Rooms, NEW q \in ControlRequests, Control(s, q)
      PROVE  StepFits
  BY <1>8, ControlFits
<1>9. QED BY <1>1, <1>2, <1>3, <1>4, <1>5, <1>6, <1>7, <1>8 DEF Next

LEMMA StutterFits ==
    ASSUME IInv, UNCHANGED vars
    PROVE  StepFits
<1>1. RoomsFit' /\ Evolves /\ Rooms' = Rooms
  BY RoomsStay DEF IInv, vars
<1>2. TicketsFit'
  BY <1>1, TicketsStay DEF IInv, vars, searching
<1>3. GamesyncFit'
  BY <1>1, GamesyncStays DEF IInv, vars, gamesync
<1>4. QED BY <1>1, <1>2, <1>3, RestStays, NobodyMoves DEF vars, searching, gamesync

(* What the rooms, tickets, offers and tokens of every reachable state are. *)
LEMMA Inductive == Spec => []IInv
<1>1. IInv /\ [Next]_vars => IInv'
  BY NextFits, StutterFits DEF StepFits
<1>2. QED BY InitFits, <1>1, PTL DEF Spec

LEMMA SoundRooms == IInv => RoomsAreSound /\ RaidsHaveHosts
<1> SUFFICES ASSUME IInv PROVE RoomsAreSound /\ RaidsHaveHosts
  OBVIOUS
<1>1. \A s \in Rooms : RoomFits(room[s])
  BY DEF IInv, RoomsFit
<1>2. RosterAgrees /\ NeverOverfull /\ EmptyRoomsAreGone
  <2>1. \A s \in Rooms : Sized(s)
    BY DEF IInv, CreationsFit
  <2>2. QED BY <1>1, <2>1
        DEF RosterAgrees, NeverOverfull, EmptyRoomsAreGone, RoomFits, RosterFits, Sized
<1>3. RaidsHaveHosts
  BY <1>1 DEF RaidsHaveHosts, RoomFits, Hosted, Raid
<1>4. \A c \in DOMAIN creations :
          creations[c].room \in Rooms <=> creations[c].state = "SUCCEEDED"
  BY RoomNumbers DEF IInv, CreationsFit
<1>5. ruler \in [Rooms -> Seat \cup {NoSeat, Departed}]
  BY RoomNumbers DEF IInv, GamesyncFit, Ruler
<1>6. TypeOK
  BY <1>4, <1>5
  DEF TypeOK, IInv, RoomsFit, PoolsFit, TicketsFit, OffersFit, CreationsFit, GamesyncFit,
      Rooms, StreamState
<1>7. QED BY <1>2, <1>3, <1>6 DEF RoomsAreSound

(* Whatever searches, created rooms, joins, cancelled searches and lost    *)
(* connections do, the participant count of a room, its user sessions and  *)
(* its pooled members agree, nobody sits in it twice, it is never larger   *)
(* than its creation ticket was granted or its configuration allows, and   *)
(* it is terminated when it is empty.                                      *)
THEOREM RoomsTheorem == Spec => []RoomsAreSound
  BY Inductive, SoundRooms, PTL

(* Every raid room that is active has its host in it. *)
THEOREM HostsTheorem == Spec => []RaidsHaveHosts
  BY Inductive, SoundRooms, PTL

(* No step of anybody revives a terminated room or adds a player to it. *)
THEOREM TombstonesTheorem == Spec => TombstonesStay
<1>1. ASSUME IInv, [Next]_vars
      PROVE  \A s \in Rooms : ~ room[s].active =>
                ~ room'[s].active /\ room'[s].users \subseteq room[s].users
  BY <1>1, NextFits, StutterFits DEF StepFits, Evolves, Follows
<1>2. QED BY Inductive, <1>1, PTL DEF Spec, TombstonesStay

(* After a coded group was announced to one of its members, no step seats  *)
(* or unseats anybody or opens the room until a member connects.  After    *)
(* that nobody is seated while the room is closed, and the only step that  *)
(* opens it is one of its connected owner.                                 *)
THEOREM StrangersTheorem == Spec => NoStrangerEnters
<1>1. ASSUME IInv, [Next]_vars, NEW t \in Ticket, NEW s \in Rooms,
             offered[t] \in Rooms \X Seat, s = offered[t][1], Coded(s)
      PROVE  /\ Fresh(s) => ~ room'[s].open /\ room'[s].users = room[s].users
             /\ ~ room[s].open => room'[s].users \subseteq room[s].users
             /\ ~ room[s].open /\ room'[s].open => <<s, ruler[s]>> \in connected
  <2>1. Evolves /\ Secure(s)
    BY <1>1, NextFits, StutterFits DEF StepFits, Secures
  <2>2. Locked(s)
    BY <1>1 DEF IInv, OffersFit
  <2>3. Fresh(s) => ~ room'[s].open
    BY <1>1, <2>1, <2>2, FreshStaysClosed DEF Locked
  <2>4. QED BY <1>1, <2>1, <2>2, <2>3 DEF Evolves, Follows, Secure, Locked
<1>2. ASSUME IInv, NEW t \in Ticket, offered[t] # NoOffer
      PROVE  offered[t] \in Rooms \X Seat /\ offered[t][1] \in Rooms
  BY <1>2 DEF IInv, OffersFit
<1>3. IInv /\ [Next]_vars =>
        \A t \in Ticket :
          LET s == offered[t][1] IN
          offered[t] # NoOffer /\ Coded(s) =>
            /\ Fresh(s) => ~ room'[s].open /\ room'[s].users = room[s].users
            /\ ~ room[s].open => room'[s].users \subseteq room[s].users
            /\ ~ room[s].open /\ room'[s].open => <<s, ruler[s]>> \in connected
  BY <1>1, <1>2
<1>4. QED BY Inductive, <1>3, PTL DEF Spec, NoStrangerEnters

(* A search is only told of a coded match (it starts placing) when the     *)
(* different players in its room are as many as the pool asks for, the     *)
(* searcher among them.                                                    *)
THEOREM GroupsTheorem == Spec => OnlyCompleteGroups
<1>1. IInv /\ [Next]_vars => Announces
  BY NextFits, StutterFits DEF StepFits
<1>2. QED BY Inductive, <1>1, PTL DEF Spec, OnlyCompleteGroups, Announces

-----------------------------------------------------------------------------
(* Where searchers meet                                                    *)
(*                                                                         *)
(* A room that nobody has connected to is never opened and, once full,     *)
(* never left: such rooms of a coded pool become joinable only when they   *)
(* are made, and a search makes one only when it finds none.               *)

FreshFree(pl) == {i \in Free(pl) : Fresh(poolRooms[pl][i])}

OneFresh ==
    \A pl \in Pool : Kind[pl] = "coded" => \A i, j \in FreshFree(pl) : i = j

(* A room that can be joined freshly could be before. *)
LEMMA FreeBefore ==
    ASSUME IInv, StepFits, NEW s \in Rooms, Coded(s), Fresh(s)', Joinable(s)', Vacant(s)'
    PROVE  Fresh(s) /\ Joinable(s) /\ Vacant(s)
<1>1. Evolves /\ Secure(s) /\ RoomsFit /\ RoomsFit'
  BY DEF IInv, StepFits, Secures
<1>2. Fresh(s)
  BY <1>1 DEF Secure
<1>3. Joinable(s)
  BY <1>1, <1>2, FreshStaysClosed DEF Evolves, Follows, Joinable
<1>4. Vacant(s)
  <2>1. RosterFits(room[s]) /\ RosterFits(room'[s]) /\ room'[s].max = room[s].max
    BY <1>1 DEF RoomsFit, RoomFits, Evolves, Follows
  <2>2. /\ room[s].count \in Nat /\ room[s].max \in Nat /\ room[s].count <= room[s].max
        /\ room[s].count = Cardinality(room[s].users)
        /\ room'[s].count = Cardinality(room'[s].users) /\ room'[s].count \in Nat
    BY <2>1, RosterType DEF RosterFits
  <2>3. room[s].count # room[s].max
    BY <1>1, <1>2, <2>1, <2>2 DEF Secure, Vacant
  <2>4. QED BY <2>2, <2>3 DEF Vacant
<1>5. QED BY <1>2, <1>3, <1>4

LEMMA ListedRooms ==
    ASSUME PoolsFit, NEW pl \in Pool
    PROVE  /\ \A i \in DOMAIN poolRooms[pl] : poolRooms[pl][i] \in Rooms
           /\ poolRooms[pl] \in Seq(Rooms) /\ DOMAIN poolRooms[pl] \subseteq Nat
<1>1. poolRooms[pl] \in Seq(Rooms)
  BY DEF PoolsFit
<1>2. QED BY <1>1, ElementOfSeq, LenProperties

LEMMA FreshFreeBefore ==
    ASSUME IInv, StepFits, NEW pl \in Pool, Kind[pl] = "coded",
           NEW i \in DOMAIN poolRooms[pl], i \in FreshFree(pl)', poolRooms'[pl][i] = poolRooms[pl][i]
    PROVE  i \in FreshFree(pl)
<1>1. PICK s \in Rooms : s = poolRooms[pl][i] /\ room[s].pool = pl
  BY ListedRooms DEF IInv, PoolsFit
<1>2. Fresh(s)' /\ Joinable(s)' /\ Vacant(s)'
  BY <1>1 DEF FreshFree, Free, Fresh, Joinable, Vacant
<1>3. Fresh(s) /\ Joinable(s) /\ Vacant(s)
  BY <1>1, <1>2, FreeBefore DEF Coded
<1>4. QED BY <1>1, <1>3 DEF FreshFree, Free

LEMMA SameRoomsMeet ==
    ASSUME IInv, StepFits, OneFresh, UNCHANGED poolRooms
    PROVE  OneFresh'
<1>1. ASSUME NEW pl \in Pool, Kind[pl] = "coded", NEW i \in FreshFree(pl)'
      PROVE  i \in FreshFree(pl)
  <2>1. i \in DOMAIN poolRooms[pl]
    BY <1>1 DEF FreshFree, Free
  <2>2. QED BY <1>1, <2>1, FreshFreeBefore
<1>2. QED BY <1>1 DEF OneFresh

LEMMA NewRoomMeets ==
    ASSUME IInv, StepFits, OneFresh, NEW pl \in Pool, Kind[pl] # "raid", NEW p,
           Choice(pl, p) = 0, NEW n, poolRooms' = [poolRooms EXCEPT ![pl] = Append(@, n)],
           n \in Rooms'
    PROVE  OneFresh'
<1>1. PoolsFit /\ RoomsFit /\ poolRooms \in [Pool -> Seq(Rooms)] /\ Rooms \subseteq Rooms'
  BY DEF IInv, PoolsFit, StepFits, Evolves
<1>2. Free(pl) = {}
  <2>1. ASSUME Free(pl) # {}
        PROVE  FALSE
    <3>1. Mine(pl, p) \subseteq DOMAIN poolRooms[pl] /\ Free(pl) \subseteq DOMAIN poolRooms[pl]
          /\ DOMAIN poolRooms[pl] \subseteq Nat
      BY <1>1, ListedRooms DEF Mine, Free
    <3>2. (Mine(pl, p) # {} => First(Mine(pl, p)) \in DOMAIN poolRooms[pl])
          /\ First(Free(pl)) \in DOMAIN poolRooms[pl]
      BY <2>1, <3>1, FirstIsThere
    <3>3. PICK i \in DOMAIN poolRooms[pl] : Choice(pl, p) = poolRooms[pl][i]
      BY <2>1, <3>2 DEF Choice
    <3>4. poolRooms[pl][i] # 0
      BY <1>1, <3>3, ListedRooms, RoomNumbers
    <3>5. QED BY <3>3, <3>4
  <2>2. QED BY <2>1
<1>3. ASSUME NEW k \in Pool, Kind[k] = "coded", k # pl, NEW i \in FreshFree(k)'
      PROVE  i \in FreshFree(k)
  <2>1. poolRooms'[k] = poolRooms[k]
    BY <1>1, <1>3
  <2>2. i \in DOMAIN poolRooms[k]
    BY <1>3, <2>1 DEF FreshFree, Free
  <2>3. QED BY <1>3, <2>1, <2>2, FreshFreeBefore
<1>4. ASSUME Kind[pl] = "coded", NEW i \in FreshFree(pl)'
      PROVE  i = Len(poolRooms[pl]) + 1
  <2>1. poolRooms[pl] \in Seq(Rooms') /\ poolRooms'[pl] = Append(poolRooms[pl], n)
    <3>1. poolRooms[pl] \in Seq(Rooms)
      BY <1>1
    <3>2. QED BY <1>1, <3>1, SeqMonotonic
  <2>2. /\ DOMAIN poolRooms[pl] = 1..Len(poolRooms[pl]) /\ Len(poolRooms[pl]) \in Nat
        /\ DOMAIN poolRooms'[pl] = 1..(Len(poolRooms[pl]) + 1)
        /\ \A j \in 1..Len(poolRooms[pl]) : poolRooms'[pl][j] = poolRooms[pl][j]
    BY <2>1, AppendProperties, LenProperties
  <2>3. i \in DOMAIN poolRooms'[pl]
    BY <1>4 DEF FreshFree, Free
  <2>4. CASE i \in DOMAIN poolRooms[pl]
    <3>1. i \in FreshFree(pl)
      BY <1>4, <2>2, <2>4, FreshFreeBefore
    <3>2. QED BY <1>2, <3>1 DEF FreshFree
  <2>5. QED BY <2>2, <2>3, <2>4
<1>5. QED BY <1>3, <1>4 DEF OneFresh

LEMMA NextMeets ==
    ASSUME IInv, OneFresh, [Next]_vars
    PROVE  OneFresh'
<1>1. StepFits
  BY NextFits, StutterFits
<1>2. UNCHANGED poolRooms \/ \E t \in Ticket : PollUnseated(t)
  BY DEF Next, vars, CreateTicket, Poll, PollFailed, PollSeated, SendResult, EndTracking, Cancel,
         CreateCreation, CompleteCreation, Join, Connect, Depart, Reopen, Control
<1>3. ASSUME NEW t \in Ticket, PollUnseated(t), ~ UNCHANGED poolRooms
      PROVE  OneFresh'
  <2> DEFINE p == tickets[t].user
             pl == tickets[t].pool
             n == Len(room) + 1
  <2>1. pl \in Pool
    BY <1>3 DEF PollUnseated, IInv, TicketsFit, MatchmakingTicket
  <2>2. /\ Kind[pl] # "raid" /\ Choice(pl, p) = 0 /\ ticketRoom' = [ticketRoom EXCEPT ![t] = n]
        /\ poolRooms' = [poolRooms EXCEPT ![pl] = Append(@, n)]
    BY <1>3 DEF PollUnseated
  <2>3. n \in Rooms'
    <3>1. ticketRoom'[t] = n /\ n # 0
      BY <2>2, RoomNumbers DEF IInv, TicketsFit
    <3>2. QED BY <1>1, <3>1 DEF StepFits, IInv, TicketsFit
  <2> HIDE DEF n, p, pl
  <2>4. QED BY <1>1, <2>1, <2>2, <2>3, NewRoomMeets
<1>4. QED BY <1>1, <1>2, <1>3, SameRoomsMeet

LEMMA OneRoom == OneFresh => OneRoomToMeetIn
<1> SUFFICES ASSUME OneFresh, NEW pl \in Pool, Kind[pl] = "coded"
             PROVE  Cardinality(FreshFree(pl)) <= 1
  BY DEF OneRoomToMeetIn, FreshFree
<1>1. CASE FreshFree(pl) = {}
  BY <1>1, FS_EmptySet
<1>2. ASSUME NEW i \in FreshFree(pl)
      PROVE  Cardinality(FreshFree(pl)) <= 1
  <2>1. FreshFree(pl) = {i}
    BY <1>2 DEF OneFresh
  <2>2. Cardinality({i}) = 1
    BY FS_Singleton
  <2>3. QED BY <2>1, <2>2
<1>3. QED BY <1>1, <1>2

(* Whatever searchers, joiners and owners do, of all rooms of a coded pool *)
(* that nobody has connected to at most one can be joined: two searchers   *)
(* never wait for each other in two of them.                               *)
THEOREM MeetingTheorem == Spec => []OneRoomToMeetIn
<1>1. Init => OneFresh
  BY DEF Init, OneFresh, FreshFree, Free
<1>2. IInv /\ OneFresh /\ [Next]_vars => OneFresh'
  BY NextMeets
<1>3. QED BY Inductive, OneRoom, <1>1, <1>2, PTL DEF Spec

-----------------------------------------------------------------------------
(* Searchers can be joined                                                 *)
(*                                                                         *)
(* The room of a coded search that was closed stays full until one of its  *)
(* members has a match token, since only then may he depart; and with      *)
(* prompt polls nobody of it is searching any more by then.  This is so    *)
(* when clients do not join such rooms by name, nor write their control    *)
(* documents: an owner who does can close a room on who is searching in it.*)

NoCodedJoins == \A pl \in JoinByName : Kind[pl] # "coded"
NoCodedControl == \A q \in ControlRequests : Kind[q.pool] # "coded"

(* A room of searches, not one made by a creation ticket. *)
Group(r) == Kind[r.pool] = "coded" /\ r.pooled

Given(s) == \E y \in tokens : y[1] = s

FillInv ==
    /\ \A t \in Ticket : pc[t] = "entered" => ticketRoom[t] = 0
    /\ \A c \in DOMAIN creations : creations[c].room # 0 => ~ Group(room[creations[c].room])
    /\ \A s \in Rooms : Group(room[s]) /\ Given(s) =>
          /\ ~ room[s].open
          /\ \A t \in Live : ticketRoom[t] = s => pc[t] # "SEARCHING"
    /\ \A s \in Rooms : Group(room[s]) /\ room[s].active /\ ~ room[s].open /\ ~ Given(s) =>
          room[s].count = room[s].max

(* What was announced was closed. *)
ShutInv ==
    \A t \in Ticket, s \in Rooms :
        offered[t] \in Rooms \X Seat /\ s = offered[t][1] /\ Coded(s) => ~ room[s].open

(* No coded room is opened. *)
CalmStep == StepFits /\ \A s \in Rooms : Coded(s) /\ ~ room[s].open => ~ room'[s].open

LEMMA NextIsCalm ==
    ASSUME NoCodedControl, IInv, [Next]_vars
    PROVE  CalmStep
<1>1. StepFits
  BY NextFits, StutterFits
<1>2. QED BY <1>1 DEF CalmStep, StepFits, Secures, Secure, NoCodedControl, Coded

LEMMA GroupsStay ==
    ASSUME Evolves, NEW s \in Rooms
    PROVE  Group(room'[s]) <=> Group(room[s])
  BY DEF Evolves, Follows, Group

LEMMA OffersShut ==
    ASSUME IInv, CalmStep, ShutInv,
           \A t \in Ticket, s \in Rooms' : offered'[t] = offered[t] \/
              (offered'[t] \in Rooms' \X Seat /\ s = offered'[t][1] /\ Coded(s)' => ~ room'[s].open)
    PROVE  ShutInv'
<1>1. ASSUME NEW t \in Ticket, NEW s \in Rooms', offered'[t] = offered[t],
             offered'[t] \in Rooms' \X Seat, s = offered'[t][1], Coded(s)'
      PROVE  ~ room'[s].open
  <2>1. offered[t] \in Rooms \X Seat
    <3>1. NoOffer \notin Rooms' \X Seat
      BY DEF NoOffer, NoSeat, Seat
    <3>2. QED BY <1>1, <3>1 DEF IInv, OffersFit
  <2>2. s \in Rooms
    BY <1>1, <2>1
  <2>3. Coded(s)
    BY <1>1, <2>2 DEF CalmStep, StepFits, Evolves, Follows, Coded
  <2>4. QED BY <1>1, <2>1, <2>2, <2>3 DEF ShutInv, CalmStep
<1>2. QED BY <1>1 DEF ShutInv

LEMMA SettleShuts ==
    ASSUME IInv, CalmStep, ShutInv, NEW t \in Ticket, NEW s, NEW q, RosterFits(q), Settle(t, s, q),
           s \in Rooms \/ s = Len(room) + 1
    PROVE  ShutInv'
<1>1. offered \in [Ticket -> (Rooms \X Seat) \cup {NoOffer}] /\ room \in Seq(RoomState)
  BY DEF IInv, OffersFit, RoomsFit
<1>2. CASE StillSearching(q)
  BY <1>2, OffersShut DEF Settle
<1>3. CASE ~ StillSearching(q)
  <2>1. PICK x : offered' = [offered EXCEPT ![t] = <<s, x>>]
    BY <1>3 DEF Settle
  <2>2. room'[s] = Closed(q)
    <3>1. room' = IF s \in Rooms THEN [room EXCEPT ![s] = Closed(q)] ELSE Append(room, Closed(q))
      BY <1>3 DEF Settle
    <3>2. Closed(q) \in RoomState
      BY ClosedFits DEF RosterFits
    <3>3. CASE s \in Rooms
      BY <3>1, <3>3 DEF Rooms
    <3>4. CASE s \notin Rooms
      BY <1>1, <3>1, <3>2, <3>4, AppendProperties
    <3>5. QED BY <3>3, <3>4
  <2>3. Coded(s)' => ~ room'[s].open
    BY <2>2, ClosedFits DEF Coded
  <2>4. offered'[t][1] = s /\ \A u \in Ticket \ {t} : offered'[u] = offered[u]
    BY <1>1, <2>1
  <2>5. QED BY <2>3, <2>4, OffersShut
<1>4. QED BY <1>2, <1>3

LEMMA PollShuts ==
    ASSUME IInv, CalmStep, ShutInv, NEW t \in Ticket, PollUnseated(t)
    PROVE  ShutInv'
<1> DEFINE p == tickets[t].user
           pl == tickets[t].pool
<1>1. p \in Player /\ pl \in Pool /\ RoomsFit
  BY DEF PollUnseated, IInv, TicketsFit, MatchmakingTicket
<1>2. CASE UNCHANGED offered
  BY <1>2, OffersShut
<1>3. ASSUME NEW s \in RaidRooms(t), room[s].admissions < MaxAdmissions,
             Settle(t, s, Admit(AsPooled(room[s]), p))
      PROVE  ShutInv'
  <2>1. s \in Rooms /\ Raid(s) /\ room[s].count + 1 <= room[s].max
    BY DEF RaidRooms, Vacant
  <2>2. RosterFits(room[s])
    BY <1>1, <2>1 DEF RoomsFit, RoomFits
  <2>3. LET r == AsPooled(room[s]) IN
        /\ RosterFits(r) /\ r.pooled /\ r.count = room[s].count /\ r.max = room[s].max
        /\ r.admissions = room[s].admissions
    BY <2>1, <2>2, AsPooledFits DEF Raid
  <2>4. RosterFits(Admit(AsPooled(room[s]), p))
    BY <1>1, <1>3, <2>1, <2>3, AdmitFits
  <2>5. QED BY <1>3, <2>1, <2>4, SettleShuts
<1>4. CASE /\ Choice(pl, p) # 0 /\ room[Choice(pl, p)].admissions < MaxAdmissions
           /\ Settle(t, Choice(pl, p), Admit(room[Choice(pl, p)], p))
  <2> DEFINE s == Choice(pl, p)
  <2>1. /\ s \in Rooms /\ room[s].pooled
        /\ Holds(room[s].users, p) \/ room[s].count + 1 <= room[s].max
    BY <1>1, <1>4, ChoiceFits
  <2>2. Settle(t, s, Admit(room[s], p)) /\ room[s].admissions < MaxAdmissions
    BY <1>4
  <2> HIDE DEF s
  <2>3. RosterFits(Admit(room[s], p))
    BY <1>1, <2>1, <2>2, AdmitFits DEF RoomsFit, RoomFits
  <2>4. QED BY <2>1, <2>2, <2>3, SettleShuts
<1>5. CASE Settle(t, Len(room) + 1, Admit(NewRoom(pl), p))
  <2>1. /\ RosterFits(NewRoom(pl)) /\ NewRoom(pl).pooled /\ NewRoom(pl).admissions = 0
        /\ NewRoom(pl).count = 0 /\ NewRoom(pl).max \in Nat \ {0}
    BY <1>1, NewRoomFits
  <2>2. NewRoom(pl).admissions < MaxAdmissions /\ NewRoom(pl).count + 1 <= NewRoom(pl).max
    BY <2>1, BoundAssumption
  <2>3. RosterFits(Admit(NewRoom(pl), p))
    BY <1>1, <2>1, <2>2, AdmitFits
  <2>4. QED BY <1>5, <2>3, SettleShuts
<1>6. QED BY <1>2, <1>3, <1>4, <1>5 DEF PollUnseated

LEMMA NextShuts ==
    ASSUME NoCodedControl, IInv, ShutInv, [Next]_vars
    PROVE  ShutInv'
<1>1. CalmStep
  BY NextIsCalm
<1>2. CASE UNCHANGED offered
  BY <1>1, <1>2, OffersShut
<1>3. ASSUME NEW t \in Ticket, PollSeated(t)
      PROVE  ShutInv'
  <2> DEFINE s == ticketRoom[t]
  <2>1. s \in Rooms /\ Settle(t, s, room[s])
    BY <1>3 DEF PollSeated, IInv, TicketsFit
  <2>2. RosterFits(room[s])
    BY <2>1 DEF IInv, RoomsFit, RoomFits
  <2> HIDE DEF s
  <2>3. QED BY <1>1, <2>1, <2>2, SettleShuts
<1>4. ASSUME NEW t \in Ticket, PollUnseated(t)
      PROVE  ShutInv'
  BY <1>1, <1>4, PollShuts
<1>5. UNCHANGED offered \/ \E t \in Ticket : PollSeated(t) \/ PollUnseated(t)
  BY DEF Next, vars, searching, CreateTicket, Poll, PollFailed, SendResult, EndTracking, Cancel,
         CreateCreation, CompleteCreation, Join, Connect, Depart, Reopen, Control
<1>6. QED BY <1>2, <1>3, <1>4, <1>5

(* A step that gives no token for a coded room, closes one only when it is *)
(* full, and lets nobody search in one that was announced.                 *)
Keeps ==
    /\ \A t \in Ticket : pc'[t] = "entered" => ticketRoom'[t] = 0
    /\ \A c \in DOMAIN creations' :
          creations'[c].room # 0 => ~ Group(room'[creations'[c].room])
    /\ \A y \in tokens' : y \in tokens \/ ~ Group(room'[y[1]])
    /\ tokens \subseteq tokens'
    /\ \A t \in Live' : pc'[t] = "SEARCHING" =>
          \/ t \in Live /\ pc[t] = "SEARCHING" /\ ticketRoom'[t] \in {ticketRoom[t], 0}
          \/ ~ Given(ticketRoom'[t])
          \/ ticketRoom'[t] \in Rooms' /\ ~ Group(room'[ticketRoom'[t]])
    /\ \A s \in Rooms' :
          Group(room'[s]) /\ room'[s].active /\ ~ room'[s].open =>
             \/ s \in Rooms /\ room'[s] = room[s]
             \/ Given(s)
             \/ room'[s].count = room'[s].max

LEMMA KeepFills ==
    ASSUME IInv, CalmStep, FillInv, Keeps
    PROVE  FillInv'
<1>1. Evolves /\ tokens \subseteq Rooms \X Seat
  BY DEF CalmStep, StepFits, IInv, GamesyncFit
<1>2. ASSUME NEW s \in Rooms', Group(room'[s])
      PROVE  Given(s)' => /\ s \in Rooms /\ Group(room[s]) /\ Given(s) /\ ~ room'[s].open
  <2> SUFFICES ASSUME Given(s)'
               PROVE  s \in Rooms /\ Group(room[s]) /\ Given(s) /\ ~ room'[s].open
    OBVIOUS
  <2>1. PICK y \in tokens' : y[1] = s
    BY DEF Given
  <2>2. y \in tokens
    BY <1>2, <2>1 DEF Keeps
  <2>3. s \in Rooms /\ Given(s)
    BY <1>1, <2>1, <2>2 DEF Given
  <2>5. Group(room[s])
    BY <1>1, <1>2, <2>3, GroupsStay
  <2>6. ~ room[s].open
    BY <2>3, <2>5 DEF FillInv
  <2> QED BY <2>3, <2>5, <2>6 DEF CalmStep, Group, Coded
<1>3. \A s : Given(s) => Given(s)'
  BY DEF Given, Keeps
<1>4. ASSUME NEW s \in Rooms', Group(room'[s]), Given(s)',
             NEW t \in Live', ticketRoom'[t] = s
      PROVE  pc'[t] # "SEARCHING"
  <2>1. s \in Rooms /\ Group(room[s]) /\ Given(s) /\ s # 0
    BY <1>2, <1>4, RoomNumbers DEF IInv
  <2>2. \A u \in Live : ticketRoom[u] = s => pc[u] # "SEARCHING"
    BY <2>1 DEF FillInv
  <2> QED BY <1>4, <2>1, <2>2 DEF Keeps
<1>5. ASSUME NEW s \in Rooms', Group(room'[s]), room'[s].active,
             ~ room'[s].open, ~ Given(s)'
      PROVE  room'[s].count = room'[s].max
  <2>1. ~ Given(s)
    BY <1>3, <1>5
  <2>2. CASE s \in Rooms /\ room'[s] = room[s]
    BY <1>5, <2>1, <2>2 DEF FillInv, Group
  <2> QED BY <1>5, <2>1, <2>2 DEF Keeps
<1> QED BY <1>2, <1>4, <1>5 DEF FillInv, Keeps, Group

(* A step that leaves rooms, tokens and creations alone. *)
LEMMA CalmFills ==
    ASSUME IInv, CalmStep, FillInv, UNCHANGED <<room, tokens, creations>>,
           \A t \in Ticket : pc'[t] = "entered" => ticketRoom'[t] = 0,
           \A t \in Live' : pc'[t] = "SEARCHING" =>
              \/ t \in Live /\ pc[t] = "SEARCHING" /\ ticketRoom'[t] \in {ticketRoom[t], 0}
              \/ ticketRoom'[t] = 0
    PROVE  FillInv'
<1>1. ~ Given(0)
  BY RoomNumbers DEF IInv, GamesyncFit, Given
<1>2. \A c \in DOMAIN creations' :
         creations'[c].room # 0 => ~ Group(room'[creations'[c].room])
  BY DEF FillInv, Group
<1>3. Keeps
  BY <1>1, <1>2 DEF Keeps, Rooms
<1> QED BY <1>3, KeepFills

(* One room changes. *)
LEMMA PlaceFills ==
    ASSUME IInv, CalmStep, FillInv, UNCHANGED <<tokens, creations>>, NEW s \in Rooms, NEW q,
           room' = [room EXCEPT ![s] = q],
           \/ ~ Group(room[s]) \/ Given(s)
           \/ q.active /\ ~ q.open => q.count = q.max \/ q = room[s],
           \A t \in Ticket : pc'[t] = "entered" => ticketRoom'[t] = 0,
           \A t \in Live' : pc'[t] = "SEARCHING" =>
              \/ t \in Live /\ pc[t] = "SEARCHING" /\ ticketRoom'[t] \in {ticketRoom[t], 0}
              \/ ticketRoom'[t] = s /\ (~ Group(room[s]) \/ ~ Given(s))
    PROVE  FillInv'
<1>1. room \in Seq(RoomState) /\ Rooms' = Rooms
  BY DEF IInv, RoomsFit, Rooms
<1>2. \A z \in Rooms : room'[z] = IF z = s THEN q ELSE room[z]
  BY <1>1 DEF Rooms
<1>3. Evolves
  BY DEF CalmStep, StepFits
<1>4. \A z \in Rooms : Group(room'[z]) <=> Group(room[z])
  BY <1>3, GroupsStay
<1>5. ASSUME NEW c \in DOMAIN creations', creations'[c].room # 0
      PROVE  ~ Group(room'[creations'[c].room])
  <2>1. creations[c].room \in Rooms
    BY <1>5 DEF IInv, CreationsFit
  <2> QED BY <1>4, <1>5, <2>1 DEF FillInv, Group
<1>6. \A t \in Live' : pc'[t] = "SEARCHING" =>
          \/ t \in Live /\ pc[t] = "SEARCHING" /\ ticketRoom'[t] \in {ticketRoom[t], 0}
          \/ ~ Given(ticketRoom'[t])
          \/ ticketRoom'[t] \in Rooms' /\ ~ Group(room'[ticketRoom'[t]])
  BY <1>1, <1>4 DEF Group
<1>7. ASSUME NEW z \in Rooms', Group(room'[z]), room'[z].active, ~ room'[z].open
      PROVE  \/ z \in Rooms /\ room'[z] = room[z]
             \/ Given(z)
             \/ room'[z].count = room'[z].max
  <2>1. CASE z # s
    BY <1>1, <1>2, <2>1
  <2>2. CASE z = s
    BY <1>1, <1>2, <1>4, <1>7, <2>2 DEF Group
  <2> QED BY <2>1, <2>2
<1>8. Keeps
  BY <1>5, <1>6, <1>7 DEF Keeps
<1> QED BY <1>8, KeepFills

LEMMA SettlePhases ==
    ASSUME IInv, FillInv, NEW t \in Ticket, NEW s, NEW q, Settle(t, s, q),
           ticketRoom' = [ticketRoom EXCEPT ![t] = s]
    PROVE  /\ \A u \in Ticket : pc'[u] = "entered" => ticketRoom'[u] = 0
           /\ \A u \in Ticket \ {t} : pc'[u] = pc[u] /\ ticketRoom'[u] = ticketRoom[u]
           /\ ticketRoom'[t] = s
           /\ pc'[t] = "SEARCHING" => StillSearching(q)
<1>1. pc \in [Ticket -> StreamState] /\ ticketRoom \in [Ticket -> Rooms \cup {0}]
  BY DEF IInv, TicketsFit
<1>2. pc' = [pc EXCEPT ![t] = IF StillSearching(q) THEN "SEARCHING" ELSE "PLACING"]
  BY DEF Settle
<1> QED BY <1>1, <1>2 DEF FillInv

(* A coded room that is closed with its group complete is full. *)
LEMMA CompleteIsFull ==
    ASSUME NEW q, RosterFits(q), Group(q), ~ StillSearching(q)
    PROVE  Closed(q).count = Closed(q).max
  BY ClosedFits, RosterType DEF StillSearching, RosterFits, Group

(* A ticket settles in a room of the registry: its own, or an open one. *)
LEMMA SettleFills ==
    ASSUME IInv, CalmStep, FillInv, NEW t \in Ticket, t \in Live, NEW s \in Rooms, NEW q,
           RosterFits(q), Group(q) <=> Group(room[s]), Settle(t, s, q),
           ticketRoom' = [ticketRoom EXCEPT ![t] = s], Live' = Live,
           UNCHANGED <<tokens, creations>>,
           \/ q = room[s] /\ pc[t] = "SEARCHING" /\ ticketRoom[t] = s
           \/ q.open /\ room[s].open
    PROVE  FillInv'
<1> DEFINE final == IF StillSearching(q) THEN q ELSE Closed(q)
<1>1. room' = [room EXCEPT ![s] = final]
  BY DEF Settle
<1>2. \/ ~ Group(room[s]) \/ Given(s)
      \/ final.active /\ ~ final.open => final.count = final.max \/ final = room[s]
  <2>1. CASE StillSearching(q)
    BY <2>1
  <2>2. CASE ~ StillSearching(q) /\ Group(room[s])
    BY <2>2, CompleteIsFull
  <2> QED BY <2>1, <2>2
<1> HIDE DEF final
<1>3. /\ \A u \in Ticket : pc'[u] = "entered" => ticketRoom'[u] = 0
      /\ \A u \in Ticket \ {t} : pc'[u] = pc[u] /\ ticketRoom'[u] = ticketRoom[u]
      /\ ticketRoom'[t] = s
  BY SettlePhases
<1>4. \A u \in Live' : pc'[u] = "SEARCHING" =>
         \/ u \in Live /\ pc[u] = "SEARCHING" /\ ticketRoom'[u] \in {ticketRoom[u], 0}
         \/ ticketRoom'[u] = s /\ (~ Group(room[s]) \/ ~ Given(s))
  <2>1. Live \subseteq Ticket
    BY DEF IInv, TicketsFit
  <2>2. room[s].open => ~ Group(room[s]) \/ ~ Given(s)
    BY DEF FillInv
  <2> QED BY <1>3, <2>1, <2>2
<1> QED BY <1>1, <1>2, <1>3, <1>4, PlaceFills

(* Or in a new one. *)
LEMMA NewFills ==
    ASSUME IInv, CalmStep, FillInv, NEW t \in Ticket, t \in Live, NEW q, RoomFits(q), q.open,
           Settle(t, Len(room) + 1, q), Len(room) + 1 <= MaxRooms[q.pool],
           ticketRoom' = [ticketRoom EXCEPT ![t] = Len(room) + 1], Live' = Live,
           UNCHANGED <<tokens, creations>>
    PROVE  FillInv'
<1> DEFINE n == Len(room) + 1
           final == IF StillSearching(q) THEN q ELSE Closed(q)
<1>1. Rooms = 1..Len(room) /\ Len(room) \in Nat /\ n \notin Rooms
  BY RoomNumbers DEF IInv
<1>2. room' = Append(room, final)
  BY <1>1 DEF Settle
<1>3. RosterFits(q) /\ RosterFits(final)
  BY ClosedFits DEF RoomFits
<1>4. Group(final) /\ ~ final.open => final.count = final.max
  <2>1. CASE StillSearching(q)
    BY <2>1
  <2>2. CASE ~ StillSearching(q)
    <3>1. final.pool = q.pool /\ final.pooled = q.pooled
      BY <1>3, ClosedFits
    <3> QED BY <1>3, <2>2, <3>1, CompleteIsFull DEF Group
  <2> QED BY <2>1, <2>2
<1> HIDE DEF final
<1>5. /\ Rooms' = Rooms \cup {n} /\ room'[n] = final
      /\ \A z \in Rooms : room'[z] = room[z]
  <2>1. final \in RoomState /\ room \in Seq(RoomState)
    BY <1>3 DEF RosterFits, IInv, RoomsFit
  <2>2. /\ Len(room') = Len(room) + 1 /\ room' \in Seq(RoomState)
        /\ \A i \in 1..Len(room) : room'[i] = room[i]
        /\ room'[n] = final
    BY <1>2, <2>1, AppendProperties
  <2> QED BY <1>1, <2>2 DEF Rooms
<1>6. ~ Given(n)
  BY <1>1 DEF Given, IInv, GamesyncFit
<1>7. /\ \A u \in Ticket : pc'[u] = "entered" => ticketRoom'[u] = 0
      /\ \A u \in Ticket \ {t} : pc'[u] = pc[u] /\ ticketRoom'[u] = ticketRoom[u]
      /\ ticketRoom'[t] = n
  BY SettlePhases
<1>8. \A u \in Live' : pc'[u] = "SEARCHING" =>
         \/ u \in Live /\ pc[u] = "SEARCHING" /\ ticketRoom'[u] \in {ticketRoom[u], 0}
         \/ ~ Given(ticketRoom'[u])
  <2>1. Live \subseteq Ticket
    BY DEF IInv, TicketsFit
  <2> QED BY <1>6, <1>7, <2>1
<1>9. ASSUME NEW c \in DOMAIN creations', creations'[c].room # 0
      PROVE  ~ Group(room'[creations'[c].room])
  <2>1. creations[c].room \in Rooms
    BY <1>9 DEF IInv, CreationsFit
  <2> QED BY <1>5, <1>9, <2>1 DEF FillInv, Group
<1>10. ASSUME NEW z \in Rooms', Group(room'[z]), room'[z].active, ~ room'[z].open
       PROVE  \/ z \in Rooms /\ room'[z] = room[z]
              \/ room'[z].count = room'[z].max
  BY <1>4, <1>5, <1>10
<1>11. Keeps
  BY <1>7, <1>8, <1>9, <1>10 DEF Keeps
<1> QED BY <1>11, KeepFills

LEMMA PollSeatedFills ==
    ASSUME IInv, CalmStep, FillInv, NEW t \in Ticket, PollSeated(t)
    PROVE  FillInv'
<1> DEFINE s == ticketRoom[t]
<1>1. t \in Live /\ s \in Rooms /\ s # 0 /\ Settle(t, s, room[s])
  BY DEF PollSeated, IInv, TicketsFit
<1>2. RosterFits(room[s])
  BY <1>1 DEF IInv, RoomsFit, RoomFits
<1>3. pc[t] = "SEARCHING"
  BY <1>1 DEF PollSeated, Polling, FillInv
<1>4. ticketRoom' = [ticketRoom EXCEPT ![t] = s] /\ Live' = Live
  BY DEF PollSeated, IInv, TicketsFit, Live
<1>5. UNCHANGED <<tokens, creations>>
  BY DEF PollSeated
<1> HIDE DEF s
<1>6. ticketRoom[t] = s
  BY DEF s
<1> QED BY <1>1, <1>2, <1>3, <1>4, <1>5, <1>6, SettleFills

LEMMA PollUnseatedFills ==
    ASSUME IInv, CalmStep, FillInv, NEW t \in Ticket, PollUnseated(t)
    PROVE  FillInv'
<1> DEFINE p == tickets[t].user
           pl == tickets[t].pool
<1>1. /\ t \in Live /\ p \in Player /\ pl \in Pool /\ ticketRoom[t] = 0
      /\ UNCHANGED <<creations, tokens, tickets>> /\ Live' = Live
  BY DEF PollUnseated, IInv, TicketsFit, MatchmakingTicket, Live
<1>2. RoomsFit
  BY DEF IInv
<1>3. CASE /\ pc' = [pc EXCEPT ![t] = "SEARCHING"] /\ UNCHANGED <<room, ticketRoom>>
  <2>1. pc \in [Ticket -> StreamState] /\ Live \subseteq Ticket
    BY DEF IInv, TicketsFit
  <2>2. \A u \in Ticket : pc'[u] = "entered" => ticketRoom'[u] = 0
    BY <1>3, <2>1 DEF FillInv
  <2>3. \A u \in Live' : pc'[u] = "SEARCHING" =>
           \/ u \in Live /\ pc[u] = "SEARCHING" /\ ticketRoom'[u] \in {ticketRoom[u], 0}
           \/ ticketRoom'[u] = 0
    BY <1>1, <1>3, <2>1
  <2> QED BY <1>1, <1>3, <2>2, <2>3, CalmFills
<1>4. ASSUME NEW s \in RaidRooms(t), room[s].admissions < MaxAdmissions,
             Settle(t, s, Admit(AsPooled(room[s]), p)), ticketRoom' = [ticketRoom EXCEPT ![t] = s]
      PROVE  FillInv'
  <2> DEFINE r == AsPooled(room[s])
             q == Admit(r, p)
  <2>1. /\ s \in Rooms /\ room[s].open /\ ~ Holds(room[s].users, p)
        /\ room[s].count + 1 <= room[s].max /\ Kind[room[s].pool] = "raid"
    BY DEF RaidRooms, Joinable, Vacant, Raid
  <2>2. RosterFits(room[s])
    BY <1>2, <2>1 DEF RoomsFit, RoomFits
  <2>3. /\ RosterFits(r) /\ r.pooled /\ r.pool = room[s].pool /\ r.open = room[s].open
        /\ r.users = room[s].users /\ r.count = room[s].count /\ r.max = room[s].max
        /\ r.admissions = room[s].admissions
    BY <2>1, <2>2, AsPooledFits
  <2> HIDE DEF r
  <2>4. RosterFits(q) /\ q.pool = r.pool /\ q.open = r.open
    BY <1>1, <1>4, <2>1, <2>3, AdmitFits
  <2>5. Settle(t, s, q)
    BY <1>4 DEF r
  <2> HIDE DEF q
  <2> QED BY <1>1, <1>4, <2>1, <2>3, <2>4, <2>5, SettleFills DEF Group
<1>5. CASE /\ Kind[pl] # "raid" /\ Choice(pl, p) # 0
           /\ room[Choice(pl, p)].admissions < MaxAdmissions
           /\ Settle(t, Choice(pl, p), Admit(room[Choice(pl, p)], p))
           /\ ticketRoom' = [ticketRoom EXCEPT ![t] = Choice(pl, p)]
  <2> DEFINE s == Choice(pl, p)
             q == Admit(room[s], p)
  <2>1. /\ s \in Rooms /\ room[s].pool = pl /\ room[s].pooled /\ Joinable(s)
        /\ Holds(room[s].users, p) \/ room[s].count + 1 <= room[s].max
    BY <1>1, <1>5, ChoiceFits
  <2>2. /\ Settle(t, s, q) /\ room[s].admissions < MaxAdmissions
        /\ ticketRoom' = [ticketRoom EXCEPT ![t] = s]
    BY <1>5
  <2> HIDE DEF s
  <2>3. RosterFits(room[s])
    BY <1>2, <2>1 DEF RoomsFit, RoomFits
  <2>4. RosterFits(q) /\ q.pool = room[s].pool /\ q.open = room[s].open /\ q.pooled
    BY <1>1, <2>1, <2>2, <2>3, AdmitFits
  <2> HIDE DEF q
  <2> QED BY <1>1, <2>1, <2>2, <2>4, SettleFills DEF Joinable, Group
<1>6. CASE /\ Kind[pl] # "raid" /\ Choice(pl, p) = 0 /\ Len(room) < MaxRooms[pl]
           /\ Settle(t, Len(room) + 1, Admit(NewRoom(pl), p))
           /\ ticketRoom' = [ticketRoom EXCEPT ![t] = Len(room) + 1]
  <2> DEFINE q == Admit(NewRoom(pl), p)
  <2>1. /\ RosterFits(q) /\ q.pool = pl /\ q.open /\ q.users # {}
    <3>1. /\ RosterFits(NewRoom(pl)) /\ NewRoom(pl).pooled /\ NewRoom(pl).pool = pl
          /\ NewRoom(pl).admissions = 0 /\ NewRoom(pl).count = 0
          /\ NewRoom(pl).max \in Nat \ {0} /\ NewRoom(pl).open = TRUE
      BY <1>1, NewRoomFits
    <3>2. NewRoom(pl).admissions < MaxAdmissions /\ NewRoom(pl).count + 1 <= NewRoom(pl).max
      BY <3>1, BoundAssumption
    <3> QED BY <1>1, <3>1, <3>2, AdmitFits
  <2>2. RoomFits(q)
    BY <1>6, <2>1 DEF RoomFits, Hosted
  <2>3. Len(room) + 1 <= MaxRooms[q.pool]
    BY <1>1, <1>2, <1>6, <2>1, RoomNumbers, BoundAssumption
  <2>4. Settle(t, Len(room) + 1, q)
    BY <1>6
  <2> HIDE DEF q
  <2> QED BY <1>1, <1>6, <2>1, <2>2, <2>3, <2>4, NewFills
<1> QED BY <1>3, <1>4, <1>5, <1>6 DEF PollUnseated

LEMMA CancelPendingFills ==
    ASSUME IInv, CalmStep, FillInv, NEW t \in Ticket, Pending(t), CancelPending(t),
           UNCHANGED <<tokens, creations>>, \A u \in Ticket : pc'[u] \in {pc[u], "ended"}
    PROVE  FillInv'
<1> DEFINE s == ticketRoom[t]
           q == Without(room[s], SeatsToRelease(t))
<1>1. /\ t \in Live /\ s \in Rooms /\ Group(room[s])
      /\ room[s].count < Capacity[room[s].pool]
  BY DEF Pending, IInv, TicketsFit, Serves, Group
<1>2. RosterFits(room[s])
  BY <1>1 DEF IInv, RoomsFit, RoomFits
<1>3. room' = [room EXCEPT ![s] = q]
  BY DEF CancelPending
<1>4. ticketRoom' = [ticketRoom EXCEPT ![t] = 0] /\ Live' = Live \ {t}
  BY DEF CancelPending, WithoutTicket, Live
<1>5. ticketRoom \in [Ticket -> Rooms \cup {0}] /\ Live \subseteq Ticket
  BY DEF IInv, TicketsFit
<1> HIDE DEF s
<1>6. Given(s) \/ (q.active /\ ~ q.open => q.count = q.max \/ q = room[s])
  <2> SUFFICES ASSUME ~ Given(s), q.active, ~ q.open
               PROVE  FALSE
    OBVIOUS
  <2>1. /\ q.active = (room[s].active /\ room[s].users \ SeatsToRelease(t) # {})
        /\ q.open = (room[s].open /\ room[s].users \ SeatsToRelease(t) # {})
    BY <1>2 DEF Without, RosterFits, RoomState
  <2>2. room[s].active /\ ~ room[s].open
    BY <2>1
  <2>3. room[s].count = room[s].max
    BY <1>1, <2>2 DEF FillInv
  <2>4. room[s].count = Capacity[room[s].pool] /\ room[s].count \in Nat
    BY <1>1, <1>2, <2>3, RosterType DEF RosterFits, Group
  <2> QED BY <1>1, <2>4
<1> HIDE DEF q
<1>7. \A u \in Ticket : pc'[u] = "entered" => ticketRoom'[u] = 0
  BY <1>4, <1>5 DEF FillInv
<1>8. \A u \in Live' : pc'[u] = "SEARCHING" =>
         u \in Live /\ pc[u] = "SEARCHING" /\ ticketRoom'[u] \in {ticketRoom[u], 0}
  BY <1>4, <1>5
<1> QED BY <1>1, <1>3, <1>6, <1>7, <1>8, PlaceFills

LEMMA EndFills ==
    ASSUME IInv, CalmStep, FillInv, NEW t \in Ticket, EndTracking(t) \/ Cancel(t)
    PROVE  FillInv'
<1>1. /\ UNCHANGED <<tokens, creations>> /\ \A u \in Ticket : pc'[u] \in {pc[u], "ended"}
      /\ \/ Pending(t) /\ CancelPending(t)
         \/ UNCHANGED <<room, ticketRoom>> /\ (tickets' = tickets \/ tickets' = WithoutTicket(t))
  BY DEF EndTracking, Cancel, IInv, TicketsFit
<1>2. CASE UNCHANGED <<room, ticketRoom>> /\ (tickets' = tickets \/ tickets' = WithoutTicket(t))
  <2>1. Live' \subseteq Live /\ Live \subseteq Ticket
    BY <1>2 DEF WithoutTicket, Live, IInv, TicketsFit
  <2>2. \A u \in Ticket : pc'[u] = "entered" => ticketRoom'[u] = 0
    BY <1>1, <1>2 DEF FillInv
  <2>3. \A u \in Live' : pc'[u] = "SEARCHING" =>
           u \in Live /\ pc[u] = "SEARCHING" /\ ticketRoom'[u] \in {ticketRoom[u], 0}
    BY <1>1, <1>2, <2>1
  <2> QED BY <1>1, <1>2, <2>2, <2>3, CalmFills
<1> QED BY <1>1, <1>2, CancelPendingFills

LEMMA CalmTicketFills ==
    ASSUME IInv, CalmStep, FillInv, NEW t \in Ticket,
           \/ PollFailed(t)
           \/ \E p \in Player, q \in SearchRequests : CreateTicket(t, p, q)
    PROVE  FillInv'
<1>1. /\ pc \in [Ticket -> StreamState] /\ Live \subseteq Ticket
      /\ \A u \in Ticket : pc[u] = "idle" => ticketRoom[u] = 0
  BY DEF IInv, TicketsFit
<1>2. CASE PollFailed(t)
  <2>1. UNCHANGED <<room, tokens, creations, ticketRoom, tickets>> /\ Live' = Live
    BY <1>2 DEF PollFailed, Live
  <2>2. \A u \in Ticket : pc'[u] \in {pc[u], "FAILED", "returning"}
    BY <1>1, <1>2 DEF PollFailed
  <2>3. \A u \in Ticket : pc'[u] = "entered" => ticketRoom'[u] = 0
    BY <2>1, <2>2 DEF FillInv
  <2>4. \A u \in Live' : pc'[u] = "SEARCHING" =>
           u \in Live /\ pc[u] = "SEARCHING" /\ ticketRoom'[u] \in {ticketRoom[u], 0}
    BY <1>1, <2>1, <2>2
  <2> QED BY <2>1, <2>3, <2>4, CalmFills
<1>3. ASSUME NEW p \in Player, NEW q \in SearchRequests, CreateTicket(t, p, q)
      PROVE  FillInv'
  <2>1. UNCHANGED <<room, tokens, creations, ticketRoom>> /\ Live' = Live \cup {t}
    BY <1>3 DEF CreateTicket, Live
  <2>2. pc' = [pc EXCEPT ![t] = "entered"] /\ ticketRoom[t] = 0
    BY <1>1, <1>3 DEF CreateTicket
  <2>3. \A u \in Ticket : pc'[u] = "entered" => ticketRoom'[u] = 0
    BY <1>1, <2>1, <2>2 DEF FillInv
  <2>4. \A u \in Live' : pc'[u] = "SEARCHING" =>
           u \in Live /\ pc[u] = "SEARCHING" /\ ticketRoom'[u] \in {ticketRoom[u], 0}
    BY <1>1, <2>1, <2>2
  <2> QED BY <2>1, <2>3, <2>4, CalmFills
<1> QED BY <1>2, <1>3

(* The result goes to a room nobody searches in any more. *)
LEMMA SendResultFills ==
    ASSUME PromptPolls, IInv, ShutInv, FillInv, NEW t \in Ticket, SendResult(t)
    PROVE  FillInv'
<1> DEFINE s == offered[t][1]
<1>1. /\ offered[t] \in Rooms \X Seat
      /\ Group(room[s]) => ~ room[s].open
      /\ pc \in [Ticket -> StreamState] /\ Live \subseteq Ticket
  <2>1. offered[t] \in Rooms \X Seat
    BY DEF SendResult, IInv, OffersFit
  <2>2. s \in Rooms
    BY <2>1
  <2>3. QED BY <2>1, <2>2 DEF ShutInv, Group, Coded, IInv, TicketsFit
<1>2. /\ UNCHANGED <<room, creations, ticketRoom, tickets>> /\ Live' = Live
      /\ tokens' = tokens \cup {offered[t]}
      /\ \A u \in Live : ticketRoom[u] = s => pc[u] # "SEARCHING"
  BY DEF SendResult, Live
<1>3. \A u \in Ticket : pc'[u] \in {pc[u], "SUCCEEDED"}
  BY <1>1 DEF SendResult
<1>4. \A z : Given(z)' <=> Given(z) \/ z = s
  BY <1>2 DEF Given
<1> HIDE DEF s
<1>5. ASSUME NEW z \in Rooms, Group(room[z]), Given(z)'
      PROVE  ~ room[z].open /\ \A u \in Live : ticketRoom[u] = z => pc'[u] # "SEARCHING"
  <2>1. ~ room[z].open /\ \A u \in Live : ticketRoom[u] = z => pc[u] # "SEARCHING"
    <3>1. CASE z = s
      BY <1>1, <1>2, <1>5, <3>1
    <3>2. CASE Given(z)
      BY <1>5, <3>2 DEF FillInv
    <3> QED BY <1>4, <1>5, <3>1, <3>2
  <2> QED BY <1>1, <1>3, <2>1
<1>6. \A z \in Rooms : Group(room[z]) /\ room[z].active /\ ~ room[z].open /\ ~ Given(z)' =>
         room[z].count = room[z].max
  BY <1>4 DEF FillInv
<1>7. \A u \in Ticket : pc'[u] = "entered" => ticketRoom'[u] = 0
  BY <1>2, <1>3 DEF FillInv
<1> QED BY <1>2, <1>5, <1>6, <1>7 DEF FillInv, Group, Rooms

(* Rooms and tokens change, but not those of coded rooms. *)
LEMMA UncodedFills ==
    ASSUME IInv, CalmStep, FillInv, UNCHANGED searching, tokens \subseteq tokens',
           \A y \in tokens' : y \in tokens \/ ~ Group(room'[y[1]]),
           \A z \in Rooms' : \/ z \in Rooms /\ room'[z] = room[z]
                             \/ ~ Group(room'[z]),
           \A c \in DOMAIN creations' :
              creations'[c].room # 0 => ~ Group(room'[creations'[c].room])
    PROVE  FillInv'
<1>1. UNCHANGED <<tickets, ticketRoom, pc>> /\ Live' = Live /\ Live \subseteq Ticket
  BY DEF searching, Live, IInv, TicketsFit
<1>2. \A t \in Ticket : pc'[t] = "entered" => ticketRoom'[t] = 0
  BY <1>1 DEF FillInv
<1>3. Keeps
  BY <1>1, <1>2 DEF Keeps
<1> QED BY <1>3, KeepFills

LEMMA CreationFills ==
    ASSUME IInv, CalmStep, FillInv, NEW c \in Creation,
           \/ CompleteCreation(c)
           \/ \E p \in Player, q \in CreationRequests : CreateCreation(c, p, q)
    PROVE  FillInv'
<1>1. ASSUME NEW p \in Player, NEW q \in CreationRequests, CreateCreation(c, p, q)
      PROVE  FillInv'
  <2>1. UNCHANGED <<room, tokens, searching>>
    BY <1>1 DEF CreateCreation
  <2>2. DOMAIN creations' = DOMAIN creations \cup {c}
        /\ \A x \in DOMAIN creations' : creations'[x].room = 0
              \/ (x \in DOMAIN creations /\ creations'[x] = creations[x])
    BY <1>1 DEF CreateCreation
  <2>3. \A x \in DOMAIN creations' :
           creations'[x].room # 0 => ~ Group(room'[creations'[x].room])
    BY <2>1, <2>2 DEF FillInv
  <2> QED BY <2>1, <2>3, UncodedFills DEF Rooms
<1>2. CASE CompleteCreation(c)
  <2> DEFINE p == creations[c].user
             s == creations[c].room
             q == Created(c)
             n == Len(room) + 1
  <2>1. /\ c \in DOMAIN creations /\ creations[c] \in GameSessionCreationTicket
        /\ creations \in [DOMAIN creations -> GameSessionCreationTicket]
        /\ creations[c].state \in CreationState /\ creations[c].pool \in Pool
    BY <1>2 DEF CompleteCreation, IInv, CreationsFit, GameSessionCreationTicket
  <2>2. UNCHANGED searching
    BY <1>2 DEF CompleteCreation
  <2>3. CASE ~ Uncreated(c)
    <3>1. UNCHANGED <<room, creations>> /\ tokens' = tokens \cup {<<s, SeatOf(room[s].users, p)>>}
      BY <1>2, <2>3 DEF CompleteCreation
    <3>2. s \in Rooms /\ s # 0
      BY <2>1, <2>3, RoomNumbers DEF IInv, CreationsFit, Uncreated, CreationState
    <3>3. ~ Group(room[s])
      BY <2>1, <3>2 DEF FillInv
    <3> HIDE DEF s
    <3>4. \A y \in tokens' : y \in tokens \/ ~ Group(room'[y[1]])
      BY <3>1, <3>3
    <3> QED BY <2>2, <3>1, <3>4, UncodedFills DEF Rooms, FillInv
  <2>4. CASE Uncreated(c)
    <3>1. /\ Len(room) < MaxRooms[creations[c].pool] /\ room' = Append(room, q)
          /\ creations' = [creations EXCEPT ![c].state = "SUCCEEDED", ![c].room = n]
          /\ tokens' = tokens \cup {<<n, <<1, p>>>>} /\ Granted(c) \in 1..LargestRoom
      BY <1>2, <2>4 DEF CompleteCreation, Created
    <3>2. RoomFits(q) /\ q.pooled = FALSE
      BY <2>1, <3>1, CreatedRoomFits
    <3> HIDE DEF q
    <3>4. /\ Rooms' = Rooms \cup {n} /\ room'[n] = q
          /\ \A z \in Rooms : room'[z] = room[z]
      <4>1. q \in RoomState /\ room \in Seq(RoomState) /\ Rooms = 1..Len(room)
            /\ Len(room) \in Nat
        BY <3>2, RoomNumbers DEF IInv, RoomsFit, RoomFits, RosterFits
      <4>2. /\ Len(room') = n /\ room'[n] = q /\ room' \in Seq(RoomState)
            /\ \A z \in Rooms : room'[z] = room[z]
        BY <3>1, <4>1, AppendProperties
      <4>3. Rooms' = 1..n
        BY <4>2 DEF Rooms
      <4> QED BY <4>1, <4>2, <4>3
    <3>5. DOMAIN creations' = DOMAIN creations
          /\ \A x \in DOMAIN creations :
                creations'[x].room = IF x = c THEN n ELSE creations[x].room
      BY <2>1, <3>1 DEF GameSessionCreationTicket
    <3>0. ~ Group(room'[n])
      BY <3>2, <3>4 DEF Group
    <3> HIDE DEF n
    <3>6. \A x \in DOMAIN creations : creations[x].room # 0 =>
             creations[x].room \in Rooms /\ ~ Group(room[creations[x].room])
      BY DEF FillInv, IInv, CreationsFit
    <3>7. \A x \in DOMAIN creations' :
             creations'[x].room # 0 => ~ Group(room'[creations'[x].room])
      BY <3>0, <3>4, <3>5, <3>6
    <3>8. \A y \in tokens' : y \in tokens \/ ~ Group(room'[y[1]])
      <4>1. \A y \in tokens' : y \in tokens \/ y[1] = n
        BY <3>1
      <4> QED BY <3>0, <4>1
    <3>9. \A z \in Rooms' : (z \in Rooms /\ room'[z] = room[z]) \/ ~ Group(room'[z])
      BY <3>0, <3>4
    <3> QED BY <2>2, <3>1, <3>7, <3>8, <3>9, UncodedFills
  <2> QED BY <2>3, <2>4
<1> QED BY <1>1, <1>2

LEMMA JoinFills ==
    ASSUME NoCodedJoins, IInv, CalmStep, FillInv, NEW s \in Rooms, NEW p \in Player, Join(s, p)
    PROVE  FillInv'
<1>1. ~ Group(room[s]) /\ UNCHANGED <<creations, searching>>
  BY DEF Join, NoCodedJoins, Group
<1>2. room \in Seq(RoomState) /\ Evolves
  BY DEF IInv, RoomsFit, CalmStep, StepFits
<1>3. \/ UNCHANGED room
      \/ room' = [room EXCEPT ![s] = Joined(room[s], p)]
  BY DEF Join
<1>4. Rooms' = Rooms /\ \A z \in Rooms \ {s} : room'[z] = room[z]
  BY <1>2, <1>3 DEF Rooms
<1>5. \A z \in Rooms : Group(room'[z]) <=> Group(room[z])
  BY <1>2, GroupsStay
<1>6. PICK x : tokens' = tokens \cup {<<s, x>>}
  BY DEF Join
<1>7. \A y \in tokens' : y \in tokens \/ ~ Group(room'[y[1]])
  BY <1>1, <1>5, <1>6 DEF Group
<1>8. \A z \in Rooms' : (z \in Rooms /\ room'[z] = room[z]) \/ ~ Group(room'[z])
  BY <1>1, <1>4, <1>5 DEF Group
<1>9. \A c \in DOMAIN creations' :
         creations'[c].room # 0 => ~ Group(room'[creations'[c].room])
  <2>1. \A c \in DOMAIN creations : creations[c].room # 0 => creations[c].room \in Rooms
    BY DEF IInv, CreationsFit
  <2> QED BY <1>1, <1>5, <2>1 DEF FillInv, Group
<1> QED BY <1>1, <1>6, <1>7, <1>8, <1>9, UncodedFills

(* Who departs was connected, with a token. *)
LEMMA DepartFills ==
    ASSUME IInv, CalmStep, FillInv, NEW s \in Rooms, NEW x \in Seat, Depart(s, x)
    PROVE  FillInv'
<1>1. Given(s)
  BY DEF Depart, IInv, GamesyncFit, Given
<1>2. PICK q : room' = [room EXCEPT ![s] = q]
  BY DEF Depart
<1>3. UNCHANGED <<tokens, creations, tickets, ticketRoom, pc>> /\ Live' = Live
  BY DEF Depart, searching, Live
<1>4. \A t \in Ticket : pc'[t] = "entered" => ticketRoom'[t] = 0
  BY <1>3 DEF FillInv
<1>5. \A t \in Live' : pc'[t] = "SEARCHING" =>
         t \in Live /\ pc[t] = "SEARCHING" /\ ticketRoom'[t] \in {ticketRoom[t], 0}
  BY <1>3
<1> QED BY <1>1, <1>2, <1>3, <1>4, <1>5, PlaceFills

LEMMA FlagFills ==
    ASSUME NoCodedControl, IInv, CalmStep, FillInv, NEW s \in Rooms,
           \/ Reopen(s)
           \/ \E q \in ControlRequests : Control(s, q)
           \/ \E x \in Seat : Connect(s, x)
    PROVE  FillInv'
<1>1. UNCHANGED <<tokens, creations, tickets, ticketRoom, pc>> /\ Live' = Live
  BY DEF Reopen, Control, Connect, searching, Live
<1>2. UNCHANGED room \/ (~ Group(room[s]) /\ \E q : room' = [room EXCEPT ![s] = q])
  <2>1. CASE Reopen(s)
    BY <2>1 DEF Reopen, HostAlone, Raid, Group
  <2>2. CASE \E q \in ControlRequests : Control(s, q)
    BY <2>2 DEF Control, NoCodedControl, Group
  <2>3. CASE \E x \in Seat : Connect(s, x)
    BY <2>3 DEF Connect
  <2> QED BY <2>1, <2>2, <2>3
<1>3. \A t \in Ticket : pc'[t] = "entered" => ticketRoom'[t] = 0
  BY <1>1 DEF FillInv
<1>4. \A t \in Live' : pc'[t] = "SEARCHING" =>
         t \in Live /\ pc[t] = "SEARCHING" /\ ticketRoom'[t] \in {ticketRoom[t], 0}
  BY <1>1
<1>5. CASE UNCHANGED room
  BY <1>1, <1>3, <1>4, <1>5, CalmFills
<1>6. ASSUME ~ Group(room[s]), NEW q, room' = [room EXCEPT ![s] = q]
      PROVE  FillInv'
  BY <1>1, <1>3, <1>4, <1>6, PlaceFills
<1> QED BY <1>2, <1>5, <1>6

LEMMA NextFills ==
    ASSUME NoCodedJoins, NoCodedControl, PromptPolls, IInv, ShutInv, FillInv, [Next]_vars
    PROVE  FillInv'
<1>1. CalmStep
  BY NextIsCalm
<1>2. ASSUME NEW t \in Ticket, NEW p \in Player, NEW q \in SearchRequests, CreateTicket(t, p, q)
      PROVE  FillInv'
  BY <1>1, <1>2, CalmTicketFills
<1>3. ASSUME NEW t \in Ticket, Poll(t)
      PROVE  FillInv'
  BY <1>1, <1>3, CalmTicketFills, PollSeatedFills, PollUnseatedFills DEF Poll
<1>4. ASSUME NEW t \in Ticket, SendResult(t)
      PROVE  FillInv'
  BY <1>4, SendResultFills
<1>5. ASSUME NEW t \in Ticket, EndTracking(t) \/ Cancel(t)
      PROVE  FillInv'
  BY <1>1, <1>5, EndFills
<1>6. ASSUME NEW c \in Creation, NEW p \in Player, NEW q \in CreationRequests,
             CreateCreation(c, p, q)
      PROVE  FillInv'
  BY <1>1, <1>6, CreationFills
<1>7. ASSUME NEW c \in Creation, CompleteCreation(c)
      PROVE  FillInv'
  BY <1>1, <1>7, CreationFills
<1>8. ASSUME NEW s \in Rooms, NEW p \in Player, Join(s, p)
      PROVE  FillInv'
  BY <1>1, <1>8, JoinFills
<1>9. ASSUME NEW s \in Rooms, NEW x \in Seat, Connect(s, x)
      PROVE  FillInv'
  BY <1>1, <1>9, FlagFills
<1>10. ASSUME NEW s \in Rooms, NEW x \in Seat, Depart(s, x)
       PROVE  FillInv'
  BY <1>1, <1>10, DepartFills
<1>11. ASSUME NEW s \in Rooms, Reopen(s)
       PROVE  FillInv'
  BY <1>1, <1>11, FlagFills
<1>12. ASSUME NEW s \in Rooms, NEW q \in ControlRequests, Control(s, q)
       PROVE  FillInv'
  BY <1>1, <1>12, FlagFills
<1>13. CASE UNCHANGED vars
  <2>1. UNCHANGED <<room, tokens, creations, tickets, ticketRoom, pc>> /\ Live' = Live
    BY <1>13 DEF vars, searching, Live
  <2>2. \A t \in Ticket : pc'[t] = "entered" => ticketRoom'[t] = 0
    BY <2>1 DEF FillInv
  <2> QED BY <1>1, <2>1, <2>2, CalmFills
<1> QED BY <1>2, <1>3, <1>4, <1>5, <1>6, <1>7, <1>8, <1>9, <1>10, <1>11, <1>12, <1>13 DEF Next

LEMMA FilledIsJoinable == IInv /\ FillInv => SearchersCanBeJoined
<1> SUFFICES ASSUME IInv, FillInv, NEW t \in Live, pc[t] = "SEARCHING", ticketRoom[t] # 0,
                    room[ticketRoom[t]].active, Coded(ticketRoom[t])
             PROVE  room[ticketRoom[t]].open \/ room[ticketRoom[t]].count = room[ticketRoom[t]].max
  BY DEF SearchersCanBeJoined
<1>1. ticketRoom[t] \in Rooms /\ Group(room[ticketRoom[t]])
  BY DEF IInv, TicketsFit, Serves, Group, Coded
<1>2. ~ Given(ticketRoom[t])
  BY <1>1 DEF FillInv
<1> QED BY <1>1, <1>2 DEF FillInv

(* A searcher of a coded pool is never left in a room that is closed and   *)
(* not full, where nobody could join him, as long as every search polls    *)
(* before a result of its room has been shown, and clients neither join a  *)
(* coded room by name nor write its control document.                      *)
THEOREM JoinableTheorem ==
    ASSUME NoCodedJoins, NoCodedControl, PromptPolls
    PROVE  Spec => []SearchersCanBeJoined
<1>1. Init => ShutInv /\ FillInv
  BY DEF Init, ShutInv, FillInv, Rooms, Given
<1>2. IInv /\ ShutInv /\ FillInv /\ [Next]_vars => ShutInv' /\ FillInv'
  BY NextShuts, NextFills
<1> QED BY Inductive, FilledIsJoinable, <1>1, <1>2, PTL DEF Spec
=============================================================================
