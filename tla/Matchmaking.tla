---------------------------- MODULE Matchmaking ----------------------------
(***************************************************************************)
(* Rooms and the ways into them: matchmaking tickets and their tracking    *)
(* streams, room creation tickets (src/matchmaking.go), joining by name    *)
(* (src/session_service.go) and the registry all of them share with        *)
(* Gamesync (src/session_registry.go), from where a member departs and a   *)
(* host controls his room.                                                 *)
(*                                                                         *)
(* Every handler step holds the registry's mutex from start to end, so an  *)
(* action is one critical section; a TrackMatchmakingTicket call polls,    *)
(* sends and cleans up in separate ones.  A user session is a fresh UUID   *)
(* per admission: here a seat <<n, player>>, n counting the admissions of  *)
(* its room.  Tokens, passwords and time are abstracted; the pool of a     *)
(* ticket stands for its configuration and code word, a posting for the    *)
(* attributes of a raid, and a search asks for the postings that fit it.   *)
(***************************************************************************)
EXTENDS Integers, Sequences, FiniteSets

CONSTANTS
    Player,          (* authenticated NPLN users                           *)
    Pool,            (* publicMatchPoolKey: configuration and code word    *)
    Kind,            (* pool -> "coded", "circle" or "raid"                *)
    Capacity,        (* pool -> publicMatchCapacity                        *)
    Posting,         (* the properties a created room may have             *)
    SearchRequests,  (* what matchmaking tickets ask for: a pool and, in a *)
                     (* raid's, the postings that match the selection      *)
    CreationRequests,(* what creation tickets ask for: a pool, a maximum   *)
                     (* (0: the server's), no public room (a password, or  *)
                     (* the configuration RaidPrivate) and a posting       *)
    JoinByName,      (* pools whose rooms clients join by name             *)
    ControlRequests, (* what owners of docs/__gs/m, the room's control     *)
                     (* document, write to it: a pool and its two flags    *)
    PromptPolls,     (* does every search poll (250 ms) before another one *)
                     (* has shown its result (350 ms phases)?              *)
    MaxTickets, MaxCreations,  (* bounds: tickets of either service        *)
    MaxRooms,                  (* bound, pool -> rooms when one is added   *)
    MaxAdmissions,             (* bound: admissions per room               *)
    SearchedTogether (* bound: sets of pools used in one behaviour, each   *)
                     (* with the numbers of its tickets of either service  *)

ASSUME PoolAssumption ==
    /\ Kind \in [Pool -> {"coded", "circle", "raid"}]
    /\ Capacity \in [Pool -> Nat \ {0}]
    /\ JoinByName \subseteq Pool /\ PromptPolls \in BOOLEAN
    /\ SearchRequests \subseteq [pool : Pool, fits : SUBSET Posting]
    /\ CreationRequests \subseteq [pool : Pool, size : Int, hidden : BOOLEAN, posting : Posting]
    /\ ControlRequests \subseteq [pool : Pool, cp : BOOLEAN, ip : BOOLEAN]
ASSUME BoundAssumption ==
    /\ {MaxTickets, MaxCreations} \subseteq Nat /\ MaxAdmissions \in Nat \ {0}
    /\ MaxRooms \in [Pool -> Nat]
    /\ SearchedTogether \subseteq (SUBSET Pool) \X (0..MaxTickets) \X (0..MaxCreations)

Ticket == 1..MaxTickets        (* m.nextTicketID numbers them *)
Creation == 1..MaxCreations    (* g.nextTicketID *)

VARIABLES
    room,            (* registry: every room made, in order                *)
    poolRooms,       (* m.sessionsByPool: room numbers in order            *)
    tickets,         (* m.tickets: ticket -> [user, pool]                  *)
    ticketRoom,      (* m.ticketSessions: ticket -> room, 0 for none       *)
    pc,              (* the tracking stream of each ticket: the state it   *)
                     (* sent last, or where it stands                      *)
    offered,         (* the <<room, seat>> a stream is about to send       *)
    creations,       (* g.tickets: creation ticket -> its message          *)
    tokens,          (* <<room, seat>> whose player holds its match token  *)
    connected,       (* <<room, seat>> with a gamesync session             *)
    ruler,           (* room -> seat that owns docs/__gs/m, if it exists   *)
    reopening        (* rooms a departed member's expiry is still checking *)

searching == <<tickets, ticketRoom, pc, offered>>
gamesync  == <<connected, ruler, reopening>>
vars == <<room, poolRooms, searching, creations, tokens, gamesync>>

NoSeat == <<0, "none">>
Departed == <<0, "departed">>
NoOffer == <<0, NoSeat>>
Seat == (1..MaxAdmissions) \X Player
Rooms == DOMAIN room
Coded(s) == Kind[room[s].pool] = "coded"
Raid(s)  == Kind[room[s].pool] = "raid"
Live == DOMAIN tickets
Fresh(s) == ruler[s] = NoSeat     (* nobody has connected to Gamesync *)
Larger(a, b) == IF a < b THEN b ELSE a

(* publicMatchHasUID and sessionHasUID *)
Holds(seats, p) == \E x \in seats : x[2] = p
SeatOf(seats, p) == CHOOSE x \in seats : x[2] = p
FirstSeat(seats) == CHOOSE x \in seats : \A y \in seats : x[1] <= y[1]

(* A public raid room is always made by a creation ticket, whose player    *)
(* sits in the first seat as team "owner".                                 *)
Owner(x) == x[1] = 1

(* The messages of tickets: of one user, for one pool.  The stream of a    *)
(* search sends its state, the server keeps that of a creation.            *)
TicketState == {"SEARCHING", "PLACING", "SUCCEEDED", "FAILED"}
MatchmakingTicket == [user : Player, pool : Pool, fits : SUBSET Posting]
CreationState == {"PENDING", "SUCCEEDED"}
GameSessionCreationTicket ==
    [user : Player, pool : Pool, size : Int, hidden : BOOLEAN, posting : Posting,
     state : CreationState, room : Nat]

RoomState ==
    [pool : Pool, users : SUBSET Seat, pooled : BOOLEAN, members : SUBSET Seat,
     count : Nat, max : Nat, open : BOOLEAN, public : BOOLEAN, active : BOOLEAN,
     admissions : 0..MaxAdmissions]

TypeOK ==
    /\ room \in Seq(RoomState) /\ \A s \in DOMAIN room : s <= MaxRooms[room[s].pool]
    /\ poolRooms \in [Pool -> Seq(Rooms)]
    /\ Live \subseteq Ticket
    /\ tickets \in [Live -> MatchmakingTicket]
    /\ ticketRoom \in [Ticket -> Rooms \cup {0}]
    /\ pc \in [Ticket -> {"idle", "entered", "returning", "ended"} \cup TicketState]
    /\ offered \in [Ticket -> (Rooms \X Seat) \cup {NoOffer}]
    /\ DOMAIN creations \subseteq Creation
    /\ creations \in [DOMAIN creations -> GameSessionCreationTicket]
    /\ \A c \in DOMAIN creations :
          creations[c].room \in Rooms <=> creations[c].state = "SUCCEEDED"
    /\ tokens \subseteq Rooms \X Seat /\ connected \subseteq tokens
    /\ ruler \in [Rooms -> Seat \cup {NoSeat, Departed}]
    /\ reopening \subseteq Rooms

Init ==
    /\ room = <<>>
    /\ poolRooms = [pl \in Pool |-> <<>>]
    /\ tickets = [t \in {} |-> NoSeat]
    /\ ticketRoom = [t \in Ticket |-> 0]
    /\ pc = [t \in Ticket |-> "idle"]
    /\ offered = [t \in Ticket |-> NoOffer]
    /\ creations = [c \in {} |-> NoSeat]
    /\ tokens = {} /\ connected = {} /\ ruler = <<>> /\ reopening = {}

-----------------------------------------------------------------------------
(* Rooms *)

NewRoom(pl) ==
    [pool |-> pl, users |-> {}, pooled |-> TRUE, members |-> {}, count |-> 0,
     max |-> Capacity[pl], open |-> TRUE, public |-> TRUE, active |-> TRUE, admissions |-> 0]

(* Mutant: a repeated user is admitted once more. *)
AdmitRepeated(r, p) ==
    LET m == r.members \cup {<<r.admissions + 1, p>>} IN
    [r EXCEPT !.members = m, !.users = @ \cup {<<r.admissions + 1, p>>},
              !.admissions = @ + 1, !.count = Cardinality(m),
              !.max = Larger(@, Cardinality(m))]

(* addPublicMatchMembers: a repeated user keeps the seat he has. *)
Admit(r, p) ==
    IF Holds(r.members, p) THEN r
    ELSE LET m == r.members \cup {<<r.admissions + 1, p>>} IN
         [r EXCEPT !.members = m, !.users = @ \cup {<<r.admissions + 1, p>>},
                   !.admissions = @ + 1, !.count = Cardinality(m),
                   !.max = Larger(@, Cardinality(m))]

(* The random raid search makes a created room a pooled one. *)
AsPooled(r) == IF r.pooled THEN r ELSE [r EXCEPT !.pooled = TRUE, !.members = r.users]

Vacant(s) == room[s].count + 1 <= room[s].max
Joinable(s) == room[s].active /\ room[s].open

(* raidMatchesSelection: the room's properties fit the ticket's attributes. *)
MatchesSelection(t, s) ==
    \E c \in DOMAIN creations : creations[c].room = s /\ creations[c].posting \in tickets[t].fits

(* Raid search: public rooms of other players with their host.             *)
RaidRooms(t) ==
    {s \in Rooms : /\ Raid(s) /\ room[s].public /\ Joinable(s) /\ Vacant(s)
                   /\ ~ Holds(room[s].users, tickets[t].user)
                   /\ \E x \in room[s].users : Owner(x)
                   /\ MatchesSelection(t, s)}

First(S) == CHOOSE i \in S : \A j \in S : i <= j
Mine(pl, p) ==
    {i \in DOMAIN poolRooms[pl] :
        Joinable(poolRooms[pl][i]) /\ Holds(room[poolRooms[pl][i]].members, p)}

(* Mutant: any room with a vacancy, also a terminated one. *)
FreeAnyVacant(pl) == {i \in DOMAIN poolRooms[pl] : Vacant(poolRooms[pl][i])}

(* Mutant: the last seat is not counted as a vacancy. *)
FreeButLast(pl) ==
    {i \in DOMAIN poolRooms[pl] :
        LET s == poolRooms[pl][i] IN Joinable(s) /\ room[s].count + 1 < room[s].max}

Free(pl) ==
    {i \in DOMAIN poolRooms[pl] : Joinable(poolRooms[pl][i]) /\ Vacant(poolRooms[pl][i])}

(* Mutant: other players' rooms are not searched. *)
ChoiceOwnOnly(pl, p) ==
    IF Mine(pl, p) # {} THEN poolRooms[pl][First(Mine(pl, p))] ELSE 0

(* selectPublicMatchSessionLocked for the other pools: the caller's own    *)
(* room, else the first with a vacancy, else (0) a new one.                *)
Choice(pl, p) ==
    IF Mine(pl, p) # {} THEN poolRooms[pl][First(Mine(pl, p))]
    ELSE IF Free(pl) # {} THEN poolRooms[pl][First(Free(pl))]
    ELSE 0

-----------------------------------------------------------------------------
(* Tickets *)

(* Every ticket counts, the pools of those still there are seen.           *)
WithinBounds(t, n, pl) ==
    LET used == {tickets[u].pool : u \in Live} \cup {creations[c].pool : c \in DOMAIN creations}
                    \cup {room[s].pool : s \in Rooms} \cup {pl}
    IN  \E b \in SearchedTogether : used \subseteq b[1] /\ t <= b[2] /\ n <= b[3]

CreateTicket(t, p, q) ==
    /\ pc[t] = "idle" /\ \A u \in 1..(t - 1) : pc[u] # "idle"
    /\ WithinBounds(t, Cardinality(DOMAIN creations), q.pool)
    /\ tickets' = [x \in Live \cup {t} |->
                     IF x = t THEN [user |-> p, pool |-> q.pool, fits |-> q.fits] ELSE tickets[x]]
    /\ pc' = [pc EXCEPT ![t] = "entered"]
    /\ UNCHANGED <<room, poolRooms, ticketRoom, offered, creations, tokens, gamesync>>

Polling(t) == pc[t] \in {"entered", "SEARCHING"}

(* Mutant: a full coded room is not closed when its group is complete. *)
ClosedNever(r) == r

(* A coded room closes when its group is complete. *)
Closed(r) == IF Kind[r.pool] = "coded" THEN [r EXCEPT !.open = FALSE] ELSE r

(* Mutant: a coded search succeeds as soon as it has a seat. *)
StillSearchingNever(r) == FALSE

StillSearching(r) == Kind[r.pool] = "coded" /\ r.count < Capacity[r.pool]

(* The end of completeMatchmakingTicket: t has a seat in s, now in state r. *)
Settle(t, s, r) ==
    IF StillSearching(r)
    THEN /\ room' = IF s \in Rooms THEN [room EXCEPT ![s] = r] ELSE Append(room, r)
         /\ pc' = [pc EXCEPT ![t] = "SEARCHING"]
         /\ UNCHANGED offered
    ELSE /\ room' = IF s \in Rooms THEN [room EXCEPT ![s] = Closed(r)] ELSE Append(room, Closed(r))
         /\ pc' = [pc EXCEPT ![t] = "PLACING"]
         /\ offered' = [offered EXCEPT ![t] = <<s, SeatOf(r.members, tickets[t].user)>>]

(* The ticket is gone, or its seat or room is: FAILED, or a silent end. *)
PollFailed(t) ==
    /\ Polling(t)
    /\ t \in Live => /\ ticketRoom[t] # 0
                     /\ \/ ~ Holds(room[ticketRoom[t]].members, tickets[t].user)
                        \/ ~ room[ticketRoom[t]].active
    /\ pc' = [pc EXCEPT ![t] = IF t \in Live THEN "FAILED" ELSE "returning"]
    /\ UNCHANGED <<room, poolRooms, tickets, ticketRoom, offered, creations, tokens, gamesync>>

PollSeated(t) ==
    /\ Polling(t) /\ t \in Live /\ ticketRoom[t] # 0
    /\ Holds(room[ticketRoom[t]].members, tickets[t].user)
    /\ room[ticketRoom[t]].active
    /\ Settle(t, ticketRoom[t], room[ticketRoom[t]])
    /\ UNCHANGED <<poolRooms, tickets, ticketRoom, creations, tokens, gamesync>>

PollUnseated(t) ==
    LET p == tickets[t].user  pl == tickets[t].pool IN
    /\ Polling(t) /\ t \in Live /\ ticketRoom[t] = 0
    /\ \/ /\ Kind[pl] = "raid" /\ RaidRooms(t) = {}
          /\ pc' = [pc EXCEPT ![t] = "SEARCHING"]
          /\ UNCHANGED <<room, poolRooms, ticketRoom, offered, ruler>>
       \/ /\ Kind[pl] = "raid"
          /\ \E s \in RaidRooms(t) :
                /\ room[s].admissions < MaxAdmissions
                /\ Settle(t, s, Admit(AsPooled(room[s]), p))
                /\ ticketRoom' = [ticketRoom EXCEPT ![t] = s]
          /\ UNCHANGED <<poolRooms, ruler>>
       \/ /\ Kind[pl] # "raid" /\ Choice(pl, p) # 0
          /\ room[Choice(pl, p)].admissions < MaxAdmissions
          /\ Settle(t, Choice(pl, p), Admit(room[Choice(pl, p)], p))
          /\ ticketRoom' = [ticketRoom EXCEPT ![t] = Choice(pl, p)]
          /\ UNCHANGED <<poolRooms, ruler>>
       \/ /\ Kind[pl] # "raid" /\ Choice(pl, p) = 0 /\ Len(room) < MaxRooms[pl]
          /\ Settle(t, Len(room) + 1, Admit(NewRoom(pl), p))
          /\ ticketRoom' = [ticketRoom EXCEPT ![t] = Len(room) + 1]
          /\ poolRooms' = [poolRooms EXCEPT ![pl] = Append(@, Len(room) + 1)]
          /\ ruler' = Append(ruler, NoSeat)
    /\ UNCHANGED <<tickets, creations, tokens, connected, reopening>>

Poll(t) == PollFailed(t) \/ PollSeated(t) \/ PollUnseated(t)

(* The phases are over and the result is sent, with the match token that   *)
(* was current when the ticket was completed.                              *)
SendResult(t) ==
    /\ pc[t] = "PLACING"
    /\ PromptPolls => \A u \in Live : ticketRoom[u] = offered[t][1] => pc[u] # "SEARCHING"
    /\ tokens' = tokens \cup {offered[t]}
    /\ pc' = [pc EXCEPT ![t] = "SUCCEEDED"]
    /\ UNCHANGED <<room, poolRooms, tickets, ticketRoom, offered, creations, gamesync>>

(* The room's seats are those left; an empty room is gone for good. *)
Without(r, seats) ==
    LET left == r.users \ seats IN
    [r EXCEPT !.users = left, !.members = @ \ seats, !.count = Cardinality(left),
              !.open = @ /\ left # {}, !.active = @ /\ left # {}]

(* Mutant: also a complete group is broken up. *)
PendingAlways(t) ==
    t \in Live /\ Kind[tickets[t].pool] = "coded" /\ ticketRoom[t] # 0

(* The condition of cancelPendingCodedMatchLocked. *)
Pending(t) ==
    /\ t \in Live /\ Kind[tickets[t].pool] = "coded" /\ ticketRoom[t] # 0
    /\ room[ticketRoom[t]].count < Capacity[tickets[t].pool]

SeatsToRelease(t) ==
    {x \in room[ticketRoom[t]].users \cup room[ticketRoom[t]].members : x[2] = tickets[t].user}

WithoutTicket(t) == [x \in Live \ {t} |-> tickets[x]]

(* cancelPendingCodedMatchLocked, when it does something: the seat, the    *)
(* ticket and its room go.                                                 *)
CancelPending(t) ==
    /\ room' = [room EXCEPT ![ticketRoom[t]] = Without(@, SeatsToRelease(t))]
    /\ ticketRoom' = [ticketRoom EXCEPT ![t] = 0]
    /\ tickets' = WithoutTicket(t)

(* The deferred clean-up of a tracking stream, whatever ended it: its      *)
(* context is done (the stream gave up while searching or placing) or it   *)
(* returned.                                                               *)
EndTracking(t) ==
    /\ pc[t] \in TicketState \cup {"returning"}
    /\ pc' = [pc EXCEPT ![t] = "ended"]
    /\ \/ Pending(t) /\ CancelPending(t)
       \/ /\ ~ Pending(t)
          /\ tickets' = IF t \in Live /\ Kind[tickets[t].pool] = "raid" /\ ticketRoom[t] = 0
                        THEN WithoutTicket(t) ELSE tickets
          /\ UNCHANGED <<room, ticketRoom>>
    /\ UNCHANGED <<poolRooms, offered, creations, tokens, gamesync>>

(* CancelMatchmakingTicket: the ticket goes even when its group is full. *)
Cancel(t) ==
    /\ t \in Live
    /\ \/ Pending(t) /\ CancelPending(t)
       \/ /\ ~ Pending(t)
          /\ tickets' = WithoutTicket(t)
          /\ UNCHANGED <<room, ticketRoom>>
    /\ UNCHANGED <<poolRooms, pc, offered, creations, tokens, gamesync>>

-----------------------------------------------------------------------------
(* Created rooms, and joining by name *)

CreateCreation(c, p, q) ==
    /\ c = Cardinality(DOMAIN creations) + 1
    /\ WithinBounds(Cardinality({t \in Ticket : pc[t] # "idle"}), c, q.pool)
    /\ creations' = [x \in DOMAIN creations \cup {c} |->
                       IF x = c THEN [user |-> p, pool |-> q.pool, size |-> q.size,
                                      hidden |-> q.hidden, posting |-> q.posting,
                                      state |-> "PENDING", room |-> 0]
                       ELSE creations[x]]
    /\ UNCHANGED <<room, poolRooms, searching, tokens, gamesync>>

Uncreated(c) == creations[c].state = "PENDING"

LargestRoom == 64

(* The size of the room asked for, or that of its configuration.           *)
Granted(c) ==
    IF creations[c].size = 0 THEN Capacity[creations[c].pool] ELSE creations[c].size

(* completeGameSessionCreationTicket, once: the room with its first seat   *)
(* (the one player such a ticket may name).  With a size out of range it   *)
(* fails, which leaves the ticket as it was.  Tracked again it only hands  *)
(* out the token of a seat still held.                                     *)
CompleteCreation(c) ==
    LET p == creations[c].user  pl == creations[c].pool  s == creations[c].room IN
    /\ c \in DOMAIN creations
    /\ \/ /\ Uncreated(c) /\ Granted(c) \in 1..LargestRoom /\ Len(room) < MaxRooms[pl]
          /\ room' = Append(room,
                [NewRoom(pl) EXCEPT !.users = {<<1, p>>}, !.pooled = FALSE,
                                    !.count = 1, !.admissions = 1,
                                    !.max = Granted(c), !.public = ~ creations[c].hidden])
          /\ creations' = [creations EXCEPT ![c].state = "SUCCEEDED", ![c].room = Len(room) + 1]
          /\ ruler' = Append(ruler, NoSeat)
          /\ tokens' = tokens \cup {<<Len(room) + 1, <<1, p>>>>}
       \/ /\ ~ Uncreated(c) /\ Holds(room[s].users, p)
          /\ tokens' = tokens \cup {<<s, SeatOf(room[s].users, p)>>}
          /\ UNCHANGED <<room, creations, ruler>>
    /\ UNCHANGED <<poolRooms, searching, connected, reopening>>

(* One more player in a room, listed in its pool or not. *)
Joined(r, p) ==
    IF r.pooled THEN Admit(r, p)
    ELSE [r EXCEPT !.users = @ \cup {<<r.admissions + 1, p>>},
                   !.count = Cardinality(r.users) + 1, !.admissions = @ + 1]

(* JoinGameSession *)
Join(s, p) ==
    /\ room[s].active /\ room[s].pool \in JoinByName
    /\ \/ /\ ~ Holds(room[s].users, p)
          /\ room[s].open /\ room[s].count < room[s].max
          /\ room[s].admissions < MaxAdmissions
          /\ room' = [room EXCEPT ![s] = Joined(@, p)]
          /\ tokens' = tokens \cup {<<s, <<room[s].admissions + 1, p>>>>}
       \/ /\ Holds(room[s].users, p)
          /\ tokens' = tokens \cup {<<s, SeatOf(room[s].users, p)>>}
          /\ UNCHANGED room
    /\ UNCHANGED <<poolRooms, searching, creations, gamesync>>

-----------------------------------------------------------------------------
(* What Gamesync does to a room *)

(* IssueToken: the first to connect seeds docs/__gs/m, which belongs to    *)
(* the first member listed, whoever that is.                               *)
Connect(s, x) ==
    /\ <<s, x>> \in tokens \ connected /\ x \in room[s].users
    /\ connected' = connected \cup {<<s, x>>}
    /\ ruler' = [ruler EXCEPT ![s] =
          IF @ = NoSeat THEN FirstSeat(room[s].users) ELSE @]
    /\ UNCHANGED <<room, poolRooms, searching, creations, tokens, reopening>>

(* Mutant: the departure of a raid's host does not end the raid. *)
EndsWithNobody(s, x) == room[s].users = {x}

(* The room ends with its last member, a raid with its host. *)
EndsRoom(s, x) == room[s].users = {x} \/ (Raid(s) /\ Owner(x) /\ x \in room[s].users)

(* expireSession and registry.depart; the raid check comes later. *)
Depart(s, x) ==
    LET r == Without(room[s], {x}) IN
    /\ <<s, x>> \in connected
    /\ room' = [room EXCEPT ![s] =
          IF EndsRoom(s, x) \/ r.users = {} THEN [r EXCEPT !.open = FALSE, !.active = FALSE] ELSE r]
    /\ connected' = connected \ {<<s, x>>}
    /\ ruler' = [ruler EXCEPT ![s] = IF @ = x THEN Departed ELSE @]
    /\ reopening' = reopening \cup {s}
    /\ UNCHANGED <<poolRooms, searching, creations, tokens>>

HostAlone(s) ==
    /\ Raid(s) /\ room[s].active /\ ~ room[s].open
    /\ \E x \in room[s].users : room[s].users = {x} /\ Owner(x)

(* The rest of expireSession: a host left alone in a closed raid gets it   *)
(* reopened, through the control document when it exists.                  *)
Reopen(s) ==
    /\ s \in reopening
    /\ reopening' = reopening \ {s}
    /\ room' = IF HostAlone(s) /\ ruler[s] \in Seat
               THEN [room EXCEPT ![s].open = TRUE, ![s].public = TRUE] ELSE room
    /\ UNCHANGED <<poolRooms, searching, creations, tokens, connected, ruler>>

(* The owner of docs/__gs/m writes it and updateRoomControl follows.       *)
Control(s, q) ==
    /\ room[s].pool = q.pool /\ room[s].active
    /\ ruler[s] \in Seat /\ <<s, ruler[s]>> \in connected
    /\ room' = [room EXCEPT ![s].open = q.cp, ![s].public = q.ip]
    /\ UNCHANGED <<poolRooms, searching, creations, tokens, gamesync>>

Next ==
    \/ \E t \in Ticket, p \in Player, q \in SearchRequests : CreateTicket(t, p, q)
    \/ \E t \in Ticket : Poll(t) \/ SendResult(t) \/ EndTracking(t) \/ Cancel(t)
    \/ \E c \in Creation, p \in Player, q \in CreationRequests : CreateCreation(c, p, q)
    \/ \E c \in Creation : CompleteCreation(c)
    \/ \E s \in Rooms, p \in Player : Join(s, p)
    \/ \E s \in Rooms, x \in Seat : Connect(s, x) \/ Depart(s, x)
    \/ \E s \in Rooms : Reopen(s)
    \/ \E s \in Rooms, q \in ControlRequests : Control(s, q)

Spec == Init /\ [][Next]_vars

(* The loop of a tracking stream goes on while its client is there. *)
Fairness == \A t \in Ticket : WF_vars(Poll(t))
FairSpec == Spec /\ Fairness

-----------------------------------------------------------------------------
(* SAFETY *)

(* A room is one and the same for everybody who counts it: its user        *)
(* sessions, its pooled members and its participant count agree, and       *)
(* nobody sits in it twice.                                                *)
RosterAgrees ==
    \A s \in Rooms :
        /\ room[s].count = Cardinality(room[s].users)
        /\ room[s].pooled => room[s].members = room[s].users
        /\ \A x, y \in room[s].users : x[2] = y[2] => x = y

(* No order of admissions makes a room larger than what its creation       *)
(* ticket was granted or, made by a search, than its configuration allows  *)
(* (addPublicMatchMembers would raise the limit rather than refuse).       *)
NeverOverfull ==
    \A s \in Rooms :
        /\ room[s].count <= room[s].max
        /\ \A c \in DOMAIN creations : creations[c].room = s => room[s].max = Granted(c)
        /\ (\A c \in DOMAIN creations : creations[c].room # s)
              => room[s].max = Capacity[room[s].pool]

(* However its members go (cancelled search, lost connection), a room with *)
(* nobody in it is terminated: it cannot be found or joined.               *)
EmptyRoomsAreGone == \A s \in Rooms : room[s].active => room[s].users # {}

(* The four functions that seat and release players keep a room whole.     *)
RoomsAreSound == TypeOK /\ RosterAgrees /\ NeverOverfull /\ EmptyRoomsAreGone

(* A player is only told of a coded match whose group is complete.         *)
OnlyCompleteGroups ==
    [][\A t \in Ticket :
         LET s == ticketRoom'[t] IN
         pc[t] # "PLACING" /\ pc'[t] = "PLACING" /\ Kind[tickets[t].pool] = "coded"
         => /\ Cardinality({x[2] : x \in room'[s].users}) = Capacity[room'[s].pool]
            /\ tickets[t].user \in {x[2] : x \in room'[s].users}]_vars

(* Once a group was announced its room is the group's: until one of them   *)
(* connects to Gamesync nobody enters or leaves it, and after that nobody  *)
(* enters it while it is closed, and it is opened by nobody but its        *)
(* connected owner (completeMatchmakingTicket closes it; updateRoomControl *)
(* is the only way back).                                                  *)
NoStrangerEnters ==
    [][\A t \in Ticket :
         LET s == offered[t][1] IN
         offered[t] # NoOffer /\ Coded(s) =>
            /\ Fresh(s) => ~ room'[s].open /\ room'[s].users = room[s].users
            /\ ~ room[s].open => room'[s].users \subseteq room[s].users
            /\ ~ room[s].open /\ room'[s].open => <<s, ruler[s]>> \in connected]_vars

(* A terminated room is a tombstone: it is never revived or entered again. *)
TombstonesStay ==
    [][\A s \in Rooms : ~ room[s].active =>
         ~ room'[s].active /\ room'[s].users \subseteq room[s].users]_vars

(* A random raid search never makes or keeps a raid without its host.      *)
RaidsHaveHosts ==
    \A s \in Rooms : Raid(s) /\ room[s].active => \E x \in room[s].users : Owner(x)

(* Two searchers of one pool are never kept apart: at most one room of a   *)
(* coded pool whose members are all still searching (none has connected)   *)
(* can be joined.  Rooms their owners reopened may be joinable beside it.  *)
OneRoomToMeetIn ==
    \A pl \in Pool : Kind[pl] = "coded" =>
        Cardinality({i \in Free(pl) : Fresh(poolRooms[pl][i])}) <= 1

(* A room whose member is still searching can still be filled, or is full, *)
(* if no owner of a coded room writes its control document (no request of  *)
(* ControlRequests is for a coded pool).                                   *)
SearchersCanBeJoined ==
    \A t \in Live :
        LET s == ticketRoom[t] IN
        pc[t] = "SEARCHING" /\ s # 0 /\ room[s].active /\ Coded(s)
            /\ Holds(room[s].users, tickets[t].user)
        => room[s].open \/ room[s].count = room[s].max

(* A waiting coded match has no Gamesync connection yet.                   *)
ReleasedSeatsUnconnected ==
    [][\A s \in Rooms : \A x \in room[s].users \ room'[s].users :
         <<s, x>> \notin connected']_vars

(* LIVENESS *)

(* Two searchers of one pool whose streams stay open do not search on      *)
(* for ever side by side, under the same condition.                        *)
SearchersMeet ==
    \A u \in Ticket : \A t \in 1..(u - 1) :
        LET Side == /\ {t, u} \subseteq Live
                    /\ pc[t] = "SEARCHING" /\ pc[u] = "SEARCHING"
                    /\ tickets[t].pool = tickets[u].pool
                    /\ tickets[t].user # tickets[u].user
                    /\ Kind[tickets[t].pool] = "coded" /\ Capacity[tickets[t].pool] = 2
        IN  Side ~> ~ Side
=============================================================================
