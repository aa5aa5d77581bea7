----------------------------- MODULE PagedReads -----------------------------
(***************************************************************************)
(* What a player sees of rooms, of the user sessions of his room and of    *)
(* its documents (src/session_service.go, src/gamesync_reads.go), and the  *)
(* long answers he walks through page by page while the rooms change.      *)
(*                                                                         *)
(* A read is one critical section; the pages of a walk are separate calls  *)
(* with nothing kept on the server between them.  How rooms change is      *)
(* Matchmaking's, which checks that the participant count is the number of *)
(* user sessions; here they change as far as the answers depend on it.     *)
(***************************************************************************)
EXTENDS SessionMessages, FiniteSets

CONSTANTS
    Locked,          (* rooms made with a password                         *)
    Places, Stars,   (* room -> its maximum, its difficulty (0: none)      *)
    JoinRequests,    (* JoinGameSession requests the game makes            *)
    Queries,         (* QueryGameSessions requests the game makes          *)
    ListSizes,       (* page sizes of the other two                        *)
    DocumentName,    (* documents of one collection of a room              *)
    FirstRooms, FirstDocuments,  (* what there was before the walk: rooms  *)
                     (* with their hosts, documents                        *)
    MaxChanges       (* bound: changes of the rooms in a behaviour         *)

ASSUME PagedAssumption ==
    /\ Locked \subseteq RoomName /\ JoinRequests \subseteq JoinGameSessionRequest
    /\ Queries \subseteq QueryGameSessionsRequest
    /\ Places \in [RoomName -> Nat] /\ Stars \in [RoomName -> Nat]
    /\ FirstRooms \in [DOMAIN FirstRooms -> UserSession] /\ DOMAIN FirstRooms \subseteq RoomName
    /\ FirstDocuments \subseteq DocumentName
    /\ IsFiniteSet(DOMAIN FirstRooms) /\ IsFiniteSet(FirstDocuments)
    (* Requests with a negative size are refused. *)
    /\ ListSizes \subseteq Nat /\ \A q \in Queries : q.size \in Nat
    /\ DocumentName \subseteq Nat \ {0} /\ MaxChanges \in Nat

(* Of the Gamesync service: a page of the names in one collection. *)
ListDocumentsRequest == [size : Int, token : Nat]
ListDocumentsResponse == [documents : Seq(DocumentName), next : Nat]

VARIABLES
    sessions,        (* registry.sessions: name -> GameSession             *)
    documents,       (* g.documents of one room, in one collection         *)
    walk,            (* the walk of a client, see Walk                     *)
    changes          (* bound: changes so far                              *)

pagedVars == <<sessions, documents, walk, changes>>

(* A client asks for page after page: what, as whom, with which token.     *)
(* seen is what he was shown, stayed what matched from the first page on.  *)
Idle == [of |-> "nothing"]
Walk ==
    [of : {"rooms"}, by : Person, query : Queries, token : Nat,
     seen : Seq(RoomName), stayed : SUBSET RoomName, done : BOOLEAN]
    \cup [of : {"users"}, by : Person, query : ListUserSessionsRequest, token : Nat,
          seen : Seq(SeatName), stayed : SUBSET SeatName, done : BOOLEAN]
    \cup [of : {"documents"}, by : Person, query : ListDocumentsRequest, token : Nat,
          seen : Seq(DocumentName), stayed : SUBSET DocumentName, done : BOOLEAN]

-----------------------------------------------------------------------------
(* Pages *)

(* Mutant: the token names the first room left out. *)
PageFromNext(names, token, limit) ==
    LET after == {n \in names : n > token}
        shown == {n \in after : Cardinality({m \in after : m < n}) < limit}
    IN  [names |-> shown,
         next |-> IF shown = after THEN 0 ELSE CHOOSE n \in after \ shown : \A m \in after \ shown : n <= m]

(* The first names past the token, in order; the token of the next page    *)
(* is the last name shown, and 0 ("") when nothing was left out.           *)
Page(names, token, limit) ==
    LET after == {n \in names : n > token}
        shown == {n \in after : Cardinality({m \in after : m < n}) < limit}
    IN  [names |-> shown,
         next |-> IF shown = after THEN 0 ELSE CHOOSE n \in shown : \A m \in shown : m <= n]

Sorted(S) == [i \in 1..Cardinality(S) |-> CHOOSE n \in S : Cardinality({m \in S : m < n}) = i - 1]

(* QueryGameSessions and ListDocuments: 20 unless asked, at most 100.      *)
Limit(size) == IF size = 0 THEN 20 ELSE IF size > 100 THEN 100 ELSE size
(* ListUserSessions: 100 unless fewer are asked for. *)
ListLimit(size) == IF size = 0 \/ size > 100 THEN 100 ELSE size

-----------------------------------------------------------------------------
(* Rooms as a caller sees them *)

(* sessionHasUID; departed members are removed, so all are ACTIVE. *)
HasMember(s, u) == \E x \in s.users : x.user = u

(* roomVisible *)
RoomVisible(s, u) == s.state = "ACTIVE" /\ (s.public \/ HasMember(s, u))

(* safeSessionView *)
SafeView(s, view) ==
    [s EXCEPT !.password = "", !.users = IF view = "BASIC" THEN {} ELSE @]

(* GetGameSession; Absent is NotFound.  BatchGetGameSessions makes these   *)
(* calls one after another and fails with the first that fails.            *)
GetGameSession(u, r) ==
    IF r.name \in DOMAIN sessions /\ RoomVisible(sessions[r.name], u)
    THEN SafeView(sessions[r.name], r.view) ELSE Absent

(* The conditions of QueryGameSessions.  A raid search gives the highest   *)
(* difficulty the player has unlocked, others the one they want; a room    *)
(* without a difficulty (0) is in neither.                                 *)
Difficult(s, q) ==
    \/ q.difficulty = Absent
    \/ q.config = "RaidPublicSearch" /\ s.difficulty \in 1..q.difficulty
    \/ q.config # "RaidPublicSearch" /\ s.difficulty = q.difficulty

Matches(u, q, s) ==
    /\ q.config = "RaidPublicSearch" => s.name \in Raids
    /\ RoomVisible(s, u) /\ s.can
    /\ s.max - Cardinality(s.users) >= q.vacancy
    /\ Cardinality(s.users) >= q.participants
    /\ Difficult(s, q)
    /\ q.users # {} => \E v \in q.users : HasMember(s, v)

Matching(u, q) == {n \in DOMAIN sessions : Matches(u, q, sessions[n])}

QueryGameSessions(u, q) ==
    LET page == Page(Matching(u, q), q.token, Limit(q.size))
        names == Sorted(page.names)
    IN  [sessions |-> [i \in DOMAIN names |-> SafeView(sessions[names[i]], q.view)],
         next |-> page.next]

(* matchedForCaller: the caller's own user sessions, with a token for      *)
(* those he asks it for.                                                   *)
MatchedForCaller(s, u, include) ==
    {[user |-> u, session |-> x.name, token |-> u \in include] :
        x \in {y \in s.users : y.user = u}}

(* IssueMatchmakingIdToken, for a member and for nobody else. *)
IssueMatchmakingIdToken(u, r) ==
    IF r.users \subseteq {u} /\ r.session \in DOMAIN sessions /\ HasMember(sessions[r.session], u)
    THEN [session |-> SafeView(sessions[r.session], "FULL"),
          matched |-> MatchedForCaller(sessions[r.session], u, r.tokens)]
    ELSE Absent

MayList(u, n) == n \in DOMAIN sessions /\ HasMember(sessions[n], u)
SeatNames(n) == {x.name : x \in sessions[n].users}

(* ListUserSessions, for a member. *)
ListUserSessions(u, r) ==
    LET page == Page(SeatNames(r.parent), r.token, ListLimit(r.size))
        names == Sorted(page.names)
    IN  [users |-> [i \in DOMAIN names |->
                      CHOOSE x \in sessions[r.parent].users : x.name = names[i]],
         next |-> page.next]

(* GetUserSession looks through one full page. *)
GetUserSession(u, r) ==
    LET first == Page(SeatNames(r.parent), 0, ListLimit(0)).names
    IN  IF MayList(u, r.parent) /\ r.name \in first
        THEN CHOOSE x \in sessions[r.parent].users : x.name = r.name
        ELSE Absent

(* ListDocuments: the documents of one collection of the caller's room. *)
ListDocuments(r) ==
    LET page == Page(documents, r.token, Limit(r.size))
    IN  [documents |-> Sorted(page.names), next |-> page.next]

-----------------------------------------------------------------------------
(* How rooms change *)

(* A member who joins again keeps his user session. *)
Joined(s, u, x, team) ==
    IF HasMember(s, u) THEN s
    ELSE [s EXCEPT !.users = @ \cup {[name |-> x, user |-> u, team |-> team]}]

NewRoom(n, host) ==
    [name |-> n, users |-> {host}, max |-> Places[n], can |-> TRUE, public |-> TRUE,
     state |-> "ACTIVE", password |-> IF n \in Locked THEN "secret" ELSE "", difficulty |-> Stars[n]]

MakeRoom(n, host) ==
    /\ n \notin DOMAIN sessions
    /\ sessions' = [m \in DOMAIN sessions \cup {n} |->
          IF m = n THEN NewRoom(n, host) ELSE sessions[m]]
    /\ UNCHANGED documents

(* validateCallerDefinitions: one definition, of the caller. *)
OwnDefinition(u, r) == Len(r.definitions) = 1 /\ r.definitions[1].user \in {Absent, u}

(* JoinGameSession: the room is active, and for others than its members    *)
(* open and not full, with its password; the answer is that of             *)
(* IssueMatchmakingIdToken.                                                *)
JoinGameSession(u, r, x) ==
    /\ OwnDefinition(u, r)
    /\ r.name \in DOMAIN sessions /\ sessions[r.name].state = "ACTIVE"
    /\ LET s == sessions[r.name]
       IN  HasMember(s, u) \/ (s.password \in {"", r.password}
                                  /\ s.can /\ Cardinality(s.users) < s.max)
    /\ x \notin SeatNames(r.name)
    /\ sessions' = [sessions EXCEPT ![r.name] = Joined(@, u, x, r.definitions[1].team)]
    /\ UNCHANGED documents

(* The room ends with its last member, a public raid with its host.        *)
EndsRoom(n, x) == sessions[n].users = {x} \/ (n \in Raids /\ x.team = "owner")

(* depart of the registry: the entry stays, with the members still in it.  *)
Depart(n, x) ==
    /\ n \in DOMAIN sessions /\ x \in sessions[n].users
    /\ sessions' = [sessions EXCEPT ![n].users = @ \ {x},
                      ![n].can = @ /\ ~ EndsRoom(n, x),
                      ![n].state = IF EndsRoom(n, x) THEN "TERMINATED" ELSE @]
    /\ UNCHANGED documents

(* updateRoomControl: the host opens, closes, shows or hides the room. *)
ControlRoom(n, can, public) ==
    /\ n \in DOMAIN sessions /\ sessions[n].state = "ACTIVE"
    /\ sessions' = [sessions EXCEPT ![n].can = can, ![n].public = public]
    /\ UNCHANGED documents

(* WriteDocuments creates or deletes a document of the collection. *)
Commit(d) ==
    /\ documents' = IF d \in documents THEN documents \ {d} ELSE documents \cup {d}
    /\ UNCHANGED sessions

Changes ==
    \/ \E n \in RoomName, host \in UserSession : MakeRoom(n, host)
    \/ \E u \in Person, x \in SeatName, r \in JoinRequests : JoinGameSession(u, r, x)
    \/ \E n \in DOMAIN sessions : \E x \in sessions[n].users : Depart(n, x)
    \/ \E n \in RoomName, can, public \in BOOLEAN : ControlRoom(n, can, public)
    \/ \E d \in DocumentName : Commit(d)

-----------------------------------------------------------------------------
(* Walks *)

(* What the walk lists, in the current state. *)
Listed(w) ==
    CASE w.of = "rooms" -> Matching(w.by, w.query)
      [] w.of = "users" -> SeatNames(w.query.parent)
      [] w.of = "documents" -> documents
      [] OTHER -> {}

(* The next page; refused when the caller has left the room. *)
Answer(w) ==
    CASE w.of = "rooms" ->
           LET a == QueryGameSessions(w.by, [w.query EXCEPT !.token = w.token])
           IN  [names |-> [i \in DOMAIN a.sessions |-> a.sessions[i].name], next |-> a.next]
      [] w.of = "users" ->
           LET a == ListUserSessions(w.by, [w.query EXCEPT !.token = w.token])
           IN  [names |-> [i \in DOMAIN a.users |-> a.users[i].name], next |-> a.next]
      [] OTHER ->
           LET a == ListDocuments([w.query EXCEPT !.token = w.token])
           IN  [names |-> a.documents, next |-> a.next]

StartWalk(of, u, q) ==
    /\ walk = Idle
    /\ walk' = [of |-> of, by |-> u, query |-> q, token |-> 0, seen |-> <<>>,
                stayed |-> Listed([of |-> of, by |-> u, query |-> q]), done |-> FALSE]
    /\ UNCHANGED <<sessions, documents, changes>>

NextPage ==
    /\ walk # Idle /\ ~ walk.done
    /\ walk.of = "users" => MayList(walk.by, walk.query.parent)
    /\ LET a == Answer(walk)
       IN  walk' = [walk EXCEPT !.seen = @ \o a.names, !.token = a.next, !.done = a.next = 0]
    /\ UNCHANGED <<sessions, documents, changes>>

(* Something changes under the walk. *)
Change ==
    /\ changes < MaxChanges /\ changes' = changes + 1
    /\ Changes
    /\ \E w \in {walk} :
          walk' = IF w = Idle \/ w.done THEN w ELSE [w EXCEPT !.stayed = @ \cap Listed(w)']

PagedInit ==
    /\ sessions = [n \in DOMAIN FirstRooms |-> NewRoom(n, FirstRooms[n])]
    /\ documents = FirstDocuments /\ walk = Idle /\ changes = 0

PagedNext ==
    \/ Change
    \/ \E u \in Person, q \in Queries : StartWalk("rooms", u, q)
    \/ \E u \in Person, n \in DOMAIN sessions, k \in ListSizes :
          MayList(u, n) /\ StartWalk("users", u, [parent |-> n, size |-> k, token |-> 0])
    \/ \E u \in Person, k \in ListSizes : StartWalk("documents", u, [size |-> k, token |-> 0])
    \/ NextPage

PagedSpec == PagedInit /\ [][PagedNext]_pagedVars

-----------------------------------------------------------------------------
(* Rooms, walks and the answers to everybody are messages of their types.  *)
PagedTypeOK ==
    /\ \A n \in DOMAIN sessions : n \in RoomName /\ sessions[n] \in GameSession
    /\ documents \subseteq DocumentName
    /\ walk = Idle \/ walk \in Walk
    /\ changes \in 0..MaxChanges
    /\ \A k \in ListSizes : ListDocuments([size |-> k, token |-> 0]) \in ListDocumentsResponse
    /\ \A u \in Person :
          /\ \A q \in Queries : QueryGameSessions(u, q) \in QueryGameSessionsResponse
          /\ \A n \in DOMAIN sessions :
                /\ GetGameSession(u, [name |-> n, view |-> "FULL"]) \in GameSession \cup {Absent}
                /\ IssueMatchmakingIdToken(u, [session |-> n, users |-> {u}, tokens |-> {u}])
                      \in IssueMatchmakingIdTokenResponse \cup {Absent}
                /\ MayList(u, n) =>
                      ListUserSessions(u, [parent |-> n, size |-> 0, token |-> 0])
                        \in ListUserSessionsResponse
                /\ \A x \in SeatName :
                      GetUserSession(u, [parent |-> n, name |-> x]) \in UserSession \cup {Absent}

(* A walk through all pages shows everything that matched from the first   *)
(* call to the last, and nothing twice, whatever comes and goes between    *)
(* two pages (the server keeps no cursor, only the name in the token).     *)
WalksMissNothing ==
    walk # Idle =>
        /\ \A i, j \in DOMAIN walk.seen : walk.seen[i] = walk.seen[j] => i = j
        /\ walk.done => \A n \in walk.stayed : \E i \in DOMAIN walk.seen : walk.seen[i] = n
=============================================================================
