-------------------------- MODULE SessionMessages --------------------------
(***************************************************************************)
(* The messages of the game session service that reads rooms, as           *)
(* src/proto/matchmaking/v1 defines them and the server tells them apart.  *)
(*                                                                         *)
(* Names are parsed: a room and a user session are the last segments of    *)
(* their names, numbers because answers are ordered by name; "current" is  *)
(* the caller.  Attributes, latency data and times are left out.           *)
(***************************************************************************)
EXTENDS Integers, Sequences

CONSTANTS
    Person,          (* authenticated NPLN users                           *)
    RoomName,        (* names of game sessions                             *)
    SeatName,        (* names of user sessions                             *)
    Raids,           (* registry.configs: the rooms of RaidPublic          *)
    RoomCode,        (* six characters a Union Circle code is made of      *)
    Absent           (* a nil message, "" for a name                       *)

ASSUME SessionNameAssumption ==
    /\ RoomName \subseteq Nat \ {0} /\ SeatName \subseteq Nat \ {0} /\ Raids \subseteq RoomName
    /\ Absent \notin Person \cup RoomCode \cup Nat

SessionState == {"ACTIVE", "TERMINATED"}
GameSessionView == {"UNSPECIFIED", "BASIC", "FULL"}

(* What the client says of its player: all but a raid's host are alike. *)
TeamName == {"owner", ""}

UserSession == [name : SeatName, user : Person, team : TeamName]
UserDefinition == [user : Person \cup {Absent}, team : TeamName]
MatchedUserSession == [user : Person, session : SeatName, token : BOOLEAN]

GameSession ==
    [name : RoomName, users : SUBSET UserSession, max : Nat, can : BOOLEAN, public : BOOLEAN,
     state : SessionState, password : {"", "secret"}, difficulty : Nat]

GameSessionShortAlias == [name : RoomCode, session : RoomName, expires : Nat]

GetGameSessionRequest == [name : RoomName, view : GameSessionView]

(* The search of the raid portal, that of Union Circles, or neither; the   *)
(* one property the game asks for is an integer.                           *)
QueryGameSessionsRequest ==
    [config : {"", "RaidPublicSearch", "TeamCircle"}, vacancy : Int, participants : Int,
     difficulty : (Nat \ {0}) \cup {Absent}, users : SUBSET Person, size : Int, token : Nat,
     view : GameSessionView]
QueryGameSessionsResponse == [sessions : Seq(GameSession), next : Nat]

(* Exactly one definition, of the caller himself. *)
JoinGameSessionRequest ==
    [name : RoomName, definitions : Seq(UserDefinition), password : {"", "secret"},
     tokens : SUBSET Person]
JoinGameSessionResponse == [session : GameSession, matched : SUBSET MatchedUserSession]

ListUserSessionsRequest == [parent : RoomName, size : Int, token : Nat]
ListUserSessionsResponse == [users : Seq(UserSession), next : Nat]
GetUserSessionRequest == [parent : RoomName, name : SeatName]

IssueMatchmakingIdTokenRequest ==
    [session : RoomName, users : SUBSET Person, tokens : SUBSET Person]
IssueMatchmakingIdTokenResponse == [session : GameSession, matched : SUBSET MatchedUserSession]

CreateGameSessionShortAliasRequest == [session : RoomName]
GetGameSessionShortAliasRequest == [name : RoomCode]
=============================================================================
