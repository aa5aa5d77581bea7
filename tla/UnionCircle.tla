---------------------------- MODULE UnionCircle ----------------------------
(***************************************************************************)
(* Union Circle codes (src/session_alias.go): a player of a room asks for  *)
(* its code, others find the room by it for an hour.                       *)
(*                                                                         *)
(* A code is a hash of the room's name, so two rooms may have the same.    *)
(* Nothing cleans up: a code that ran out, or whose room has ended, is     *)
(* only forgotten when somebody asks for it.                               *)
(***************************************************************************)
EXTENDS SessionMessages, FiniteSets

CONSTANTS
    RoomCodeOf,      (* violetRoomCode: room -> code                       *)
    Hour,            (* how long a code is good                            *)
    MaxTime,         (* bound: the clock of a behaviour                    *)
    MaxCircles       (* bound: the rooms of a behaviour                    *)

ASSUME CircleAssumption ==
    /\ RoomCodeOf \in [RoomName -> RoomCode] /\ Hour \in Nat \ {0} /\ MaxTime \in Nat /\ MaxCircles \in Nat
    /\ Absent \notin GameSessionShortAlias

VARIABLES
    circles,         (* registry.sessions: room -> its players, those of   *)
                     (* team "owner" among them, and whether it is ACTIVE  *)
    codes,           (* g.aliases: code -> GameSessionShortAlias           *)
    clock,           (* time.Now()                                         *)
    promised         (* room -> until when its code was given out, -1 if   *)
                     (* it never was or another room has it now            *)

circleVars == <<circles, codes, clock, promised>>

Circle == [players : SUBSET Person, owners : SUBSET Person, active : BOOLEAN]

CircleTypeOK ==
    /\ DOMAIN circles \subseteq RoomName /\ \A n \in DOMAIN circles : circles[n] \in Circle
    /\ \A c \in DOMAIN codes : codes[c] \in GameSessionShortAlias /\ codes[c].name = c
    /\ clock \in 0..MaxTime
    /\ promised \in [RoomName -> Int]

CircleInit ==
    /\ circles = [n \in {} |-> {}] /\ codes = [c \in {} |-> Absent]
    /\ clock = 0 /\ promised = [n \in RoomName |-> -1]

(* Mutant: a code that is still good is not renewed. *)
AliasOnce(n) ==
    LET c == RoomCodeOf[n]
    IN  [name |-> c, session |-> n,
         expires |-> IF c \in DOMAIN codes THEN codes[c].expires ELSE clock + Hour]

Alias(n) == [name |-> RoomCodeOf[n], session |-> n, expires |-> clock + Hour]

(* CreateGameSessionShortAlias, for a player of the room, be it a circle   *)
(* or not, and also when it has ended with its host.                       *)
CreateGameSessionShortAlias(u, r) ==
    LET n == r.session  c == RoomCodeOf[n] IN
    /\ n \in DOMAIN circles /\ u \in circles[n].players
    /\ codes' = [d \in DOMAIN codes \cup {c} |-> IF d = c THEN Alias(n) ELSE codes[d]]
    /\ promised' = [m \in RoomName |-> IF m = n THEN clock + Hour
                                       ELSE IF RoomCodeOf[m] = c THEN -1 ELSE promised[m]]
    /\ UNCHANGED <<circles, clock>>

(* The code is not past its time and its room has not ended. *)
Leads(c) == codes[c].expires >= clock /\ circles[codes[c].session].active

(* GetGameSessionShortAlias; NotFound forgets the code. *)
GetGameSessionShortAlias(r) ==
    /\ r.name \in DOMAIN codes /\ ~ Leads(r.name)
    /\ codes' = [c \in DOMAIN codes \ {r.name} |-> codes[c]]
    /\ UNCHANGED <<circles, clock, promised>>

AliasFound(r) == IF r.name \in DOMAIN codes /\ Leads(r.name) THEN codes[r.name] ELSE Absent

(* Rooms are made, entered and left (Matchmaking); one ends with its last  *)
(* player, a public raid with its host, whoever is still in it.            *)
Found(n, u, own) ==
    /\ n \notin DOMAIN circles /\ Cardinality(DOMAIN circles) < MaxCircles
    /\ circles' = [m \in DOMAIN circles \cup {n} |->
                     IF m # n THEN circles[m]
                     ELSE [players |-> {u}, owners |-> own, active |-> TRUE]]
    /\ UNCHANGED <<codes, clock, promised>>

Enter(n, u, own) ==
    /\ n \in DOMAIN circles /\ circles[n].active /\ u \notin circles[n].players
    /\ circles' = [circles EXCEPT ![n].players = @ \cup {u}, ![n].owners = @ \cup own]
    /\ UNCHANGED <<codes, clock, promised>>

Leave(n, u) ==
    /\ n \in DOMAIN circles /\ u \in circles[n].players
    /\ circles' = [circles EXCEPT ![n].players = @ \ {u}, ![n].owners = @ \ {u},
          ![n].active = @ /\ circles[n].players # {u} /\ ~ (n \in Raids /\ u \in circles[n].owners)]
    /\ UNCHANGED <<codes, clock, promised>>

Tick ==
    /\ clock < MaxTime /\ clock' = clock + 1
    /\ UNCHANGED <<circles, codes, promised>>

CircleNext ==
    \/ \E n \in RoomName, u \in Person :
          \/ \E own \in SUBSET {u} : Found(n, u, own) \/ Enter(n, u, own)
          \/ Leave(n, u)
          \/ CreateGameSessionShortAlias(u, [session |-> n])
    \/ \E c \in RoomCode : GetGameSessionShortAlias([name |-> c])
    \/ Tick

CircleSpec == CircleInit /\ [][CircleNext]_circleVars

-----------------------------------------------------------------------------
(* Whoever was told a code can give it to others for the whole hour since  *)
(* it was last asked for: it finds this room until it ends, whoever asked  *)
(* for it meanwhile, unless a room with the same code was given it since.  *)
(* A room that has ended is never found, though players may be in it still *)
(* and ask for its code.                                                   *)
CodeFindsRoom ==
    /\ \A n \in DOMAIN circles :
          promised[n] >= clock /\ circles[n].active =>
              LET a == AliasFound([name |-> RoomCodeOf[n]])
              IN  a # Absent /\ a.session = n /\ a.expires = promised[n]
    /\ \A c \in RoomCode : LET a == AliasFound([name |-> c])
                           IN  a # Absent => circles[a.session].active /\ promised[a.session] >= clock
=============================================================================
