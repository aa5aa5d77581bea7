------------------------- MODULE CompetitionHosting -------------------------
(***************************************************************************)
(* Friendly competitions that players host, the codes that lead to them,   *)
(* the official competition players register for, and the profiles that    *)
(* refer to both (src/competition.go).                                     *)
(*                                                                         *)
(* Every operation is one critical section.  Resources are protobuf        *)
(* messages the server edits without decoding them: here sequences of      *)
(* <<field, value>>, of which a reader believes the last of its kind.      *)
(* Names are parsed resource names: a competition is a model value, its    *)
(* participant <<competition, user>>.  A client asks for a new competition *)
(* by the name of the collection, or names any, the server's own included. *)
(***************************************************************************)
EXTENDS Integers, Sequences, FiniteSets

CONSTANTS
    User,            (* authenticated NPLN users                           *)
    Friendly,        (* names newResourceUUID may give                     *)
    CodeOf,          (* friendlyCompetitionID: any name -> its code        *)
    Official, OfficialCode,  (* officialCompetitionName, "OFC001"          *)
    Ranked,          (* the two seasons of rankedCompetitionName           *)
    Area, Category,  (* areas and categories (1 to 3) a profile can name   *)
    Submitted,       (* participants the game submits, as messages         *)
    Binary,          (* participant binaries given on activation           *)
    Nobody,          (* no name; the collection's name in a request        *)
    MaxCompetitions, MaxFields   (* bounds: hosted; fields of a message    *)

Unset == "unset"     (* a field that is not there *)

Competition == Friendly \cup Ranked \cup {Official}

ASSUME NameAssumption ==
    /\ Official \notin Friendly \cup Ranked /\ Nobody \notin Competition
    /\ DOMAIN CodeOf = Competition /\ Category \subseteq 1..3
    /\ \A m \in Submitted :
          m \in Seq({m[i] : i \in DOMAIN m}) /\ \A i \in DOMAIN m : Len(m[i]) = 2
    /\ Unset \notin Binary
    /\ MaxFields \in Nat /\ \A m \in Submitted : Len(m) + 6 <= MaxFields

VARIABLES
    users,           (* s.users: profiles                                  *)
    hosted,          (* s.hosted: name -> owner and two messages           *)
    aliases,         (* s.aliases: code -> name                            *)
    official         (* s.official: user -> his participant                *)

hostingVars == <<users, hosted, aliases, official>>

Accepted == 1
Active == 2
InitialRating == 1500
DefaultArea == 399
Master == 3

Profile ==
    [area : Area \cup {0}, category : 0..Master, initialized : BOOLEAN,
     currentOfficial : {Nobody, Official}, currentFriendly : Competition \cup {Nobody}]
NoProfile ==
    [area |-> 0, category |-> 0, initialized |-> FALSE,
     currentOfficial |-> Nobody, currentFriendly |-> Nobody]

UpdateRequest ==
    [area : Area, category : Category, mask : SUBSET {"area", "category"}]

CompetitionCode == {CodeOf[n] : n \in Competition} \cup {OfficialCode}

-----------------------------------------------------------------------------
(* Messages as the server edits them *)

Numbers(message) == {message[i][1] : i \in DOMAIN message}

(* What a reader of the message takes for the field. *)
Read(message, field) ==
    LET at == {i \in DOMAIN message : message[i][1] = field}
    IN  IF at = {} THEN Unset ELSE message[CHOOSE i \in at : \A j \in at : j <= i][2]

(* Mutant: the new field is added to the old one. *)
ReplacedAppended(message, field, value) == Append(message, <<field, value>>)

(* Mutant: later fields of the same number stay. *)
ReplacedFirst(message, field, value) ==
    IF field \notin Numbers(message) THEN Append(message, <<field, value>>)
    ELSE LET i == CHOOSE k \in DOMAIN message :
                    message[k][1] = field /\ \A j \in 1..(k - 1) : message[j][1] # field
         IN  [message EXCEPT ![i] = <<field, value>>]

(* replaceProtoStringField, replaceProtoEncodedField: field by field, the  *)
(* first of this number gives way, the others are dropped, and a missing   *)
(* one is added at the end.                                                *)
Replaced(message, field, value) ==
    LET own == {i \in DOMAIN message : message[i][1] = field}
        out[i \in 0..Len(message)] ==
            IF i = 0 THEN <<>>
            ELSE IF i \notin own THEN Append(out[i - 1], message[i])
            ELSE IF \E j \in own : j < i THEN out[i - 1]
            ELSE Append(out[i - 1], <<field, value>>)
    IN  IF own = {} THEN Append(message, <<field, value>>) ELSE out[Len(message)]

(* validateRegistrationParticipant *)
Complete(message) == {"device", "offset", "binary"} \subseteq Numbers(message)

-----------------------------------------------------------------------------
(* Competitions and their codes *)

(* AlreadyExists is for a competition of somebody else. *)
MayHost(u, n) == n \in DOMAIN hosted => hosted[n].owner = u

(* Mutant: hosting again gives up the codes of what was hosted before.     *)
EnteredAlone(n) == [c \in {OfficialCode, CodeOf[n]} |-> IF c = CodeOf[n] THEN n ELSE Official]

(* The code leads to the competition hosted last: of two with one code the *)
(* second takes it over.                                                   *)
Entered(n) ==
    [c \in DOMAIN aliases \cup {CodeOf[n]} |-> IF c = CodeOf[n] THEN n ELSE aliases[c]]

HostedCompetition(u, n, participant) ==
    [owner |-> u,
     competition |-> Replaced(Replaced(<<<<"type", 2>>>>, "name", n), "alias", CodeOf[n]),
     participant |-> Replaced(participant, "name", <<n, u>>)
                        \o <<<<"state", Accepted>>>>]

(* HostCompetition: requested is any competition, or Nobody for the        *)
(* collection, which allocates a name.                                     *)
HostCompetition(u, requested, participant) ==
    \E n \in IF requested = Nobody THEN Friendly \ DOMAIN hosted ELSE {requested} :
        /\ MayHost(u, n)
        /\ n \notin DOMAIN hosted => Cardinality(DOMAIN hosted) < MaxCompetitions
        /\ hosted' = [x \in DOMAIN hosted \cup {n} |->
                        IF x = n THEN HostedCompetition(u, n, participant) ELSE hosted[x]]
        /\ aliases' = Entered(n)
        /\ users' = [users EXCEPT ![u].currentFriendly = n]
        /\ UNCHANGED official

(* marshalOfficialCompetitionForArea: shown in the reader's own area. *)
OfficialCompetition(area) ==
    <<<<"name", Official>>, <<"alias", OfficialCode>>, <<"type", 1>>,
      <<"area", IF area = 0 THEN DefaultArea ELSE area>>>>

Season(n) == <<<<"name", n>>, <<"state", 1>>, <<"type", 3>>>>

(* GetCompetition, as u reads it; <<>> is an error. *)
GetCompetition(u, n) ==
    IF n \in DOMAIN hosted THEN hosted[n].competition
    ELSE IF n = Official THEN OfficialCompetition(users[u].area)
    ELSE IF n \in Ranked THEN Season(n) ELSE <<>>

(* SearchCompetitions: official ones alone, or the seasons asked for. *)
SearchCompetitions(u, asked) ==
    IF asked = {Official} THEN {OfficialCompetition(users[u].area)}
    ELSE {Season(n) : n \in asked \cap Ranked}

(* GetCompetitionAlias: Nobody is NotFound. *)
GetCompetitionAlias(c) == IF c \in DOMAIN aliases THEN aliases[c] ELSE Nobody

-----------------------------------------------------------------------------
(* Profiles *)

(* The mask must name something, yet every field is taken from the         *)
(* request; the references to competitions are carried over.               *)
Updated(p, r) ==
    [p EXCEPT !.area = r.area, !.category = r.category, !.initialized = TRUE]

UpdateCompetitionUser(u, r) ==
    /\ r.mask # {}
    /\ users' = [users EXCEPT ![u] = Updated(@, r)]
    /\ UNCHANGED <<hosted, aliases, official>>

(* GetCompetitionUser: the competitions a user's resource refers to, and   *)
(* the category, MASTER until one is chosen.                               *)
CompetitionUser(u) ==
    [references |-> ({users[u].currentOfficial, users[u].currentFriendly} \ {Nobody}) \cup Ranked,
     area |-> users[u].area,
     category |-> IF users[u].category = 0 THEN Master ELSE users[u].category]

-----------------------------------------------------------------------------
(* Participants *)

(* The server's fields are added after what the game submitted, which may  *)
(* hold the same ones.                                                     *)
Registered(u, message) ==
    Replaced(message, "name", <<Official, u>>)
        \o <<<<"state", Accepted>>, <<"rating", InitialRating>>,
             <<"category", users[u].category>>, <<"area", users[u].area>>>>

(* CreateCompetitionParticipant: registering again replaces the old one.   *)
CreateCompetitionParticipant(u, message) ==
    /\ Complete(message)
    /\ users' = [users EXCEPT ![u].currentOfficial = Official]
    /\ official' = [x \in DOMAIN official \cup {u} |->
                      IF x = u THEN Registered(u, message) ELSE official[x]]
    /\ UNCHANGED <<hosted, aliases>>

(* ActivateCompetitionParticipant: a new binary, ACTIVE, and the time. *)
Activated(message, binary) ==
    LET equipped == IF binary = Unset THEN message ELSE Replaced(message, "binary", binary)
    IN  Replaced(Replaced(equipped, "state", Active), "activeTime", 0)

ActivateCompetitionParticipant(u, binary) ==
    /\ u \in DOMAIN official
    /\ official' = [official EXCEPT ![u] = Activated(@, binary)]
    /\ UNCHANGED <<users, hosted, aliases>>

(* GetCompetitionParticipant: under the name asked for, whoever it is; the *)
(* caller's own registration, or the host's.  <<>> is NotFound or ranked.  *)
GetCompetitionParticipant(u, n, who) ==
    IF n = Official
    THEN IF u \in DOMAIN official THEN Replaced(official[u], "name", <<n, who>>) ELSE <<>>
    ELSE IF n \in DOMAIN hosted THEN Replaced(hosted[n].participant, "name", <<n, who>>)
    ELSE <<>>

-----------------------------------------------------------------------------
HostingInit ==
    /\ users = [u \in User |-> NoProfile]
    /\ hosted = [n \in {} |-> Nobody]
    /\ aliases = [c \in {OfficialCode} |-> Official]
    /\ official = [u \in {} |-> <<>>]

HostingNext ==
    \E u \in User :
        \/ \E n \in Competition \cup {Nobody}, m \in Submitted : HostCompetition(u, n, m)
        \/ \E r \in UpdateRequest : UpdateCompetitionUser(u, r)
        \/ \E m \in Submitted : CreateCompetitionParticipant(u, m)
        \/ \E b \in Binary \cup {Unset} : ActivateCompetitionParticipant(u, b)

HostingSpec == HostingInit /\ [][HostingNext]_hostingVars

HostingTypeOK ==
    /\ users \in [User -> Profile]
    /\ DOMAIN hosted \subseteq Competition
    /\ \A n \in DOMAIN hosted : hosted[n].owner \in User
    /\ DOMAIN aliases \subseteq CompetitionCode
    /\ \A c \in DOMAIN aliases : aliases[c] \in Competition
    /\ DOMAIN official \subseteq User
    /\ \A u \in DOMAIN official : Len(official[u]) <= MaxFields

-----------------------------------------------------------------------------
(* A code that is shown on a competition finds a competition that shows    *)
(* this code, also where two share one; every code given out leads on.     *)
(* (HostCompetition edits the two messages and the map separately.)  The   *)
(* one code that may lead to a competition that shows another is the       *)
(* official one, once somebody hosts a competition under its name.         *)
CodesLeadHome ==
    \A u \in User :
        /\ \A c \in DOMAIN aliases :
             Read(GetCompetition(u, GetCompetitionAlias(c)), "alias") = c
                \/ (c = OfficialCode /\ aliases[c] = Official /\ Official \in DOMAIN hosted)
        /\ \A n \in DOMAIN hosted :
             GetCompetitionAlias(Read(hosted[n].competition, "alias")) # Nobody

(* What a user's resource refers to exists and is his: the friendly        *)
(* competition has him as host and as its participant, and he refers to    *)
(* the official one exactly while he is registered.                        *)
ReferencesAreOwn ==
    \A u \in User :
        /\ \A n \in CompetitionUser(u).references :
             Read(GetCompetition(u, n), "name") = n
        /\ LET n == users[u].currentFriendly
           IN  n # Nobody => /\ hosted[n].owner = u
                             /\ Read(hosted[n].participant, "name") = <<n, u>>
        /\ users[u].currentOfficial = Official <=> u \in DOMAIN official

(* Whatever fields the game submits, a reader of a participant finds the   *)
(* state the server last gave it: ACCEPTED on registration, ACTIVE with    *)
(* the new binary on activation, under the name asked for.                 *)
StateIsRead ==
    [][\A u \in User :
         /\ \A m \in Submitted : CreateCompetitionParticipant(u, m) =>
              /\ Read(official'[u], "state") = Accepted
              /\ Read(official'[u], "rating") = InitialRating
              /\ Read(official'[u], "name") = <<Official, u>>
         /\ \A b \in Binary : ActivateCompetitionParticipant(u, b) =>
              /\ Read(official'[u], "state") = Active
              /\ Read(official'[u], "binary") = b
              /\ Read(official'[u], "rating") = InitialRating]_hostingVars
=============================================================================
