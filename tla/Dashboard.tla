------------------------------ MODULE Dashboard ------------------------------
(***************************************************************************)
(* The page that shows who is online (src/dashboard.go): streams of the    *)
(* presence service are counted per player and game, and the page joins    *)
(* them with Gamesync sessions and rooms, each copied under its own lock   *)
(* while streams, sessions and rooms go on changing.                       *)
(*                                                                         *)
(* A key is a player of one game.  A tracked stream keeps the entry it     *)
(* counted in (a pointer), whatever entry its key has later.  Times,       *)
(* addresses and names are left out.                                       *)
(***************************************************************************)
EXTENDS Integers, Sequences, FiniteSets

CONSTANTS
    Key,             (* dashboardKey: a player and one of the two games    *)
    Known,           (* keys with an account the server remembers          *)
                     (* (pidPourUid): a login since it started             *)
    Link,            (* streams of the presence service                    *)
    KeyOfLink,       (* stream -> key                                      *)
    Session,         (* Gamesync sessions, numbered in the order of their  *)
                     (* creation                                           *)
    KeyOfSession,    (* session -> key                                     *)
    HallOf,          (* session -> its room, NoHall for none               *)
    HostOf,          (* room -> the host's session, as the registry has it *)
    Hall, NoHall,
    MaxOpenings      (* bound: openings of streams and sessions            *)

ASSUME DashboardAssumption ==
    /\ IsFiniteSet(Key) /\ Known \subseteq Key /\ Session \subseteq Nat
    /\ KeyOfLink \in [Link -> Key] /\ KeyOfSession \in [Session -> Key]
    /\ HallOf \in [Session -> Hall \cup {NoHall}] /\ NoHall \notin Hall
    /\ HostOf \in [Hall -> Session]

VARIABLES
    present,         (* d.present: key -> entry                            *)
    streams,         (* entry -> its stream count                          *)
    counted,         (* stream -> the entry it holds, 0 while closed       *)
    active,          (* sessions with a Gamesync stream                    *)
    halls,           (* ACTIVE rooms of the registry                       *)
    page,            (* the request: how far it is, its copies, its answer *)
    peak,            (* d.peak                                             *)
    steady, seenOpen,(* streams and sessions open all through the request, *)
                     (* and open at some time of it                        *)
    openings         (* bound: openings so far                             *)

boardVars == <<present, streams, counted, active, halls, page, peak, steady, seenOpen, openings>>
linkVars == <<present, streams, counted>>

NoPage == [at |-> "none", presences |-> {}, sessions |-> {}, players |-> {}, groups |-> {}]

BoardInit ==
    /\ present = [k \in {} |-> 0] /\ streams = <<>> /\ counted = [l \in Link |-> 0]
    /\ active = {} /\ halls = Hall /\ page = NoPage /\ peak = 0
    /\ steady = {} /\ seenOpen = {} /\ openings = 0

-----------------------------------------------------------------------------
(* Tracking *)

Open == {<<"link", l>> : l \in {x \in Link : counted[x] # 0}}
            \cup {<<"session", s>> : s \in active}

(* What the ghosts see of a change during the request. *)
Watch ==
    IF page.at \in {"none", "shown"} THEN UNCHANGED <<steady, seenOpen>>
    ELSE steady' = steady \cap Open' /\ seenOpen' = seenOpen \cup Open'

(* trackPresence: the entry of the key, or a new one. *)
Track(l) ==
    LET k == KeyOfLink[l]
        e == IF k \in DOMAIN present THEN present[k] ELSE Len(streams) + 1
    IN  /\ counted[l] = 0
        /\ present' = [x \in DOMAIN present \cup {k} |-> IF x = k THEN e ELSE present[x]]
        /\ streams' = IF e \in DOMAIN streams THEN [streams EXCEPT ![e] = @ + 1]
                      ELSE Append(streams, 1)
        /\ counted' = [counted EXCEPT ![l] = e]

(* Mutant: the key is forgotten when any of its streams ends. *)
ForgetAlways(k, e) == [x \in DOMAIN present \ {k} |-> present[x]]

(* The key is forgotten with its last stream. *)
Forget(k, e) ==
    IF streams[e] = 1 THEN [x \in DOMAIN present \ {k} |-> present[x]] ELSE present

(* The function trackPresence returns, deferred by the stream. *)
Untrack(l) ==
    /\ counted[l] # 0
    /\ present' = Forget(KeyOfLink[l], counted[l])
    /\ streams' = [streams EXCEPT ![counted[l]] = @ - 1]
    /\ counted' = [counted EXCEPT ![l] = 0]

OpenLink(l) ==
    /\ openings < MaxOpenings /\ openings' = openings + 1
    /\ Track(l)
    /\ UNCHANGED <<active, halls, page, peak>>
    /\ Watch

CloseLink(l) ==
    /\ Untrack(l)
    /\ UNCHANGED <<active, halls, page, peak, openings>>
    /\ Watch

(* Gamesync counts its own streams; a room ends for good. *)
OpenSession(s) ==
    /\ s \notin active
    /\ openings < MaxOpenings /\ openings' = openings + 1
    /\ active' = active \cup {s}
    /\ UNCHANGED <<linkVars, halls, page, peak>>
    /\ Watch

CloseSession(s) ==
    /\ s \in active
    /\ active' = active \ {s}
    /\ UNCHANGED <<linkVars, halls, page, peak, openings>>
    /\ Watch

EndHall(h) ==
    /\ h \in halls /\ halls' = halls \ {h}
    /\ UNCHANGED <<linkVars, active, page, peak, steady, seenOpen, openings>>

-----------------------------------------------------------------------------
(* The page *)

(* stats, first lock: the entries and their players. *)
CopyPresences ==
    /\ page.at \in {"none", "shown"}
    /\ page' = [NoPage EXCEPT !.at = "presences", !.presences = DOMAIN present]
    /\ steady' = Open /\ seenOpen' = Open
    /\ UNCHANGED <<linkVars, active, halls, peak, openings>>

(* Second lock: the sessions with streams. *)
CopySessions ==
    /\ page.at = "presences"
    /\ page' = [page EXCEPT !.at = "sessions", !.sessions = active]
    /\ UNCHANGED <<linkVars, active, halls, peak, steady, seenOpen, openings>>

(* The newest session of a key stands for it. *)
Newest(S) ==
    {s \in S : /\ KeyOfSession[s] \in Known
               /\ \A t \in S : KeyOfSession[t] = KeyOfSession[s] => t <= s}

(* The players of a room; without the registry's host the first of them,   *)
(* the newest, is shown as host. *)
Together(S, h) == {s \in S : HallOf[s] = h}
Group(S, h) ==
    LET with == Together(S, h)
    IN  [hall |-> h, players |-> with,
         host |-> IF HostOf[h] \in with THEN HostOf[h]
                  ELSE CHOOSE s \in with : \A t \in with : t <= s]

(* Third lock: the rooms; then the answer is put together: sessions first, *)
(* presences of the keys they do not show. *)
Show ==
    /\ page.at = "sessions"
    /\ LET shown == Newest(page.sessions)
           only  == page.presences \ {KeyOfSession[s] : s \in shown}
           players == {<<KeyOfSession[s], HallOf[s] \in halls, s>> : s \in shown}
                          \cup {<<k, FALSE, 0>> : k \in only}
           groups == {Group(shown, h) : h \in {x \in halls : Together(shown, x) # {}}}
       IN  /\ page' = [page EXCEPT !.at = "shown", !.players = players, !.groups = groups]
           /\ peak' = IF Cardinality(players) > peak THEN Cardinality(players) ELSE peak
    /\ UNCHANGED <<linkVars, active, halls, steady, seenOpen, openings>>

BoardNext ==
    \/ \E l \in Link : OpenLink(l) \/ CloseLink(l)
    \/ \E s \in Session : OpenSession(s) \/ CloseSession(s)
    \/ \E h \in Hall : EndHall(h)
    \/ CopyPresences \/ CopySessions \/ Show

BoardSpec == BoardInit /\ [][BoardNext]_boardVars

KeyOfOpen(o) == IF o[1] = "link" THEN KeyOfLink[o[2]] ELSE KeyOfSession[o[2]]

BoardTypeOK ==
    /\ DOMAIN present \subseteq Key
    /\ streams \in Seq(Nat) /\ counted \in [Link -> 0..Len(streams)]
    /\ \A k \in DOMAIN present : present[k] \in DOMAIN streams
    /\ active \subseteq Session /\ halls \subseteq Hall
    /\ peak \in 0..Cardinality(Key)

-----------------------------------------------------------------------------
(* Whoever has a presence stream, or a session of a known account, open    *)
(* all through the request is on the page, once, and nobody is who had     *)
(* nothing open meanwhile; a room is shown with one host, who is in it.    *)
(* (Three copies taken one after another are joined.)                      *)
EverybodyShownOnce ==
    page.at = "shown" =>
        LET Shown(k) == {p \in page.players : p[1] = k} IN
        /\ \A k \in Key :
             /\ Cardinality(Shown(k)) <= 1
             /\ (\E o \in steady : KeyOfOpen(o) = k /\ (o[1] = "link" \/ k \in Known))
                  => Shown(k) # {}
             /\ Shown(k) # {} => \E o \in seenOpen : KeyOfOpen(o) = k
        /\ \A g \in page.groups :
             /\ g.host \in g.players
             /\ \A s \in g.players : \E p \in page.players : p[2] /\ p[3] = s
=============================================================================
