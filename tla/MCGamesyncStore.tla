--------------------------- MODULE MCGamesyncStore ---------------------------
(* GamesyncStore with a host and a guest of a raid, and requests of the *)
(* kinds Violet makes: a member announces himself with a connection number *)
(* from the shared counter, leaves a signal in another's mailbox with its  *)
(* clean-up deferred, controls the room, reports a battle; and a request   *)
(* whose second operation is refused.                                      *)
EXTENDS GamesyncStore

CONSTANTS h, g, x
MinusTwo == -2

Only(f, v) == [NoFields EXCEPT ![f] = v]
Signed(u) == Only("id", String(u))

Announce(u) ==
    <<[update |-> PresenceDoc(u), fields |-> Signed(u), mask |-> Everything, current |-> None],
      [transform |-> PresenceDoc(u),
       transforms |-> <<[field |-> "upcsid", load |-> "__upcsidn"],
                        [field |-> "upcsid", increment |-> Integer(1)],
                        [field |-> "upcsid", store |-> "__upcsidn"]>>]>>
Signal(u, v) ==
    <<[update |-> MailDoc(v), fields |-> [Signed(u) EXCEPT !["pl"] = Bytes(x)],
       mask |-> Everything, current |-> None]>>
CleanUp(u, v) ==
    <<[defer |-> [name |-> <<"current", x>>,
                  writes |-> <<[delete |-> MailDoc(v), current |-> [exists |-> TRUE]]>>]]>>
SetOut(b) ==
    <<[update |-> ControlDoc,
       fields |-> [NoFields EXCEPT !["cp"] = Boolean(b), !["ip"] = Boolean(b)],
       mask |-> {"cp", "ip"}, current |-> [exists |-> TRUE]]>>

Ask(u, w, d) == [by |-> u, writes |-> w, deferments |-> d]
RaidRequests ==
    {Ask(u, Announce(u), <<>>) : u \in {h, g}}
        \cup {Ask(h, Signal(h, g), CleanUp(h, g)), Ask(h, SetOut(FALSE), <<>>)}
        \cup {Ask(g, Announce(g) \o SetOut(TRUE), <<>>)}
RaidTargets == {[documents |-> {SessionDoc(g), MailDoc(g), ControlDoc}]}
=============================================================================
