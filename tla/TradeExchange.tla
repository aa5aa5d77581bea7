--------------------------- MODULE TradeExchange ---------------------------
(***************************************************************************)
(* What the surprise-trade service of src/trade_box.go promises, without   *)
(* keys, queue, map or streams: users post boxes, two boxes of different   *)
(* users are swapped as soon as both are there, and a box may be withdrawn *)
(* until then.  Since a post is matched at once when it can be, the boxes  *)
(* that stay open all belong to one user.                                  *)
(***************************************************************************)
CONSTANTS User, Box

VARIABLES
    owner,      (* the user of every box posted so far                     *)
    open,       (* boxes waiting for a partner                             *)
    partner     (* the box each exchanged box was swapped with             *)

tvars == <<owner, open, partner>>

Posted == DOMAIN owner

TInit ==
    /\ owner = [b \in {} |-> b]
    /\ open = {}
    /\ partner = [b \in {} |-> b]

RecordOwner(b, u) ==
    /\ b \in Box \ Posted
    /\ owner' = [x \in Posted \cup {b} |-> IF x = b THEN u ELSE owner[x]]

(* Nobody else's box is open: the new one waits. *)
Post(b, u) ==
    /\ RecordOwner(b, u)
    /\ \A o \in open : owner[o] = u
    /\ open' = open \cup {b}
    /\ UNCHANGED partner

(* Another user's box is open: the two are swapped in one step. *)
Swap(b, u, o) ==
    /\ RecordOwner(b, u)
    /\ o \in open /\ owner[o] # u
    /\ open' = open \ {o}
    /\ partner' = [x \in DOMAIN partner \cup {o, b} |->
                     IF x = o THEN b ELSE IF x = b THEN o ELSE partner[x]]

Withdraw(b) ==
    /\ b \in open
    /\ open' = open \ {b}
    /\ UNCHANGED <<owner, partner>>

TNext ==
    \/ \E b \in Box, u \in User : Post(b, u) \/ \E o \in Box : Swap(b, u, o)
    \/ \E b \in Box : Withdraw(b)

TSpec == TInit /\ [][TNext]_tvars
=============================================================================
