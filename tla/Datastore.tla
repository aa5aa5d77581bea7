------------------------------ MODULE Datastore ------------------------------
(***************************************************************************)
(* Contents that players create, read, search and delete (src/datastore.go *)
(* and src/proto/hydro/v1).                                                *)
(*                                                                         *)
(* A name is the parent and the time at which the call read the clock,     *)
(* which it does before it takes the mutex: two calls may have read the    *)
(* same tick and the later one overwrites the content of the other.  So a  *)
(* creation is two steps, with everything else in between; the other calls *)
(* are one critical section each.  Neither the caller nor the etag nor a   *)
(* permission is looked at.                                                *)
(***************************************************************************)
EXTENDS Integers, Sequences, FiniteSets

CONSTANTS
    Author,          (* clients with at most one creation under way        *)
    Parent,          (* the collections they name                          *)
    SearchLimit,     (* 50 in the code                                     *)
    MaxTick, MaxContents   (* bounds: the clock, creations                 *)

ASSUME DatastoreBounds == {SearchLimit, MaxTick, MaxContents} \subseteq Nat \ {0}

(* Messages of nn.npln.hydro.v1.  What the payload holds nobody looks at:  *)
(* it is the number of the creation, 0 in an empty content.                *)
ContentName == Parent \X (1..MaxTick)
Content == [name : ContentName, user : Author, payload : 1..MaxContents]
CreateContentRequest == [parent : Parent, user : Author]
GetContentRequest == [name : ContentName]
DeleteContentRequest == [name : ContentName, etag : {""}]
SearchContentRequest == [user : Author, size : 0..SearchLimit]
SearchContentResponse == [contents : SUBSET Content, next : {""}]

VARIABLES
    contents,        (* d.contents: name -> content                        *)
    tick,            (* time.Now().UnixNano()                              *)
    creating,        (* author -> the content named and not stored yet     *)
    answered,        (* the contents CreateContent has answered so far     *)
    deleted          (* names somebody has deleted so far                  *)

contentVars == <<contents, tick, creating, answered, deleted>>

NoContent == [name |-> <<>>]
NoContents == [n \in {} |-> NoContent]

ContentInit ==
    /\ contents = NoContents /\ tick = 1
    /\ creating = [u \in Author |-> NoContent]
    /\ answered = {} /\ deleted = {}

ContentTypeOK ==
    /\ DOMAIN contents \subseteq ContentName
    /\ \A n \in DOMAIN contents : contents[n] \in Content /\ contents[n].name = n
    /\ tick \in 1..MaxTick
    /\ creating \in [Author -> Content \cup {NoContent}]
    /\ answered \subseteq Content /\ deleted \subseteq ContentName

Creations == Cardinality(answered) + Cardinality({u \in Author : creating[u] # NoContent})

(* CreateContent, up to the mutex: the client's content gets its name.     *)
NameContent(r) ==
    /\ creating[r.user] = NoContent /\ Creations < MaxContents
    /\ creating' = [creating EXCEPT ![r.user] =
          [name |-> <<r.parent, tick>>, user |-> r.user, payload |-> Creations + 1]]
    /\ UNCHANGED <<contents, tick, answered, deleted>>

(* And from there on. *)
StoreContent(u) ==
    LET c == creating[u] IN
    /\ c # NoContent
    /\ contents' = [n \in DOMAIN contents \cup {c.name} |->
                      IF n = c.name THEN c ELSE contents[n]]
    /\ creating' = [creating EXCEPT ![u] = NoContent]
    /\ answered' = answered \cup {c}
    /\ UNCHANGED <<tick, deleted>>

(* Deleting what is not there is a success, too. *)
DeleteContent(r) ==
    /\ contents' = [n \in DOMAIN contents \ {r.name} |-> contents[n]]
    /\ deleted' = deleted \cup {r.name}
    /\ UNCHANGED <<tick, creating, answered>>

(* GetContent: one that is not there is answered as an empty one.          *)
GetContent(r) ==
    IF r.name \in DOMAIN contents THEN contents[r.name] ELSE [name |-> r.name, payload |-> 0]

(* SearchContent ignores what it is asked for: some of all contents, in    *)
(* the order of a map, and there is never a next page.                     *)
SearchContent(r) ==
    {[contents |-> {contents[n] : n \in S}, next |-> ""] :
        S \in {X \in SUBSET DOMAIN contents :
                  \/ Cardinality(X) = SearchLimit
                  \/ X = DOMAIN contents /\ Cardinality(X) < SearchLimit}}

TickContent ==
    /\ tick < MaxTick /\ tick' = tick + 1
    /\ UNCHANGED <<contents, creating, answered, deleted>>

ContentNext ==
    \/ \E r \in CreateContentRequest : NameContent(r)
    \/ \E u \in Author : StoreContent(u)
    \/ \E r \in DeleteContentRequest : DeleteContent(r)
    \/ TickContent

ContentSpec == ContentInit /\ [][ContentNext]_contentVars

-----------------------------------------------------------------------------
(* A content that was answered is read back whole under its name until     *)
(* somebody deletes it; only a call that read the same tick for the same   *)
(* parent can have taken its place.  What a search shows can be read, and  *)
(* it shows all there is up to its limit.                                  *)
ContentsAreFound ==
    /\ \A c \in answered :
          \/ GetContent([name |-> c.name]) = c
          \/ c.name \in deleted
          \/ \E d \in answered : d # c /\ d.name = c.name /\ GetContent([name |-> c.name]) = d
    /\ \A u \in Author : \A a \in SearchContent([user |-> u, size |-> 0]) :
          /\ a \in SearchContentResponse
          /\ \A c \in a.contents : GetContent([name |-> c.name]) = c
          /\ contents # NoContents => a.contents # {}
=============================================================================
