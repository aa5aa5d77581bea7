------------------------------ MODULE UgcStore ------------------------------
(***************************************************************************)
(* Rental teams with their owners and download codes, and the penalty      *)
(* document of every caller (src/ugcstore_violet.go).                      *)
(*                                                                         *)
(* Each operation holds the store's mutex from its first look at a map to  *)
(* its end, so each is one action; the bulk reads are one action per name. *)
(* Everything is in memory: Restart forgets it while clients go on with    *)
(* the names and codes they know.                                          *)
(***************************************************************************)
EXTENDS UgcMessages, FiniteSets

CONSTANTS
    Caller,          (* authenticated NPLN users                           *)
    CodeNumber,      (* rentalAliasCode: number -> code                    *)
    Commits, AliasRequests, (* requests the game makes                     *)
    MaxCodes         (* bound: numbers a server gives to codes             *)

ASSUME UgcRequestAssumption ==
    /\ Commits \subseteq CommitDocumentsRequest
    /\ AliasRequests \subseteq CreateDocumentShortAliasRequest
    /\ MaxCodes \in Nat /\ CodeNumber \in [1..MaxCodes -> Code]
ASSUME UgcCallerAssumption == None \notin Caller

VARIABLES
    rentalDocuments, (* u.rentalDocuments: slot -> fields                  *)
    rentalOwners,    (* u.rentalOwners: slot -> caller                     *)
    rentalAliases,   (* u.rentalAliases: code -> slot                      *)
    nextRentalAlias, (* u.nextRentalAlias                                  *)
    penalties,       (* u.penalties: caller -> document                    *)
    penaltyAliases   (* u.penaltyAliases: caller -> names he has read      *)

teamVars == <<rentalDocuments, rentalOwners, rentalAliases, nextRentalAlias>>
penaltyVars == <<penalties, penaltyAliases>>
ugcVars == <<teamVars, penaltyVars>>

Nothing == [x \in {} |-> None]
UgcInit ==
    /\ rentalDocuments = Nothing /\ rentalOwners = Nothing /\ rentalAliases = Nothing
    /\ nextRentalAlias = 0
    /\ penalties = Nothing
    /\ penaltyAliases = [u \in Caller |-> {}]

UgcTypeOK ==
    /\ DOMAIN rentalDocuments \subseteq Slot
    /\ \A s \in DOMAIN rentalDocuments : rentalDocuments[s] \in TeamFields
    /\ \A s \in DOMAIN rentalOwners : s \in Slot /\ rentalOwners[s] \in Caller
    /\ \A c \in DOMAIN rentalAliases : [name |-> c, document |-> rentalAliases[c]] \in DocumentShortAlias
    /\ nextRentalAlias \in 0..MaxCodes
    /\ \A u \in DOMAIN penalties : u \in Caller /\ penalties[u] \in Document
    /\ penaltyAliases \in [Caller -> SUBSET PenaltyName]

Put(f, x, v) == [y \in DOMAIN f \cup {x} |-> IF y = x THEN v ELSE f[y]]
Drop(f, S) == [y \in DOMAIN f \ S |-> f[y]]

Published == DOMAIN rentalDocuments

-----------------------------------------------------------------------------
(* Rental teams *)

(* The slot has no owner yet, or the caller is the owner. *)
MayWrite(u, s) == s \in DOMAIN rentalOwners => rentalOwners[s] = u

(* Mutant: the codes of a deleted team stay. *)
CodesOfNone(s) == {}

(* The download codes that lead to a team. *)
CodesOf(s) == {c \in DOMAIN rentalAliases : rentalAliases[c] = s}

(* Deleting a team that does not exist is a success, too. *)
DeleteTeam(u, s) ==
    /\ MayWrite(u, s)
    /\ rentalDocuments' = Drop(rentalDocuments, {s})
    /\ rentalOwners' = Drop(rentalOwners, {s})
    /\ rentalAliases' = Drop(rentalAliases, CodesOf(s))
    /\ UNCHANGED <<nextRentalAlias, penaltyVars>>

(* validateVioletRentalFields: at least one field. *)
SomeField(fields) == fields # NoTeam

(* A full publication needs the team; the patch of a code needs a          *)
(* published team, the code alone, and that it leads to this team.         *)
Publishes(fields, mask) == mask = Everything /\ fields.binary # None
Patches(s, fields, mask) ==
    /\ mask = {"code"} /\ s \in Published
    /\ fields.binary = None /\ fields.code \in DOMAIN rentalAliases
    /\ rentalAliases[fields.code] = s

(* What is stored: all of a publication, or the old team with the code. *)
TeamWritten(s, fields, mask) ==
    IF mask = Everything THEN fields ELSE [rentalDocuments[s] EXCEPT !.code = fields.code]

UpdateTeam(u, s, fields, mask) ==
    /\ SomeField(fields) /\ MayWrite(u, s)
    /\ Publishes(fields, mask) \/ Patches(s, fields, mask)
    /\ rentalDocuments' = Put(rentalDocuments, s, TeamWritten(s, fields, mask))
    /\ rentalOwners' = Put(rentalOwners, s, u)
    /\ UNCHANGED <<rentalAliases, nextRentalAlias, penaltyVars>>

(* Mutant: the next number's code is taken whether it is free or not. *)
FreshNext(n) == n = nextRentalAlias + 1

(* Where the loop that skips codes callers have chosen stops. *)
Fresh(n) ==
    /\ n > nextRentalAlias /\ CodeNumber[n] \notin DOMAIN rentalAliases
    /\ \A m \in (nextRentalAlias + 1)..(n - 1) : CodeNumber[m] \in DOMAIN rentalAliases

(* CreateDocumentShortAlias, for the caller's own published team: a chosen *)
(* code that is free, or a fresh one.                                      *)
CreateDocumentShortAlias(u, r) ==
    /\ r.document \in Published /\ rentalOwners[r.document] = u
    /\ \/ /\ r.name # None /\ r.name \notin DOMAIN rentalAliases
          /\ rentalAliases' = Put(rentalAliases, r.name, r.document)
          /\ UNCHANGED nextRentalAlias
       \/ \E n \in 1..MaxCodes :
             /\ r.name = None /\ Fresh(n)
             /\ rentalAliases' = Put(rentalAliases, CodeNumber[n], r.document)
             /\ nextRentalAlias' = n
    /\ UNCHANGED <<rentalDocuments, rentalOwners, penaltyVars>>

(* GetDocumentShortAlias and its bulk form. *)
AliasAnswer(c) ==
    IF c \in DOMAIN rentalAliases
    THEN [found |-> [name |-> c, document |-> rentalAliases[c]]] ELSE [missing |-> c]
BulkAliasAnswer(r) ==
    [results |-> [i \in DOMAIN r.requests |-> AliasAnswer(r.requests[i].name)]]

(* GetDocument for one name of BulkGetDocuments: a team is public. *)
TeamAnswer(s) ==
    IF s \in Published THEN [found |-> [name |-> s, fields |-> rentalDocuments[s]]]
    ELSE [missing |-> s]

-----------------------------------------------------------------------------
(* Penalties *)

(* GetDocument: the name is bound to the caller, who has one penalty       *)
(* document whatever name he reads it by.                                  *)
GetPenalty(u, n) ==
    /\ penaltyAliases' = [penaltyAliases EXCEPT ![u] = @ \cup {n}]
    /\ penalties' = IF u \in DOMAIN penalties THEN penalties
                    ELSE Put(penalties, u, [name |-> n, fields |-> NoPenalty])
    /\ UNCHANGED teamVars

(* An empty mask and "*" ask for all three fields, which must be there. *)
Selected(mask) == IF mask \in {{}, Everything} THEN PenaltyField ELSE mask

(* "read and bind caller penalty document before updating"; the first      *)
(* update after a restart binds its own name.                              *)
Bound(u, n) ==
    u \in DOMAIN penalties => penalties[u].name = n \/ n \in penaltyAliases[u]

Stored(u) == IF u \in DOMAIN penalties THEN penalties[u].fields ELSE NoPenalty

UpdatePenalty(u, n, fields, mask) ==
    /\ \A f \in Selected(mask) : fields[f] # None
    /\ \A f \in PenaltyField : fields[f] # None => fields[f] >= 0
    /\ Bound(u, n)
    /\ penalties' = Put(penalties, u,
          [name |-> n,
           fields |-> [f \in PenaltyField |->
                         IF f \in Selected(mask) THEN fields[f] ELSE Stored(u)[f]]])
    /\ UNCHANGED <<teamVars, penaltyAliases>>

-----------------------------------------------------------------------------
(* CommitDocuments: one update or one delete, no rule context. *)
CommitDocuments(u, r) ==
    /\ Len(r.writes) = 1 /\ ~ r.ruled
    /\ LET w == r.writes[1] IN
       \/ /\ "delete" \in DOMAIN w /\ w.delete \in Slot
          /\ DeleteTeam(u, w.delete)
       \/ /\ "update" \in DOMAIN w /\ w.update.name \in Slot
          /\ UpdateTeam(u, w.update.name, w.update.fields, w.mask)
       \/ /\ "update" \in DOMAIN w /\ w.update.name \in PenaltyName /\ w.current = None
          /\ UpdatePenalty(u, w.update.name, w.update.fields, w.mask)

GetDocument(u, n) == n \in PenaltyName /\ GetPenalty(u, n)

(* The process starts again. *)
Restart ==
    /\ rentalDocuments' = Nothing /\ rentalOwners' = Nothing /\ rentalAliases' = Nothing
    /\ nextRentalAlias' = 0
    /\ penalties' = Nothing
    /\ penaltyAliases' = [u \in Caller |-> {}]

UgcNext ==
    \/ \E u \in Caller, r \in Commits : CommitDocuments(u, r)
    \/ \E u \in Caller, r \in AliasRequests : CreateDocumentShortAlias(u, r)
    \/ \E u \in Caller, n \in PenaltyName : GetDocument(u, n)
    \/ Restart

UgcSpec == UgcInit /\ [][UgcNext]_ugcVars

-----------------------------------------------------------------------------
(* A download code always finds a team that somebody owns and can be       *)
(* downloaded, and a team's owner is known exactly while it is published.  *)
(* (Three maps, changed by four operations.)                               *)
CodesNameTeams ==
    /\ DOMAIN rentalOwners = Published
    /\ \A c \in DOMAIN rentalAliases :
          LET s == AliasAnswer(c).found.document
          IN  s \in Published /\ TeamAnswer(s).found.fields.binary # None

(* A code given out for a team leads there until the team is deleted: no   *)
(* later code, chosen or counted, takes it over, and nobody but the team's *)
(* owner can end it.                                                       *)
CodesAreKept ==
    [][/\ \A c \in DOMAIN rentalAliases :
            \/ c \in DOMAIN rentalAliases' /\ rentalAliases'[c] = rentalAliases[c]
            \/ rentalAliases[c] \notin DOMAIN rentalDocuments'
       /\ \A s \in Published \cap DOMAIN rentalDocuments' : rentalOwners'[s] = rentalOwners[s]]_ugcVars
=============================================================================
