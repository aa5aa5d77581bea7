------------------------- MODULE TitleServicesProofs -------------------------
(***************************************************************************)
(* The services of the process that keep state apart from rooms, Gamesync  *)
(* documents and ranked results, each with its own invariant, for any      *)
(* values of the constants.                                                *)
(***************************************************************************)
EXTENDS TitleServices, SequenceLemmas

-----------------------------------------------------------------------------
(* Rental teams                                                            *)
(*                                                                         *)
(* Download codes and rental teams, for any callers, slots, codes and      *)
(* requests, and any number of restarts.  The invariant ties the three     *)
(* maps of the store together: owners to documents, codes to documents,    *)
(* and documents to something that can be downloaded.                      *)

UgcInv ==
    /\ DOMAIN rentalOwners = DOMAIN rentalDocuments
    /\ \A s \in DOMAIN rentalDocuments :
          rentalDocuments[s] \in TeamFields /\ rentalDocuments[s].binary # None
    /\ \A c \in DOMAIN rentalAliases : rentalAliases[c] \in DOMAIN rentalDocuments

LEMMA NothingFacts == DOMAIN Nothing = {}
  BY DEF Nothing

-----------------------------------------------------------------------------
LEMMA UgcInvInit == UgcInit => UgcInv
  BY NothingFacts DEF UgcInit, UgcInv

LEMMA DeleteInv ==
    ASSUME UgcInv, NEW u \in Caller, NEW s \in Slot, DeleteTeam(u, s) PROVE UgcInv'
<1>1. /\ rentalDocuments' = Drop(rentalDocuments, {s})
      /\ rentalOwners' = Drop(rentalOwners, {s})
      /\ rentalAliases' = Drop(rentalAliases, CodesOf(s))
  BY DEF DeleteTeam
<1>2. /\ DOMAIN rentalOwners' = DOMAIN rentalDocuments'
      /\ \A t \in DOMAIN rentalDocuments' :
            t \in DOMAIN rentalDocuments /\ rentalDocuments'[t] = rentalDocuments[t]
  BY <1>1 DEF UgcInv, Drop
<1>3. ASSUME NEW c \in DOMAIN rentalAliases'
      PROVE  rentalAliases'[c] \in DOMAIN rentalDocuments'
  <2>1. /\ c \in DOMAIN rentalAliases /\ c \notin CodesOf(s)
        /\ rentalAliases'[c] = rentalAliases[c]
    BY <1>1 DEF Drop
  <2>2. rentalAliases[c] # s
    BY <2>1 DEF CodesOf
  <2> QED BY <1>1, <2>1, <2>2 DEF UgcInv, Drop
<1> QED BY <1>2, <1>3 DEF UgcInv

(* What an update stores is a team that can be downloaded. *)
LEMMA WrittenFacts ==
    ASSUME UgcInv, NEW s \in Slot, NEW fields \in TeamFields, NEW mask,
           Publishes(fields, mask) \/ Patches(s, fields, mask)
    PROVE  /\ TeamWritten(s, fields, mask) \in TeamFields
           /\ TeamWritten(s, fields, mask).binary # None
<1>1. CASE mask = Everything
  <2>1. fields.binary # None
    <3>1. Everything # {"code"}
      BY DEF Everything
    <3> QED BY <1>1, <3>1 DEF Publishes, Patches
  <2> QED BY <1>1, <2>1 DEF TeamWritten
<1>2. CASE mask # Everything
  <2>1. s \in DOMAIN rentalDocuments
    BY <1>2 DEF Publishes, Patches, Published
  <2>2. rentalDocuments[s] \in TeamFields /\ rentalDocuments[s].binary # None
    BY <2>1 DEF UgcInv
  <2> QED BY <1>2, <2>2 DEF TeamWritten, TeamFields
<1> QED BY <1>1, <1>2

LEMMA UpdateInv ==
    ASSUME UgcInv, NEW u \in Caller, NEW s \in Slot, NEW fields \in TeamFields, NEW mask,
           UpdateTeam(u, s, fields, mask)
    PROVE  UgcInv'
<1>1. /\ rentalDocuments' = Put(rentalDocuments, s, TeamWritten(s, fields, mask))
      /\ rentalOwners' = Put(rentalOwners, s, u)
      /\ rentalAliases' = rentalAliases
      /\ Publishes(fields, mask) \/ Patches(s, fields, mask)
  BY DEF UpdateTeam
<1>2. /\ TeamWritten(s, fields, mask) \in TeamFields
      /\ TeamWritten(s, fields, mask).binary # None
  BY <1>1, WrittenFacts
<1>3. DOMAIN rentalDocuments' = DOMAIN rentalDocuments \cup {s}
  BY <1>1 DEF Put
<1>4. DOMAIN rentalOwners' = DOMAIN rentalDocuments'
  BY <1>1, <1>3 DEF UgcInv, Put
<1>5. ASSUME NEW t \in DOMAIN rentalDocuments'
      PROVE  rentalDocuments'[t] \in TeamFields /\ rentalDocuments'[t].binary # None
  <2>1. CASE t = s
    BY <1>1, <1>2, <2>1 DEF Put
  <2>2. CASE t # s
    <3>1. t \in DOMAIN rentalDocuments /\ rentalDocuments'[t] = rentalDocuments[t]
      BY <1>1, <1>3, <2>2 DEF Put
    <3> QED BY <3>1 DEF UgcInv
  <2> QED BY <2>1, <2>2
<1> QED BY <1>1, <1>3, <1>4, <1>5 DEF UgcInv

(* A new code names a published team and is put beside the others. *)
LEMMA AliasCreated ==
    ASSUME NEW u \in Caller, NEW r \in AliasRequests, CreateDocumentShortAlias(u, r)
    PROVE  /\ UNCHANGED <<rentalDocuments, rentalOwners>>
           /\ r.document \in DOMAIN rentalDocuments
           /\ \E c : c \notin DOMAIN rentalAliases
                     /\ rentalAliases' = Put(rentalAliases, c, r.document)
<1>1. UNCHANGED <<rentalDocuments, rentalOwners>> /\ r.document \in DOMAIN rentalDocuments
  BY DEF CreateDocumentShortAlias, Published
<1>2. CASE /\ r.name # None /\ r.name \notin DOMAIN rentalAliases
           /\ rentalAliases' = Put(rentalAliases, r.name, r.document)
  BY <1>1, <1>2
<1>3. ASSUME NEW n \in 1..MaxCodes, Fresh(n),
             rentalAliases' = Put(rentalAliases, CodeNumber[n], r.document)
      PROVE  \E c : c \notin DOMAIN rentalAliases
                    /\ rentalAliases' = Put(rentalAliases, c, r.document)
  BY <1>3 DEF Fresh
<1> QED BY <1>1, <1>2, <1>3 DEF CreateDocumentShortAlias

LEMMA AliasInv ==
    ASSUME UgcInv, NEW u \in Caller, NEW r \in AliasRequests, CreateDocumentShortAlias(u, r)
    PROVE  UgcInv'
<1>1. PICK c : c \notin DOMAIN rentalAliases
               /\ rentalAliases' = Put(rentalAliases, c, r.document)
  BY AliasCreated
<1>2. UNCHANGED <<rentalDocuments, rentalOwners>> /\ r.document \in DOMAIN rentalDocuments
  BY AliasCreated
<1>3. \A d \in DOMAIN rentalAliases' : rentalAliases'[d] \in DOMAIN rentalDocuments'
  BY <1>1, <1>2 DEF UgcInv, Put
<1> QED BY <1>2, <1>3 DEF UgcInv

(* What a commit comes down to: one write to a team, or to a penalty.      *)
LEMMA CommitCases ==
    ASSUME NEW u \in Caller, NEW r \in Commits, CommitDocuments(u, r)
    PROVE  \/ \E s \in Slot : DeleteTeam(u, s)
           \/ \E s \in Slot, fields \in TeamFields, mask \in UpdateMask :
                 UpdateTeam(u, s, fields, mask)
           \/ \E n \in PenaltyName, fields \in PenaltyFields, mask \in UpdateMask :
                 UpdatePenalty(u, n, fields, mask)
<1> DEFINE w == r.writes[1]
<1>1. CASE "delete" \in DOMAIN w /\ w.delete \in Slot /\ DeleteTeam(u, w.delete)
  BY <1>1
<1>2. r.writes \in Seq(WriteOperation) /\ Len(r.writes) = 1
  BY UgcRequestAssumption DEF CommitDocuments, CommitDocumentsRequest
<1>3. w \in WriteOperation
  BY <1>2
<1>4. ASSUME "update" \in DOMAIN w
      PROVE  /\ w.mask \in UpdateMask
             /\ w.update.name \in Slot => w.update.fields \in TeamFields
             /\ w.update.name \in PenaltyName => w.update.fields \in PenaltyFields
  <2>1. w \in UpdateDocumentRequest
    BY <1>3, <1>4 DEF WriteOperation, UpdateDocumentRequest, DeleteDocumentRequest,
          TransformDocumentRequest, SetAttachmentRequest, UnsetAttachmentRequest,
          ImportAttachmentRequest
  <2>2. w.update \in Document /\ w.mask \in UpdateMask
    BY <2>1 DEF UpdateDocumentRequest
  <2> QED BY <2>2, UgcNameAssumption DEF Document
<1> HIDE DEF w
<1>5. CASE /\ "update" \in DOMAIN w /\ w.update.name \in Slot
           /\ UpdateTeam(u, w.update.name, w.update.fields, w.mask)
  BY <1>4, <1>5
<1>6. CASE /\ "update" \in DOMAIN w /\ w.update.name \in PenaltyName /\ w.current = None
           /\ UpdatePenalty(u, w.update.name, w.update.fields, w.mask)
  BY <1>4, <1>6
<1> QED BY <1>1, <1>5, <1>6 DEF CommitDocuments, w

LEMMA UgcInvStep == UgcInv /\ [UgcNext]_ugcVars => UgcInv'
<1> SUFFICES ASSUME UgcInv, [UgcNext]_ugcVars PROVE UgcInv'
  OBVIOUS
<1>1. ASSUME UNCHANGED teamVars PROVE UgcInv'
  BY <1>1 DEF UgcInv, teamVars
<1>2. CASE UNCHANGED ugcVars
  BY <1>1, <1>2 DEF ugcVars
<1>3. ASSUME NEW u \in Caller, NEW r \in Commits, CommitDocuments(u, r) PROVE UgcInv'
  BY <1>1, <1>3, CommitCases, DeleteInv, UpdateInv DEF UpdatePenalty
<1>4. ASSUME NEW u \in Caller, NEW r \in AliasRequests, CreateDocumentShortAlias(u, r)
      PROVE  UgcInv'
  BY <1>4, AliasInv
<1>5. ASSUME NEW u \in Caller, NEW n \in PenaltyName, GetDocument(u, n) PROVE UgcInv'
  BY <1>1, <1>5 DEF GetDocument, GetPenalty
<1>6. CASE Restart
  BY <1>6, NothingFacts DEF Restart, UgcInv
<1> QED BY <1>2, <1>3, <1>4, <1>5, <1>6 DEF UgcNext

-----------------------------------------------------------------------------
(* Through any commits, codes and restarts the three maps of the store     *)
(* (src/ugcstore_violet.go) fit together.                                  *)
THEOREM StoreInvariant == UgcSpec => []UgcInv
  BY UgcInvInit, UgcInvStep, PTL DEF UgcSpec

(* A download code always finds a published team with something in it. *)
THEOREM TeamCodesTheorem == UgcSpec => []CodesNameTeams
<1>1. UgcInv => CodesNameTeams
  <2> SUFFICES ASSUME UgcInv, NEW c \in DOMAIN rentalAliases
               PROVE  LET s == AliasAnswer(c).found.document
                      IN  s \in Published /\ TeamAnswer(s).found.fields.binary # None
    BY DEF CodesNameTeams, UgcInv, Published
  <2>1. AliasAnswer(c).found.document = rentalAliases[c]
    BY DEF AliasAnswer
  <2>2. rentalAliases[c] \in Published
    BY DEF UgcInv, Published
  <2>3. TeamAnswer(rentalAliases[c]).found.fields = rentalDocuments[rentalAliases[c]]
    BY <2>2 DEF TeamAnswer
  <2> QED BY <2>1, <2>2, <2>3 DEF UgcInv, Published
<1> QED BY <1>1, StoreInvariant, PTL

(* No step but the deletion of its team ends a code or redirects it, and   *)
(* no step hands a team to somebody else.                                  *)
THEOREM CodesKeptTheorem == UgcSpec => CodesAreKept
<1> DEFINE Kept ==
      /\ \A c \in DOMAIN rentalAliases :
            \/ c \in DOMAIN rentalAliases' /\ rentalAliases'[c] = rentalAliases[c]
            \/ rentalAliases[c] \notin DOMAIN rentalDocuments'
      /\ \A s \in Published \cap DOMAIN rentalDocuments' : rentalOwners'[s] = rentalOwners[s]
<1>1. UgcInv /\ [UgcNext]_ugcVars => [Kept]_ugcVars
  <2> SUFFICES ASSUME UgcInv, UgcNext PROVE Kept
    OBVIOUS
  <2>1. ASSUME UNCHANGED teamVars PROVE Kept
    BY <2>1 DEF teamVars
  <2>2. ASSUME NEW u \in Caller, NEW s \in Slot, DeleteTeam(u, s) PROVE Kept
    BY <2>2 DEF DeleteTeam, CodesOf, Drop, Published, UgcInv
  <2>3. ASSUME NEW u \in Caller, NEW s \in Slot, NEW fields \in TeamFields,
               NEW mask \in UpdateMask, UpdateTeam(u, s, fields, mask)
        PROVE  Kept
    BY <2>3 DEF UpdateTeam, MayWrite, Put, Published, UgcInv
  <2>4. ASSUME NEW u \in Caller, NEW r \in Commits, CommitDocuments(u, r) PROVE Kept
    BY <2>1, <2>2, <2>3, <2>4, CommitCases DEF UpdatePenalty
  <2>5. ASSUME NEW u \in Caller, NEW r \in AliasRequests, CreateDocumentShortAlias(u, r)
        PROVE  Kept
    BY <2>5, AliasCreated DEF Put
  <2>6. ASSUME NEW u \in Caller, NEW n \in PenaltyName, GetDocument(u, n) PROVE Kept
    BY <2>1, <2>6 DEF GetDocument, GetPenalty
  <2>7. CASE Restart
    BY <2>7, NothingFacts DEF Restart, Published
  <2> QED BY <2>4, <2>5, <2>6, <2>7 DEF UgcNext
<1> QED BY <1>1, StoreInvariant, PTL DEF UgcSpec, CodesAreKept

(* The types, for a penalty that is stored under a name of its own. *)
UgcTypes ==
    /\ DOMAIN rentalDocuments \subseteq Slot
    /\ \A s \in DOMAIN rentalOwners : s \in Slot /\ rentalOwners[s] \in Caller
    /\ \A c \in DOMAIN rentalAliases : c \in Code /\ rentalAliases[c] \in Slot
    /\ nextRentalAlias \in 0..MaxCodes
    /\ \A u \in DOMAIN penalties :
          /\ u \in Caller
          /\ penalties[u] \in [name : PenaltyName, fields : PenaltyFields]
    /\ penaltyAliases \in [Caller -> SUBSET PenaltyName]

LEMMA UgcTypesInit == UgcInit => UgcTypes
  BY NothingFacts, UgcRequestAssumption DEF UgcInit, UgcTypes

LEMMA TeamTypes ==
    ASSUME UgcTypes, NEW u \in Caller, NEW s \in Slot,
           \/ DeleteTeam(u, s)
           \/ \E fields \in TeamFields, mask \in UpdateMask : UpdateTeam(u, s, fields, mask)
    PROVE  UgcTypes'
<1>1. UNCHANGED <<nextRentalAlias, penalties, penaltyAliases>>
  BY DEF DeleteTeam, UpdateTeam, penaltyVars
<1>2. DOMAIN rentalDocuments' \subseteq Slot
  BY DEF UgcTypes, DeleteTeam, UpdateTeam, Drop, Put
<1>3. \A t \in DOMAIN rentalOwners' : t \in Slot /\ rentalOwners'[t] \in Caller
  BY DEF UgcTypes, DeleteTeam, UpdateTeam, Drop, Put
<1>4. \A c \in DOMAIN rentalAliases' : c \in Code /\ rentalAliases'[c] \in Slot
  BY DEF UgcTypes, DeleteTeam, UpdateTeam, Drop
<1> QED BY <1>1, <1>2, <1>3, <1>4 DEF UgcTypes

LEMMA AliasTypes ==
    ASSUME UgcTypes, NEW u \in Caller, NEW r \in AliasRequests, CreateDocumentShortAlias(u, r)
    PROVE  UgcTypes'
<1>1. UNCHANGED <<rentalDocuments, rentalOwners, penalties, penaltyAliases>>
  BY DEF CreateDocumentShortAlias, penaltyVars
<1>2. r.document \in Slot /\ r.name \in Code \cup {None}
  BY UgcRequestAssumption DEF CreateDocumentShortAliasRequest
<1>3. /\ nextRentalAlias' \in 0..MaxCodes
      /\ \E c \in Code : rentalAliases' = Put(rentalAliases, c, r.document)
  <2>1. CASE /\ r.name # None /\ r.name \notin DOMAIN rentalAliases
             /\ rentalAliases' = Put(rentalAliases, r.name, r.document)
             /\ UNCHANGED nextRentalAlias
    BY <1>2, <2>1 DEF UgcTypes
  <2>2. ASSUME NEW n \in 1..MaxCodes, nextRentalAlias' = n,
               rentalAliases' = Put(rentalAliases, CodeNumber[n], r.document)
        PROVE  /\ nextRentalAlias' \in 0..MaxCodes
               /\ \E c \in Code : rentalAliases' = Put(rentalAliases, c, r.document)
    BY <2>2, UgcRequestAssumption
  <2> QED BY <2>1, <2>2 DEF CreateDocumentShortAlias
<1>4. \A c \in DOMAIN rentalAliases' : c \in Code /\ rentalAliases'[c] \in Slot
  BY <1>2, <1>3 DEF UgcTypes, Put
<1> QED BY <1>1, <1>3, <1>4 DEF UgcTypes

LEMMA PenaltyTypes ==
    ASSUME UgcTypes, NEW u \in Caller, NEW n \in PenaltyName,
           \/ GetPenalty(u, n)
           \/ \E fields \in PenaltyFields, mask \in UpdateMask : UpdatePenalty(u, n, fields, mask)
    PROVE  UgcTypes'
<1>1. UNCHANGED teamVars /\ penaltyAliases' \in [Caller -> SUBSET PenaltyName]
  <2>1. CASE GetPenalty(u, n)
    <3>1. UNCHANGED teamVars /\ penaltyAliases' = [penaltyAliases EXCEPT ![u] = @ \cup {n}]
      BY <2>1 DEF GetPenalty
    <3>2. penaltyAliases \in [Caller -> SUBSET PenaltyName]
      BY DEF UgcTypes
    <3> QED BY <3>1, <3>2
  <2>2. ASSUME NEW fields, NEW mask, UpdatePenalty(u, n, fields, mask)
        PROVE  UNCHANGED teamVars /\ penaltyAliases' \in [Caller -> SUBSET PenaltyName]
    BY <2>2 DEF UpdatePenalty, UgcTypes
  <2> QED BY <2>1, <2>2
<1>2. NoPenalty \in PenaltyFields
  BY DEF NoPenalty, PenaltyFields
<1>3. Stored(u) \in PenaltyFields
  BY <1>2 DEF Stored, UgcTypes
<1>4. \/ penalties' = penalties
      \/ \E fields \in PenaltyFields : penalties' = Put(penalties, u, [name |-> n, fields |-> fields])
  <2>1. CASE GetPenalty(u, n)
    BY <1>2, <2>1 DEF GetPenalty
  <2>2. ASSUME NEW fields \in PenaltyFields, NEW mask \in UpdateMask,
               UpdatePenalty(u, n, fields, mask)
        PROVE  \E f \in PenaltyFields : penalties' = Put(penalties, u, [name |-> n, fields |-> f])
    <3> DEFINE written == [f \in PenaltyField |->
                             IF f \in Selected(mask) THEN fields[f] ELSE Stored(u)[f]]
    <3>1. penalties' = Put(penalties, u, [name |-> n, fields |-> written])
      BY <2>2 DEF UpdatePenalty
    <3>2. written \in PenaltyFields
      BY <1>3 DEF PenaltyFields
    <3> QED BY <3>1, <3>2
  <2> QED BY <2>1, <2>2
<1>5. ASSUME NEW v \in DOMAIN penalties'
      PROVE  /\ v \in Caller
             /\ penalties'[v] \in [name : PenaltyName, fields : PenaltyFields]
  BY <1>4 DEF UgcTypes, Put
<1> QED BY <1>1, <1>5 DEF UgcTypes, teamVars

LEMMA UgcTypesStep == UgcTypes /\ [UgcNext]_ugcVars => UgcTypes'
<1> SUFFICES ASSUME UgcTypes, [UgcNext]_ugcVars PROVE UgcTypes'
  OBVIOUS
<1>1. CASE UNCHANGED ugcVars
  BY <1>1 DEF UgcTypes, ugcVars, teamVars, penaltyVars
<1>2. ASSUME NEW u \in Caller, NEW r \in Commits, CommitDocuments(u, r) PROVE UgcTypes'
  BY <1>2, CommitCases, TeamTypes, PenaltyTypes
<1>3. ASSUME NEW u \in Caller, NEW r \in AliasRequests, CreateDocumentShortAlias(u, r)
      PROVE  UgcTypes'
  BY <1>3, AliasTypes
<1>4. ASSUME NEW u \in Caller, NEW n \in PenaltyName, GetDocument(u, n) PROVE UgcTypes'
  BY <1>4, PenaltyTypes DEF GetDocument
<1>5. CASE Restart
  BY <1>5, NothingFacts, UgcRequestAssumption DEF Restart, UgcTypes
<1> QED BY <1>1, <1>2, <1>3, <1>4, <1>5 DEF UgcNext

(* Documents, owners, codes and penalties are of their types, whatever     *)
(* clients ask for (src/ugcstore_violet.go).                               *)
THEOREM StoreTypesTheorem == UgcSpec => []UgcTypeOK
<1>1. UgcInv /\ UgcTypes => UgcTypeOK
  <2> SUFFICES ASSUME UgcInv, UgcTypes PROVE UgcTypeOK
    OBVIOUS
  <2>1. \A c \in DOMAIN rentalAliases :
           [name |-> c, document |-> rentalAliases[c]] \in DocumentShortAlias
    BY DEF UgcTypes, DocumentShortAlias
  <2>2. \A u \in DOMAIN penalties : u \in Caller /\ penalties[u] \in Document
    BY DEF UgcTypes, Document
  <2>3. \A s \in DOMAIN rentalDocuments : rentalDocuments[s] \in TeamFields
    BY DEF UgcInv
  <2> QED BY <2>1, <2>2, <2>3 DEF UgcTypes, UgcTypeOK
<1>2. UgcSpec => []UgcTypes
  BY UgcTypesInit, UgcTypesStep, PTL DEF UgcSpec
<1> QED BY <1>1, <1>2, StoreInvariant, PTL

-----------------------------------------------------------------------------
(* Union Circle codes                                                      *)
(*                                                                         *)
(* A code finds its room for the whole hour, for any rooms, players and    *)
(* coinciding codes.  The invariant: the entry of a code is the promise    *)
(* last made under it, and only promises that nobody can claim any more    *)
(* were forgotten.                                                         *)

CircleTypes ==
    /\ clock \in 0..MaxTime
    /\ promised \in [RoomName -> Int]
    /\ DOMAIN circles \subseteq RoomName
    /\ \A n \in DOMAIN circles : circles[n] \in Circle

(* An entry is filed under the code of its room, and is its last promise. *)
EntriesArePromises ==
    \A c \in DOMAIN codes :
        /\ codes[c] \in GameSessionShortAlias /\ codes[c].name = c
        /\ codes[c].session \in DOMAIN circles
        /\ RoomCodeOf[codes[c].session] = c
        /\ codes[c].expires = promised[codes[c].session]

(* A promise that can still be claimed has its entry. *)
PromisesAreKept ==
    \A n \in RoomName :
        /\ promised[n] >= 0 => n \in DOMAIN circles
        /\ promised[n] >= clock /\ n \in DOMAIN circles /\ circles[n].active
           => RoomCodeOf[n] \in DOMAIN codes /\ codes[RoomCodeOf[n]].session = n

CircleInv == CircleTypes /\ EntriesArePromises /\ PromisesAreKept

-----------------------------------------------------------------------------
LEMMA CircleInvInit == CircleInit => CircleInv
  BY CircleAssumption DEF CircleInit, CircleInv, CircleTypes, EntriesArePromises, PromisesAreKept

LEMMA CreateInv ==
    ASSUME CircleInv, NEW n \in RoomName, NEW u \in Person,
           CreateGameSessionShortAlias(u, [session |-> n])
    PROVE  CircleInv'
<1> DEFINE c == RoomCodeOf[n]
<1>1. /\ n \in DOMAIN circles
      /\ codes' = [d \in DOMAIN codes \cup {c} |-> IF d = c THEN Alias(n) ELSE codes[d]]
      /\ promised' = [m \in RoomName |-> IF m = n THEN clock + Hour
                                         ELSE IF RoomCodeOf[m] = c THEN -1 ELSE promised[m]]
      /\ circles' = circles /\ clock' = clock
  BY DEF CreateGameSessionShortAlias
<1>2. /\ clock + Hour \in Nat /\ clock \in Nat /\ c \in RoomCode
      /\ Alias(n) \in GameSessionShortAlias
      /\ Alias(n).name = c /\ Alias(n).session = n /\ Alias(n).expires = clock + Hour
  BY CircleAssumption DEF CircleInv, CircleTypes, Alias, GameSessionShortAlias
<1>3. CircleTypes'
  BY <1>1, <1>2 DEF CircleInv, CircleTypes
<1>4. ASSUME NEW d \in DOMAIN codes'
      PROVE  /\ codes'[d] \in GameSessionShortAlias /\ codes'[d].name = d
             /\ codes'[d].session \in DOMAIN circles'
             /\ RoomCodeOf[codes'[d].session] = d
             /\ codes'[d].expires = promised'[codes'[d].session]
  <2>1. CASE d = c
    BY <1>1, <1>2, <2>1
  <2>2. CASE d # c
    <3>1. d \in DOMAIN codes /\ codes'[d] = codes[d]
      BY <1>1, <2>2
    <3>2. /\ codes[d] \in GameSessionShortAlias /\ codes[d].name = d
          /\ codes[d].session \in DOMAIN circles
          /\ RoomCodeOf[codes[d].session] = d
          /\ codes[d].expires = promised[codes[d].session]
      BY <3>1 DEF CircleInv, EntriesArePromises
    <3>3. codes[d].session \in RoomName /\ codes[d].session # n
      BY <2>2, <3>2 DEF GameSessionShortAlias
    <3> QED BY <1>1, <2>2, <3>1, <3>2, <3>3
  <2> QED BY <2>1, <2>2
<1>5. ASSUME NEW m \in RoomName
      PROVE  /\ promised'[m] >= 0 => m \in DOMAIN circles'
             /\ promised'[m] >= clock' /\ m \in DOMAIN circles' /\ circles'[m].active
                => RoomCodeOf[m] \in DOMAIN codes' /\ codes'[RoomCodeOf[m]].session = m
  <2>1. CASE m = n
    BY <1>1, <1>2, <2>1
  <2>2. CASE m # n /\ RoomCodeOf[m] = c
    BY <1>1, <1>2, <2>2
  <2>3. CASE m # n /\ RoomCodeOf[m] # c
    <3>1. promised'[m] = promised[m]
      BY <1>1, <2>3
    <3> QED BY <1>1, <2>3, <3>1 DEF CircleInv, PromisesAreKept
  <2> QED BY <2>1, <2>2, <2>3
<1> QED BY <1>3, <1>4, <1>5 DEF CircleInv, EntriesArePromises, PromisesAreKept

(* A code that is forgotten leads nowhere any more. *)
LEMMA GetInv ==
    ASSUME CircleInv, NEW c \in RoomCode, GetGameSessionShortAlias([name |-> c])
    PROVE  CircleInv'
<1>1. /\ c \in DOMAIN codes /\ ~ Leads(c)
      /\ codes' = [d \in DOMAIN codes \ {c} |-> codes[d]]
      /\ UNCHANGED <<circles, clock, promised>>
  BY DEF GetGameSessionShortAlias
<1>2. CircleTypes' /\ EntriesArePromises'
  BY <1>1 DEF CircleInv, CircleTypes, EntriesArePromises
<1>3. ASSUME NEW n \in RoomName, promised[n] >= clock, n \in DOMAIN circles, circles[n].active
      PROVE  RoomCodeOf[n] \in DOMAIN codes' /\ codes'[RoomCodeOf[n]].session = n
  <2>1. RoomCodeOf[n] \in DOMAIN codes /\ codes[RoomCodeOf[n]].session = n
    BY <1>3 DEF CircleInv, PromisesAreKept
  <2>2. codes[RoomCodeOf[n]].expires = promised[n]
    BY <2>1 DEF CircleInv, EntriesArePromises
  <2>3. RoomCodeOf[n] # c
    BY <1>1, <1>3, <2>1, <2>2 DEF Leads
  <2> QED BY <1>1, <2>1, <2>3
<1>4. PromisesAreKept'
  BY <1>1, <1>3 DEF CircleInv, PromisesAreKept
<1> QED BY <1>2, <1>4 DEF CircleInv

(* No step but a founding gives a room, and none revives one that ended,   *)
(* so no promise can be claimed that could not be before.                  *)
LEMMA RoomsChanged ==
    ASSUME CircleInv, DOMAIN circles \subseteq DOMAIN circles', DOMAIN circles' \subseteq RoomName,
           \A m \in DOMAIN circles' : circles'[m] \in Circle,
           \A m \in DOMAIN circles : circles'[m].active => circles[m].active,
           UNCHANGED <<codes, clock, promised>>
    PROVE  CircleInv'
<1>1. CircleTypes' /\ EntriesArePromises'
  BY DEF CircleInv, CircleTypes, EntriesArePromises
<1>2. ASSUME NEW m \in RoomName, promised[m] >= clock, m \in DOMAIN circles', circles'[m].active
      PROVE  RoomCodeOf[m] \in DOMAIN codes /\ codes[RoomCodeOf[m]].session = m
  <2>1. promised[m] >= 0
    BY <1>2 DEF CircleInv, CircleTypes
  <2>2. m \in DOMAIN circles /\ circles[m].active
    BY <1>2, <2>1 DEF CircleInv, PromisesAreKept
  <2> QED BY <1>2, <2>2 DEF CircleInv, PromisesAreKept
<1>3. PromisesAreKept'
  BY <1>2 DEF CircleInv, PromisesAreKept
<1> QED BY <1>1, <1>3 DEF CircleInv

LEMMA FoundInv ==
    ASSUME CircleInv, NEW n \in RoomName, NEW u \in Person, NEW own \in SUBSET {u},
           Found(n, u, own)
    PROVE  CircleInv'
<1> DEFINE z == [players |-> {u}, owners |-> own, active |-> TRUE]
<1>1. /\ n \notin DOMAIN circles /\ UNCHANGED <<codes, clock, promised>>
      /\ DOMAIN circles' = DOMAIN circles \cup {n} /\ circles'[n] = z
      /\ \A m \in DOMAIN circles : circles'[m] = circles[m]
  BY DEF Found
<1>2. z \in Circle
  BY DEF Circle
<1> HIDE DEF z
<1>3. \A m \in DOMAIN circles' : circles'[m] \in Circle
  BY <1>1, <1>2 DEF CircleInv, CircleTypes
<1> QED BY <1>1, <1>3, RoomsChanged DEF CircleInv, CircleTypes

(* Entering and leaving a room, for what they have in common. *)
LEMMA RoomKept ==
    ASSUME CircleInv, NEW n \in DOMAIN circles, NEW z \in Circle, z.active => circles[n].active,
           circles' = [circles EXCEPT ![n] = z], UNCHANGED <<codes, clock, promised>>
    PROVE  CircleInv'
  BY RoomsChanged DEF CircleInv, CircleTypes

LEMMA EnterInv ==
    ASSUME CircleInv, NEW n \in RoomName, NEW u \in Person, NEW own \in SUBSET {u},
           Enter(n, u, own)
    PROVE  CircleInv'
<1> DEFINE z == [circles[n] EXCEPT !.players = @ \cup {u}, !.owners = @ \cup own]
<1>1. n \in DOMAIN circles /\ circles[n] \in Circle /\ UNCHANGED <<codes, clock, promised>>
  BY DEF Enter, CircleInv, CircleTypes
<1>2. z \in Circle /\ z.active = circles[n].active
  BY <1>1 DEF Circle
<1>3. circles' = [circles EXCEPT ![n] = z]
  BY <1>1 DEF Enter, Circle
<1> HIDE DEF z
<1> QED BY <1>1, <1>2, <1>3, RoomKept

LEMMA LeaveInv ==
    ASSUME CircleInv, NEW n \in RoomName, NEW u \in Person, Leave(n, u) PROVE CircleInv'
<1> DEFINE r == circles[n]
           z == [r EXCEPT !.players = @ \ {u}, !.owners = @ \ {u},
                          !.active = @ /\ r.players # {u} /\ ~ (n \in Raids /\ u \in r.owners)]
<1>1. n \in DOMAIN circles /\ r \in Circle /\ UNCHANGED <<codes, clock, promised>>
  BY DEF Leave, CircleInv, CircleTypes
<1>2. z \in Circle /\ (z.active => r.active)
  BY <1>1 DEF Circle
<1>3. circles' = [circles EXCEPT ![n] = z]
  BY <1>1 DEF Leave, Circle
<1> HIDE DEF z
<1> QED BY <1>1, <1>2, <1>3, RoomKept

LEMMA CircleInvStep == CircleInv /\ [CircleNext]_circleVars => CircleInv'
<1> SUFFICES ASSUME CircleInv, [CircleNext]_circleVars PROVE CircleInv'
  OBVIOUS
<1>1. CASE UNCHANGED circleVars
  BY <1>1 DEF circleVars, CircleInv, CircleTypes, EntriesArePromises, PromisesAreKept
<1>2. ASSUME NEW n \in RoomName, NEW u \in Person,
             \/ \E own \in SUBSET {u} : Found(n, u, own) \/ Enter(n, u, own)
             \/ Leave(n, u)
             \/ CreateGameSessionShortAlias(u, [session |-> n])
      PROVE  CircleInv'
  BY <1>2, FoundInv, EnterInv, LeaveInv, CreateInv
<1>3. ASSUME NEW c \in RoomCode, GetGameSessionShortAlias([name |-> c]) PROVE CircleInv'
  BY <1>3, GetInv
<1>4. CASE Tick
  <2>1. /\ clock \in 0..MaxTime /\ clock < MaxTime /\ clock' = clock + 1
        /\ circles' = circles /\ codes' = codes /\ promised' = promised
    BY <1>4 DEF Tick, CircleInv, CircleTypes
  <2>2. clock' \in 0..MaxTime
    BY <2>1, CircleAssumption
  <2>3. CircleTypes' /\ EntriesArePromises'
    BY <2>1, <2>2 DEF CircleInv, CircleTypes, EntriesArePromises
  <2>4. \A n \in RoomName : promised[n] \in Int /\ (promised[n] >= clock' => promised[n] >= clock)
    BY <2>1 DEF CircleInv, CircleTypes
  <2>5. PromisesAreKept'
    BY <2>1, <2>4 DEF CircleInv, PromisesAreKept
  <2> QED BY <2>3, <2>5 DEF CircleInv
<1> QED BY <1>1, <1>2, <1>3, <1>4 DEF CircleNext

-----------------------------------------------------------------------------
(* Whoever comes, goes, asks and looks (src/session_alias.go), an entry is *)
(* the last promise under its code.                                        *)
THEOREM CircleInvariant == CircleSpec => []CircleInv
  BY CircleInvInit, CircleInvStep, PTL DEF CircleSpec

(* A code finds its room for an hour after it was last asked for, and      *)
(* never a room that has ended.                                            *)
THEOREM RoomCodesTheorem == CircleSpec => []CodeFindsRoom
<1>1. CircleInv => CodeFindsRoom
  <2> SUFFICES ASSUME CircleInv PROVE CodeFindsRoom
    OBVIOUS
  <2>1. ASSUME NEW n \in DOMAIN circles, promised[n] >= clock, circles[n].active
        PROVE  LET a == AliasFound([name |-> RoomCodeOf[n]])
               IN  a # Absent /\ a.session = n /\ a.expires = promised[n]
    <3>1. RoomCodeOf[n] \in DOMAIN codes /\ codes[RoomCodeOf[n]].session = n
      BY <2>1 DEF CircleInv, PromisesAreKept, CircleTypes
    <3>2. /\ codes[RoomCodeOf[n]] \in GameSessionShortAlias
          /\ codes[RoomCodeOf[n]].expires = promised[n]
      BY <3>1 DEF CircleInv, EntriesArePromises
    <3>3. AliasFound([name |-> RoomCodeOf[n]]) = codes[RoomCodeOf[n]]
      BY <2>1, <3>1, <3>2 DEF AliasFound, Leads
    <3> QED BY <3>1, <3>2, <3>3, CircleAssumption
  <2>2. ASSUME NEW c \in RoomCode, AliasFound([name |-> c]) # Absent
        PROVE  LET a == AliasFound([name |-> c])
               IN  circles[a.session].active /\ promised[a.session] >= clock
    <3>1. c \in DOMAIN codes /\ Leads(c) /\ AliasFound([name |-> c]) = codes[c]
      BY <2>2 DEF AliasFound
    <3> QED BY <3>1 DEF Leads, CircleInv, EntriesArePromises
  <2> QED BY <2>1, <2>2 DEF CodeFindsRoom
<1> QED BY <1>1, CircleInvariant, PTL

(* Codes, rooms and the clock are of their types.                          *)
THEOREM CircleTypesTheorem == CircleSpec => []CircleTypeOK
<1>1. CircleInv => CircleTypeOK
  BY DEF CircleInv, CircleTypes, EntriesArePromises, CircleTypeOK
<1> QED BY <1>1, CircleInvariant, PTL

-----------------------------------------------------------------------------
(* Messages                                                                *)
(*                                                                         *)
(* What a reader finds in a message the server has edited, for messages of *)
(* any length that hold any fields.                                        *)

IsMessage(m) == m \in Seq({m[i] : i \in DOMAIN m})

(* A sequence of anything is a message. *)
LEMMA SequencesAreMessages ==
    ASSUME NEW V, NEW m \in Seq(V) PROVE IsMessage(m)
<1> DEFINE R == {m[i] : i \in DOMAIN m}
<1>1. Len(m) \in Nat /\ DOMAIN m = 1..Len(m) /\ m = [i \in 1..Len(m) |-> m[i]]
  OBVIOUS
<1>2. \A i \in 1..Len(m) : m[i] \in R
  BY <1>1
<1> HIDE DEF R
<1>3. m \in Seq(R)
  BY <1>1, <1>2
<1> QED BY <1>3 DEF IsMessage, R

LEMMA MessageDomain ==
    ASSUME NEW m, IsMessage(m)
    PROVE  Len(m) \in Nat /\ DOMAIN m = 1..Len(m) /\ m = [i \in 1..Len(m) |-> m[i]]
  BY DEF IsMessage

LEMMA MessageOf ==
    ASSUME NEW m, IsMessage(m), NEW V, \A i \in 1..Len(m) : m[i] \in V PROVE m \in Seq(V)
<1>1. Len(m) \in Nat /\ m = [i \in 1..Len(m) |-> m[i]]
  BY MessageDomain
<1> QED BY <1>1

LEMMA AppendedMessage ==
    ASSUME NEW m, IsMessage(m), NEW x
    PROVE  /\ IsMessage(Append(m, x)) /\ Len(Append(m, x)) = Len(m) + 1
           /\ Append(m, x)[Len(m) + 1] = x
           /\ \A i \in 1..Len(m) : Append(m, x)[i] = m[i]
<1> DEFINE V == {m[i] : i \in 1..Len(m)} \cup {x}
<1>1. \A i \in 1..Len(m) : m[i] \in V
  OBVIOUS
<1>2. x \in V
  OBVIOUS
<1> HIDE DEF V
<1>3. m \in Seq(V)
  BY <1>1, MessageOf
<1>4. Append(m, x) \in Seq(V)
  BY <1>2, <1>3
<1>5. IsMessage(Append(m, x))
  BY <1>4, SequencesAreMessages
<1> QED BY <1>2, <1>3, <1>5

LEMMA JoinedMessages ==
    ASSUME NEW m, IsMessage(m), NEW n, IsMessage(n)
    PROVE  /\ IsMessage(m \o n) /\ Len(m \o n) = Len(m) + Len(n)
           /\ \A i \in 1..Len(m) : (m \o n)[i] = m[i]
           /\ \A i \in 1..Len(n) : (m \o n)[Len(m) + i] = n[i]
<1> DEFINE V == {m[i] : i \in 1..Len(m)} \cup {n[i] : i \in 1..Len(n)}
<1>1. (\A i \in 1..Len(m) : m[i] \in V) /\ \A i \in 1..Len(n) : n[i] \in V
  OBVIOUS
<1> HIDE DEF V
<1>2. m \in Seq(V) /\ n \in Seq(V)
  BY <1>1, MessageOf
<1>3. m \o n \in Seq(V)
  BY <1>2
<1>4. IsMessage(m \o n)
  BY <1>3, SequencesAreMessages
<1> QED BY <1>2, <1>4

LEMMA Greatest ==
    ASSUME NEW n \in Nat, NEW T \in SUBSET (1..n), T # {}
    PROVE  \E i \in T : \A j \in T : j <= i
<1> DEFINE U == {n - i : i \in T}
<1>1. U \in SUBSET Nat /\ U # {}
  <2>1. \A i \in T : n - i \in Nat
    OBVIOUS
  <2>2. \E i \in T : TRUE
    OBVIOUS
  <2> QED BY <2>1, <2>2
<1>2. PICK k \in U : \A l \in U : k <= l
  <2> HIDE DEF U
  <2> QED BY <1>1, LeastNumber
<1>3. PICK i \in T : k = n - i
  BY <1>2
<1>4. \A j \in T : k <= n - j
  BY <1>2
<1> QED BY <1>3, <1>4

(* A reader believes the last field of its kind. *)
LEMMA ReadAt ==
    ASSUME NEW m, IsMessage(m), NEW g, NEW i \in 1..Len(m), m[i][1] = g,
           \A j \in 1..Len(m) : i < j => m[j][1] # g
    PROVE  Read(m, g) = m[i][2] /\ g \in Numbers(m)
<1> DEFINE at == {k \in DOMAIN m : m[k][1] = g}
           c == CHOOSE k \in at : \A j \in at : j <= k
<1>1. Len(m) \in Nat /\ DOMAIN m = 1..Len(m)
  BY MessageDomain
<1>2. i \in at /\ \A j \in at : j <= i
  BY <1>1
<1>3. at \subseteq Nat
  BY <1>1
<1>4. Read(m, g) = IF at = {} THEN Unset ELSE m[c][2]
  BY DEF Read
<1>5. c = i
  <2>1. \A k \in at : (\A j \in at : j <= k) => k = i
    BY <1>2, <1>3
  <2> HIDE DEF at
  <2> QED BY <1>2, <2>1
<1> QED BY <1>1, <1>2, <1>4, <1>5 DEF Numbers

LEMMA ReadNone ==
    ASSUME NEW m, NEW g, g \notin Numbers(m) PROVE Read(m, g) = Unset
  BY DEF Read, Numbers

LEMMA LastAt ==
    ASSUME NEW m, IsMessage(m), NEW g \in Numbers(m)
    PROVE  \E i \in 1..Len(m) : m[i][1] = g /\ \A j \in 1..Len(m) : i < j => m[j][1] # g
<1> DEFINE at == {k \in 1..Len(m) : m[k][1] = g}
<1>1. Len(m) \in Nat /\ DOMAIN m = 1..Len(m)
  BY MessageDomain
<1>2. at \in SUBSET (1..Len(m)) /\ at # {}
  BY <1>1 DEF Numbers
<1>3. PICK i \in at : \A j \in at : j <= i
  <2> HIDE DEF at
  <2> QED BY <1>1, <1>2, Greatest
<1> QED BY <1>1, <1>3

(* What is added at the end is read before anything else. *)
LEMMA ReadJoined ==
    ASSUME NEW m, IsMessage(m), NEW n, IsMessage(n), NEW g
    PROVE  /\ Read(m \o n, g) = IF g \in Numbers(n) THEN Read(n, g) ELSE Read(m, g)
           /\ Numbers(m \o n) = Numbers(m) \cup Numbers(n)
<1> DEFINE mn == m \o n
<1>1. /\ Len(m) \in Nat /\ DOMAIN m = 1..Len(m)
      /\ Len(n) \in Nat /\ DOMAIN n = 1..Len(n)
  BY MessageDomain
<1>2. /\ IsMessage(mn) /\ Len(mn) = Len(m) + Len(n) /\ DOMAIN mn = 1..Len(mn)
      /\ \A i \in 1..Len(m) : mn[i] = m[i]
      /\ \A i \in 1..Len(n) : mn[Len(m) + i] = n[i]
  <2>1. /\ IsMessage(mn) /\ Len(mn) = Len(m) + Len(n)
        /\ \A i \in 1..Len(m) : mn[i] = m[i]
        /\ \A i \in 1..Len(n) : mn[Len(m) + i] = n[i]
    BY JoinedMessages
  <2> HIDE DEF mn
  <2>2. DOMAIN mn = 1..Len(mn)
    BY <2>1, MessageDomain
  <2> QED BY <2>1, <2>2
<1> HIDE DEF mn
<1>3. \A i \in 1..Len(mn) : i <= Len(m) \/ (i - Len(m) \in 1..Len(n) /\ mn[i] = n[i - Len(m)])
  <2> TAKE i \in 1..Len(mn)
  <2> DEFINE k == i - Len(m)
  <2>1. i <= Len(m) \/ (k \in 1..Len(n) /\ i = Len(m) + k)
    BY <1>1, <1>2
  <2> QED BY <1>2, <2>1
<1>4. Numbers(mn) = Numbers(m) \cup Numbers(n)
  <2>1. \A i \in 1..Len(mn) : i <= Len(m) => i \in 1..Len(m)
    BY <1>1, <1>2
  <2>2. \A i \in 1..Len(n) : Len(m) + i \in 1..Len(mn)
    BY <1>1, <1>2
  <2>3. \A i \in 1..Len(m) : i \in 1..Len(mn)
    BY <1>1, <1>2
  <2>4. \A i \in DOMAIN mn : mn[i][1] \in Numbers(m) \cup Numbers(n)
    BY <1>1, <1>2, <1>3, <2>1 DEF Numbers
  <2>5. \A i \in DOMAIN m : m[i][1] \in Numbers(mn)
    BY <1>1, <1>2, <2>3 DEF Numbers
  <2>6. \A i \in DOMAIN n : n[i][1] \in Numbers(mn)
    BY <1>1, <1>2, <2>2 DEF Numbers
  <2> QED BY <2>4, <2>5, <2>6 DEF Numbers
<1>5. CASE g \in Numbers(n)
  <2>1. PICK i \in 1..Len(n) : n[i][1] = g /\ \A j \in 1..Len(n) : i < j => n[j][1] # g
    BY <1>5, LastAt
  <2>2. Read(n, g) = n[i][2]
    BY <2>1, ReadAt
  <2> DEFINE k == Len(m) + i
  <2>3. k \in 1..Len(mn) /\ mn[k] = n[i]
    BY <1>1, <1>2
  <2>4. \A j \in 1..Len(mn) : k < j => mn[j][1] # g
    <3> TAKE j \in 1..Len(mn)
    <3> HAVE k < j
    <3>1. j - Len(m) \in 1..Len(n) /\ mn[j] = n[j - Len(m)] /\ i < j - Len(m)
      BY <1>1, <1>2, <1>3
    <3> QED BY <2>1, <3>1
  <2> HIDE DEF k
  <2>5. mn[k][1] = g
    BY <2>1, <2>3
  <2>6. Read(mn, g) = mn[k][2]
    <3>1. IsMessage(mn) /\ k \in 1..Len(mn)
      BY ONLY <1>2, <2>3
    <3> QED BY ONLY <2>4, <2>5, <3>1, ReadAt
  <2>7. Read(mn, g) = Read(n, g)
    BY ONLY <2>2, <2>3, <2>6
  <2>8. /\ Read(mn, g) = IF g \in Numbers(n) THEN Read(n, g) ELSE Read(m, g)
        /\ Numbers(mn) = Numbers(m) \cup Numbers(n)
    BY ONLY <1>4, <1>5, <2>7
  <2> QED BY ONLY <2>8 DEF mn
<1>6. CASE g \notin Numbers(n) /\ g \in Numbers(m)
  <2>1. PICK i \in 1..Len(m) : m[i][1] = g /\ \A j \in 1..Len(m) : i < j => m[j][1] # g
    BY <1>6, LastAt
  <2>2. Read(m, g) = m[i][2]
    BY <2>1, ReadAt
  <2>3. i \in 1..Len(mn) /\ mn[i] = m[i]
    BY <1>1, <1>2
  <2>4. \A j \in 1..Len(mn) : i < j => mn[j][1] # g
    <3> TAKE j \in 1..Len(mn)
    <3> HAVE i < j
    <3>1. CASE j <= Len(m)
      <4>1. j \in 1..Len(m)
        BY <1>1, <1>2, <3>1
      <4> QED BY <1>2, <2>1, <4>1
    <3>2. CASE ~ (j <= Len(m))
      BY <1>1, <1>3, <1>6, <3>2 DEF Numbers
    <3> QED BY <3>1, <3>2
  <2>5. mn[i][1] = g
    BY <2>1, <2>3
  <2>6. Read(mn, g) = mn[i][2]
    BY <1>2, <2>3, <2>4, <2>5, ReadAt
  <2> QED BY <1>4, <1>6, <2>2, <2>3, <2>6 DEF mn
<1>7. CASE g \notin Numbers(n) /\ g \notin Numbers(m)
  BY <1>4, <1>7, ReadNone DEF mn
<1> QED BY <1>5, <1>6, <1>7

LEMMA ReadAppended ==
    ASSUME NEW m, IsMessage(m), NEW x, NEW g
    PROVE  /\ Read(Append(m, x), g) = IF g = x[1] THEN x[2] ELSE Read(m, g)
           /\ Numbers(Append(m, x)) = Numbers(m) \cup {x[1]}
<1> DEFINE n == <<x>>
<1>1. IsMessage(n)
  <2>1. n \in Seq({x})
    OBVIOUS
  <2> QED BY <2>1, SequencesAreMessages
<1>2. Numbers(n) = {x[1]}
  BY DEF Numbers
<1>3. Read(n, x[1]) = x[2]
  <2>1. Len(n) = 1 /\ n[1] = x
    OBVIOUS
  <2> HIDE DEF n
  <2>2. 1 \in 1..Len(n) /\ \A j \in 1..Len(n) : ~ (1 < j)
    BY <2>1
  <2> QED BY <1>1, <2>1, <2>2, ReadAt
<1>4. Append(m, x) = m \o n
  <2>1. \E V : m \in Seq(V) /\ x \in V
    <3> DEFINE V == {m[i] : i \in 1..Len(m)} \cup {x}
    <3>1. \A i \in 1..Len(m) : m[i] \in V
      OBVIOUS
    <3>2. m \in Seq(V)
      <4> HIDE DEF V
      <4> QED BY <3>1, MessageOf
    <3> QED BY <3>2
  <2> QED BY <2>1
<1> HIDE DEF n
<1> QED BY <1>1, <1>2, <1>3, <1>4, ReadJoined

-----------------------------------------------------------------------------
(* The first n steps by which replaceProtoStringField edits a message. *)
Edits(out, m, field, value, n) ==
    out = [i \in 0..n |->
            IF i = 0 THEN <<>>
            ELSE IF i \notin {j \in DOMAIN m : m[j][1] = field} THEN Append(out[i - 1], m[i])
            ELSE IF \E j \in {j \in DOMAIN m : m[j][1] = field} : j < i THEN out[i - 1]
            ELSE Append(out[i - 1], <<field, value>>)]

LEMMA EditsExist ==
    ASSUME NEW m, NEW field, NEW value, NEW n \in Nat
    PROVE  \E out : Edits(out, m, field, value, n)
<1> DEFINE own == {j \in DOMAIN m : m[j][1] = field}
           T == {k \in Nat : \E out : Edits(out, m, field, value, k)}
<1>1. 0 \in T
  <2> DEFINE out == [i \in 0..0 |-> <<>>]
  <2>1. Edits(out, m, field, value, 0)
    BY DEF Edits
  <2> QED BY <2>1
<1>2. ASSUME NEW k \in Nat, k \in T PROVE k + 1 \in T
  <2>1. PICK out : Edits(out, m, field, value, k)
    BY <1>2
  <2> DEFINE Step(f, i) == IF i = 0 THEN <<>>
                           ELSE IF i \notin own THEN Append(f[i - 1], m[i])
                           ELSE IF \E j \in own : j < i THEN f[i - 1]
                           ELSE Append(f[i - 1], <<field, value>>)
             more == [i \in 0..(k + 1) |-> IF i <= k THEN out[i] ELSE Step(out, k + 1)]
  <2>2. \A i \in 0..k : out[i] = Step(out, i)
    BY <2>1 DEF Edits
  <2>3. ASSUME NEW i \in 0..(k + 1) PROVE more[i] = Step(more, i)
    <3> HIDE DEF own
    <3>1. CASE i = k + 1
      <4>1. more[i] = Step(out, i) /\ i # 0 /\ i - 1 \in 0..k /\ more[i - 1] = out[i - 1]
        BY <3>1
      <4> HIDE DEF more
      <4> QED BY <4>1
    <3>2. CASE i # k + 1
      <4>1. i \in 0..k /\ (i # 0 => i - 1 \in 0..k)
        BY <3>2
      <4>2. more[i] = out[i] /\ (i # 0 => more[i - 1] = out[i - 1])
        BY <4>1
      <4>3. out[i] = Step(out, i)
        BY <2>2, <4>1
      <4> HIDE DEF more
      <4> QED BY <4>2, <4>3
    <3> QED BY <3>1, <3>2
  <2>4. more = [i \in 0..(k + 1) |-> Step(more, i)]
    <3>1. more = [i \in 0..(k + 1) |-> more[i]]
      OBVIOUS
    <3> HIDE DEF more, Step
    <3> QED BY <2>3, <3>1
  <2>5. Edits(more, m, field, value, k + 1)
    <3> HIDE DEF more
    <3> QED BY <2>4 DEF Edits
  <2> QED BY <2>5
<1> HIDE DEF T
<1>3. n \in T
  BY <1>1, <1>2, HoldsAll
<1> QED BY <1>3 DEF T

(* The first i fields. *)
Prefix(m, i) == [j \in 1..i |-> m[j]]

LEMMA Prefixes ==
    ASSUME NEW m, IsMessage(m)
    PROVE  /\ Prefix(m, 0) = <<>> /\ Prefix(m, Len(m)) = m
           /\ \A i \in 0..Len(m) : IsMessage(Prefix(m, i)) /\ Len(Prefix(m, i)) = i
           /\ \A i \in 1..Len(m) : Prefix(m, i) = Append(Prefix(m, i - 1), m[i])
<1> DEFINE V == {m[i] : i \in 1..Len(m)}
<1>1. Len(m) \in Nat /\ m = [i \in 1..Len(m) |-> m[i]] /\ \A i \in 1..Len(m) : m[i] \in V
  BY MessageDomain
<1> HIDE DEF V
<1>2. \A i \in 0..Len(m) : Prefix(m, i) \in Seq(V) /\ Len(Prefix(m, i)) = i
  BY <1>1 DEF Prefix
<1>3. \A i \in 0..Len(m) : IsMessage(Prefix(m, i))
  BY <1>2, SequencesAreMessages
<1>4. Prefix(m, 0) = <<>> /\ Prefix(m, Len(m)) = m
  BY <1>1 DEF Prefix
<1>5. ASSUME NEW i \in 1..Len(m) PROVE Prefix(m, i) = Append(Prefix(m, i - 1), m[i])
  <2>1. i - 1 \in 0..Len(m) /\ i \in Nat
    BY <1>1
  <2>2. /\ Prefix(m, i - 1) \in Seq(V) /\ Len(Prefix(m, i - 1)) = i - 1
        /\ Prefix(m, i) \in Seq(V) /\ Len(Prefix(m, i)) = i
    BY <1>1, <1>2, <2>1
  <2>3. \A j \in 1..i : Prefix(m, i)[j] = IF j = i THEN m[i] ELSE Prefix(m, i - 1)[j]
    BY <2>1 DEF Prefix
  <2> HIDE DEF Prefix
  <2> QED BY <1>1, <2>1, <2>2, <2>3
<1> QED BY <1>2, <1>3, <1>4, <1>5

(* e is the edited form of the message p, if p has the field. *)
Edited(e, p, field, value) ==
    /\ IsMessage(e) /\ Len(e) <= Len(p)
    /\ Numbers(e) = Numbers(p)
    /\ \A g : Read(e, g) = IF g = field /\ field \in Numbers(p) THEN value ELSE Read(p, g)

LEMMA EditedStep ==
    ASSUME NEW p, IsMessage(p), NEW x, NEW e, NEW f, NEW field, NEW value,
           Edited(e, p, field, value),
           f = IF x[1] # field THEN Append(e, x)
               ELSE IF field \in Numbers(p) THEN e ELSE Append(e, <<field, value>>)
    PROVE  Edited(f, Append(p, x), field, value)
<1> DEFINE q == Append(p, x)
<1>1. IsMessage(q) /\ Len(q) = Len(p) + 1 /\ Len(p) \in Nat
  BY AppendedMessage, MessageDomain
<1>2. /\ Numbers(q) = Numbers(p) \cup {x[1]}
      /\ \A g : Read(q, g) = IF g = x[1] THEN x[2] ELSE Read(p, g)
  BY ReadAppended
<1>3. IsMessage(e) /\ Len(e) \in Nat /\ Len(e) <= Len(p) /\ Numbers(e) = Numbers(p)
  BY MessageDomain DEF Edited
<1>4. \A g : Read(e, g) = IF g = field /\ field \in Numbers(p) THEN value ELSE Read(p, g)
  BY DEF Edited
<1> HIDE DEF q
<1>5. CASE x[1] # field
  <2>1. f = Append(e, x)
    BY <1>5
  <2>2. IsMessage(f) /\ Len(f) = Len(e) + 1
    BY <1>3, <2>1, AppendedMessage
  <2>3. /\ Numbers(f) = Numbers(e) \cup {x[1]}
        /\ \A g : Read(f, g) = IF g = x[1] THEN x[2] ELSE Read(e, g)
    <3>1. Numbers(Append(e, x)) = Numbers(e) \cup {x[1]}
      BY <1>3, ReadAppended
    <3>2. \A g : Read(Append(e, x), g) = IF g = x[1] THEN x[2] ELSE Read(e, g)
      BY <1>3, ReadAppended
    <3> QED BY <2>1, <3>1, <3>2
  <2>4. Len(f) <= Len(q) /\ Numbers(f) = Numbers(q)
    BY <1>1, <1>2, <1>3, <2>2, <2>3
  <2>5. ASSUME NEW g PROVE Read(f, g) = IF g = field /\ field \in Numbers(q) THEN value ELSE Read(q, g)
    BY <1>2, <1>4, <1>5, <2>3
  <2> QED BY <2>2, <2>4, <2>5 DEF Edited, q
<1>6. CASE x[1] = field /\ field \in Numbers(p)
  <2>1. Len(e) <= Len(q) /\ Numbers(e) = Numbers(q)
    BY <1>1, <1>2, <1>3, <1>6
  <2>2. ASSUME NEW g PROVE Read(e, g) = IF g = field /\ field \in Numbers(q) THEN value ELSE Read(q, g)
    BY <1>2, <1>4, <1>6
  <2> QED BY <1>3, <1>6, <2>1, <2>2 DEF Edited, q
<1>7. CASE x[1] = field /\ field \notin Numbers(p)
  <2> DEFINE y == <<field, value>>
  <2>1. f = Append(e, y) /\ y[1] = field /\ y[2] = value
    BY <1>7
  <2> HIDE DEF y
  <2>2. IsMessage(f) /\ Len(f) = Len(e) + 1
    BY <1>3, <2>1, AppendedMessage
  <2>3. /\ Numbers(f) = Numbers(e) \cup {field}
        /\ \A g : Read(f, g) = IF g = field THEN value ELSE Read(e, g)
    <3>1. Numbers(Append(e, y)) = Numbers(e) \cup {y[1]}
      BY <1>3, ReadAppended
    <3>2. \A g : Read(Append(e, y), g) = IF g = y[1] THEN y[2] ELSE Read(e, g)
      BY <1>3, ReadAppended
    <3> QED BY <2>1, <3>1, <3>2
  <2>4. Len(f) <= Len(q) /\ Numbers(f) = Numbers(q)
    BY <1>1, <1>2, <1>3, <1>7, <2>2, <2>3
  <2>5. ASSUME NEW g PROVE Read(f, g) = IF g = field /\ field \in Numbers(q) THEN value ELSE Read(q, g)
    BY <1>2, <1>4, <1>7, <2>3
  <2> QED BY <2>2, <2>4, <2>5 DEF Edited, q
<1> QED BY <1>5, <1>6, <1>7

(* Of an edited message the field is read as the new value and every other *)
(* as before; it is longer only when it did not have the field.            *)
LEMMA ReplacedFacts ==
    ASSUME NEW m, IsMessage(m), NEW field, NEW value
    PROVE  LET r == Replaced(m, field, value) IN
           /\ IsMessage(r)
           /\ Numbers(r) = Numbers(m) \cup {field}
           /\ Len(r) <= Len(m) + (IF field \in Numbers(m) THEN 0 ELSE 1)
           /\ Read(r, field) = value
           /\ \A g : g # field => Read(r, g) = Read(m, g)
<1> DEFINE own == {j \in DOMAIN m : m[j][1] = field}
           out == CHOOSE f : Edits(f, m, field, value, Len(m))
           r == Replaced(m, field, value)
<1>1. Len(m) \in Nat /\ DOMAIN m = 1..Len(m)
  BY MessageDomain
<1>2. field \in Numbers(m) <=> own # {}
  BY DEF Numbers
<1>3. CASE own = {}
  <2> DEFINE y == <<field, value>>
  <2>1. r = Append(m, y) /\ y[1] = field /\ y[2] = value
    BY <1>3 DEF Replaced
  <2> HIDE DEF y, r
  <2>2. IsMessage(r) /\ Len(r) = Len(m) + 1
    BY <2>1, AppendedMessage
  <2>3. /\ Numbers(r) = Numbers(m) \cup {field}
        /\ \A g : Read(r, g) = IF g = field THEN value ELSE Read(m, g)
    BY <2>1, ReadAppended
  <2>4. Len(r) <= Len(m) + (IF field \in Numbers(m) THEN 0 ELSE 1)
    BY <1>1, <1>2, <1>3, <2>2
  <2>5. Read(r, field) = value /\ \A g : g # field => Read(r, g) = Read(m, g)
    BY <2>3
  <2> QED BY <2>2, <2>3, <2>4, <2>5 DEF r
<1>4. CASE own # {}
  <2>1. Edits(out, m, field, value, Len(m))
    BY <1>1, EditsExist
  <2>2. r = out[Len(m)]
    BY <1>4 DEF Replaced, Edits
  <2> HIDE DEF out
  <2>3. out[0] = <<>>
    BY <1>1, <2>1 DEF Edits
  <2>4. \A i \in 1..Len(m) : out[i] = IF i \notin own THEN Append(out[i - 1], m[i])
                                      ELSE IF \E j \in own : j < i THEN out[i - 1]
                                      ELSE Append(out[i - 1], <<field, value>>)
    <3> TAKE i \in 1..Len(m)
    <3>1. i \in 0..Len(m) /\ i # 0
      BY <1>1
    <3> QED BY <2>1, <3>1 DEF Edits
  <2> DEFINE T == {i \in Nat : i <= Len(m) => Edited(out[i], Prefix(m, i), field, value)}
  <2>5. 0 \in T
    <3>1. IsMessage(<<>>) /\ Len(<<>>) = 0 /\ Numbers(<<>>) = {}
      <4>1. << >> \in Seq({}) /\ Len(<<>>) = 0 /\ DOMAIN <<>> = {}
        OBVIOUS
      <4>2. IsMessage(<<>>)
        BY <4>1, SequencesAreMessages
      <4> QED BY <4>1, <4>2 DEF Numbers
    <3> QED BY <2>3, <3>1, Prefixes DEF Edited
  <2>6. ASSUME NEW k \in Nat, k \in T PROVE k + 1 \in T
    <3> SUFFICES ASSUME k + 1 <= Len(m)
                 PROVE  Edited(out[k + 1], Prefix(m, k + 1), field, value)
      OBVIOUS
    <3> DEFINE p == Prefix(m, k)  x == m[k + 1]
    <3>1. k + 1 \in 1..Len(m) /\ k \in 0..Len(m) /\ (k + 1) - 1 = k
      BY <1>1
    <3>2. IsMessage(p) /\ Prefix(m, k + 1) = Append(p, x)
      BY <3>1, Prefixes
    <3>3. field \in Numbers(p) <=> \E j \in own : j < k + 1
      <4>1. DOMAIN p = 1..k /\ \A j \in 1..k : p[j] = m[j]
        BY DEF Prefix
      <4>2. \A j \in own : j < k + 1 => j \in 1..k
        BY <1>1, <3>1
      <4>3. 1..k \subseteq DOMAIN m /\ \A j \in 1..k : j < k + 1
        BY <1>1, <3>1
      <4> HIDE DEF p
      <4> QED BY <4>1, <4>2, <4>3 DEF Numbers
    <3>4. Edited(out[k], p, field, value)
      BY <1>1, <2>6, <3>1
    <3>5. out[k + 1] = IF x[1] # field THEN Append(out[k], x)
                       ELSE IF field \in Numbers(p) THEN out[k]
                       ELSE Append(out[k], <<field, value>>)
      <4>1. k + 1 \in own <=> x[1] = field
        BY <1>1, <3>1
      <4> HIDE DEF own, p, x
      <4> QED BY <2>4, <3>1, <3>3, <4>1 DEF x
    <3> HIDE DEF p, x
    <3> QED BY <3>2, <3>4, <3>5, EditedStep
  <2> HIDE DEF T
  <2>7. Len(m) \in T
    BY <1>1, <2>5, <2>6, HoldsAll
  <2>8. Edited(r, m, field, value)
    BY <1>1, <2>2, <2>7, Prefixes DEF T
  <2> HIDE DEF r
  <2> QED BY <1>1, <1>2, <1>4, <2>8 DEF Edited, r
<1> QED BY <1>3, <1>4

-----------------------------------------------------------------------------
(* Competitions                                                            *)
(*                                                                         *)
(* Codes, references and participants, for any users, competitions and     *)
(* submitted messages: the maps agree with what is read of the messages.   *)

HostedFits(h, n) ==
    /\ h.owner \in User
    /\ Read(h.competition, "name") = n /\ Read(h.competition, "alias") = CodeOf[n]
    /\ Read(h.participant, "name") = <<n, h.owner>>

(* A registered participant, with room for the field an activation adds. *)
ParticipantFits(m) ==
    /\ IsMessage(m) /\ {"state", "binary"} \subseteq Numbers(m)
    /\ Read(m, "rating") = InitialRating
    /\ Len(m) + (IF "activeTime" \in Numbers(m) THEN 0 ELSE 1) <= MaxFields

CodesFit ==
    /\ \A n \in DOMAIN hosted : CodeOf[n] \in DOMAIN aliases
    /\ \A c \in DOMAIN aliases :
          \/ aliases[c] = Official /\ c = OfficialCode
          \/ aliases[c] \in DOMAIN hosted /\ CodeOf[aliases[c]] = c

ReferencesFit ==
    \A u \in User :
        /\ LET n == users[u].currentFriendly
           IN  n # Nobody => n \in DOMAIN hosted /\ hosted[n].owner = u
        /\ users[u].currentOfficial = Official <=> u \in DOMAIN official

HostingInv ==
    /\ users \in [User -> Profile]
    /\ DOMAIN hosted \subseteq Competition
    /\ \A n \in DOMAIN hosted : HostedFits(hosted[n], n)
    /\ DOMAIN official \subseteq User
    /\ \A u \in DOMAIN official : ParticipantFits(official[u])
    /\ CodesFit /\ ReferencesFit

LEMMA SubmittedAreMessages ==
    ASSUME NEW m \in Submitted PROVE IsMessage(m) /\ Len(m) + 6 <= MaxFields
  BY NameAssumption DEF IsMessage

LEMMA HostingInvInit == HostingInit => HostingInv
<1> SUFFICES ASSUME HostingInit PROVE HostingInv
  OBVIOUS
<1>1. DOMAIN hosted = {} /\ DOMAIN official = {}
  BY DEF HostingInit
<1>2. users \in [User -> Profile]
  BY DEF HostingInit, NoProfile, Profile, Master
<1>3. CodesFit
  BY <1>1 DEF HostingInit, CodesFit
<1>4. ReferencesFit
  <2>1. Nobody # Official
    BY NameAssumption DEF Competition
  <2> QED BY <1>1, <2>1 DEF HostingInit, NoProfile, ReferencesFit
<1> QED BY <1>1, <1>2, <1>3, <1>4 DEF HostingInv

(* The two messages of a hosted competition. *)
LEMMA HostedCompetitionFits ==
    ASSUME NEW u \in User, NEW n, NEW m \in Submitted
    PROVE  HostedFits(HostedCompetition(u, n, m), n)
<1> DEFINE k == <<<<"type", 2>>>>
           named == Replaced(k, "name", n)
           coded == Replaced(named, "alias", CodeOf[n])
           own == Replaced(m, "name", <<n, u>>)
           tail == <<<<"state", Accepted>>>>
           h == HostedCompetition(u, n, m)
<1>1. h.owner = u /\ h.competition = coded /\ h.participant = own \o tail
  BY DEF HostedCompetition
<1>2. IsMessage(k) /\ IsMessage(tail)
  <2>1. k \in Seq({<<"type", 2>>}) /\ tail \in Seq({<<"state", Accepted>>})
    OBVIOUS
  <2> HIDE DEF k, tail
  <2> QED BY <2>1, SequencesAreMessages
<1>3. "name" \notin Numbers(tail)
  BY DEF Numbers
<1> HIDE DEF k, tail
<1>4. IsMessage(named) /\ Read(named, "name") = n
  BY <1>2, ReplacedFacts
<1> HIDE DEF named
<1>5. Read(coded, "alias") = CodeOf[n] /\ Read(coded, "name") = Read(named, "name")
  <2>1. "name" # "alias"
    OBVIOUS
  <2> QED BY <1>4, <2>1, ReplacedFacts
<1>6. IsMessage(own) /\ Read(own, "name") = <<n, u>>
  BY SubmittedAreMessages, ReplacedFacts
<1> HIDE DEF coded, own, h
<1>7. Read(own \o tail, "name") = Read(own, "name")
  BY <1>2, <1>3, <1>6, ReadJoined
<1> QED BY <1>1, <1>4, <1>5, <1>6, <1>7 DEF HostedFits, h

LEMMA HostInv ==
    ASSUME HostingInv, NEW u \in User, NEW r \in Competition \cup {Nobody}, NEW m \in Submitted,
           HostCompetition(u, r, m)
    PROVE  HostingInv'
<1>1. PICK n \in IF r = Nobody THEN Friendly \ DOMAIN hosted ELSE {r} :
        /\ MayHost(u, n)
        /\ hosted' = [x \in DOMAIN hosted \cup {n} |->
                        IF x = n THEN HostedCompetition(u, n, m) ELSE hosted[x]]
        /\ aliases' = Entered(n)
        /\ users' = [users EXCEPT ![u].currentFriendly = n]
        /\ UNCHANGED official
  BY DEF HostCompetition
<1>2. n \in Competition /\ n # Nobody
  BY <1>1, NameAssumption DEF Competition
<1> DEFINE h == HostedCompetition(u, n, m)
<1>3. HostedFits(h, n) /\ h.owner = u
  BY HostedCompetitionFits DEF HostedCompetition
<1> HIDE DEF h
<1>4. /\ DOMAIN hosted' = DOMAIN hosted \cup {n} /\ hosted'[n] = h
      /\ \A x \in DOMAIN hosted : x # n => hosted'[x] = hosted[x]
  BY <1>1 DEF h
<1>5. \A x \in DOMAIN hosted' : HostedFits(hosted'[x], x)
  BY <1>3, <1>4 DEF HostingInv
<1>6. users' \in [User -> Profile]
  BY <1>1, <1>2 DEF HostingInv, Profile
<1>7. CodesFit'
  BY <1>1, <1>4 DEF HostingInv, CodesFit, Entered
<1>8. ReferencesFit'
  <2>1. \A v \in User : v # u => users'[v] = users[v]
    BY <1>1 DEF HostingInv
  <2>2. /\ users'[u].currentFriendly = n
        /\ users'[u].currentOfficial = users[u].currentOfficial
    BY <1>1 DEF HostingInv, Profile
  <2>3. \A v \in User : v # u /\ users[v].currentFriendly = n => n = Nobody
    BY <1>1 DEF HostingInv, ReferencesFit, MayHost
  <2> QED BY <1>1, <1>2, <1>3, <1>4, <2>1, <2>2, <2>3 DEF HostingInv, ReferencesFit
<1> QED BY <1>1, <1>2, <1>4, <1>5, <1>6, <1>7, <1>8 DEF HostingInv, HostedFits, ParticipantFits

LEMMA UpdateUserInv ==
    ASSUME HostingInv, NEW u \in User, NEW r \in UpdateRequest, UpdateCompetitionUser(u, r)
    PROVE  HostingInv'
<1>1. users' = [users EXCEPT ![u] = Updated(@, r)] /\ UNCHANGED <<hosted, aliases, official>>
  BY DEF UpdateCompetitionUser
<1> DEFINE p == Updated(users[u], r)
<1>2. /\ p \in Profile /\ p.currentFriendly = users[u].currentFriendly
      /\ p.currentOfficial = users[u].currentOfficial
  <2>1. users[u] \in Profile /\ r.area \in Area /\ r.category \in 0..Master
    <3>1. \A k \in Category : k \in 0..Master
      BY NameAssumption DEF Master
    <3> QED BY <3>1 DEF HostingInv, UpdateRequest
  <2> QED BY <2>1 DEF Updated, Profile
<1> HIDE DEF p
<1>3. users' \in [User -> Profile] /\ users' = [users EXCEPT ![u] = p]
  BY <1>1, <1>2 DEF HostingInv, p
<1>4. ReferencesFit'
  BY <1>1, <1>2, <1>3 DEF HostingInv, ReferencesFit
<1> QED BY <1>1, <1>3, <1>4 DEF HostingInv, CodesFit, HostedFits, ParticipantFits

(* What registration makes of a participant. *)
LEMMA RegisteredFacts ==
    ASSUME NEW u \in User, NEW m \in Submitted, Complete(m)
    PROVE  /\ ParticipantFits(Registered(u, m))
           /\ Read(Registered(u, m), "state") = Accepted
           /\ Read(Registered(u, m), "name") = <<Official, u>>
<1> DEFINE own == Replaced(m, "name", <<Official, u>>)
           t1 == <<"state", Accepted>>  t2 == <<"rating", InitialRating>>
           t3 == <<"category", users[u].category>>  t4 == <<"area", users[u].area>>
           tail == <<t1, t2, t3, t4>>
           w == own \o tail
<1>1. Registered(u, m) = w
  BY DEF Registered
<1>2. /\ IsMessage(m) /\ Len(m) \in Nat /\ Len(m) + 6 <= MaxFields /\ MaxFields \in Nat
      /\ {"device", "offset", "binary"} \subseteq Numbers(m)
  BY SubmittedAreMessages, MessageDomain, NameAssumption DEF Complete
<1>3. /\ IsMessage(own) /\ Len(own) <= Len(m) + 1 /\ Numbers(own) = Numbers(m) \cup {"name"}
      /\ Read(own, "name") = <<Official, u>>
  <2>1. /\ IsMessage(own) /\ Len(own) <= Len(m) + (IF "name" \in Numbers(m) THEN 0 ELSE 1)
        /\ Numbers(own) = Numbers(m) \cup {"name"}
        /\ Read(own, "name") = <<Official, u>>
    BY <1>2, ReplacedFacts
  <2>2. Len(own) \in Nat
    BY <2>1, MessageDomain
  <2> HIDE DEF own
  <2> QED BY <1>2, <2>1, <2>2
<1>4. /\ IsMessage(tail) /\ Len(tail) = 4 /\ DOMAIN tail = 1..4
      /\ tail[1] = t1 /\ tail[2] = t2 /\ tail[3] = t3 /\ tail[4] = t4
  <2> HIDE DEF t1, t2, t3, t4
  <2>1. tail \in Seq({t1, t2, t3, t4})
    OBVIOUS
  <2>2. /\ Len(tail) = 4 /\ DOMAIN tail = 1..4
        /\ tail[1] = t1 /\ tail[2] = t2 /\ tail[3] = t3 /\ tail[4] = t4
    OBVIOUS
  <2> HIDE DEF tail
  <2> QED BY <2>1, <2>2, SequencesAreMessages
<1>5. /\ t1[1] = "state" /\ t1[2] = Accepted /\ t2[1] = "rating" /\ t2[2] = InitialRating
      /\ t3[1] = "category" /\ t4[1] = "area"
  OBVIOUS
<1> HIDE DEF tail, t1, t2, t3, t4, own
<1>6. \A i \in 1..4 : i = 1 \/ i = 2 \/ i = 3 \/ i = 4
  OBVIOUS
<1>7. Numbers(tail) = {"state", "rating", "category", "area"}
  BY <1>4, <1>5, <1>6 DEF Numbers
<1>8. Read(tail, "state") = Accepted
  <2>1. 1 \in 1..Len(tail) /\ tail[1][1] = "state"
        /\ \A j \in 1..Len(tail) : 1 < j => tail[j][1] # "state"
    BY <1>4, <1>5, <1>6
  <2>2. Read(tail, "state") = tail[1][2]
    BY <1>4, <2>1, ReadAt
  <2> QED BY <1>4, <1>5, <2>2
<1>9. Read(tail, "rating") = InitialRating
  <2>1. 2 \in 1..Len(tail) /\ tail[2][1] = "rating"
        /\ \A j \in 1..Len(tail) : 2 < j => tail[j][1] # "rating"
    BY <1>4, <1>5, <1>6
  <2>2. Read(tail, "rating") = tail[2][2]
    BY <1>4, <2>1, ReadAt
  <2> QED BY <1>4, <1>5, <2>2
<1>10. IsMessage(w) /\ Len(w) = Len(own) + 4
  <2>1. IsMessage(w) /\ Len(w) = Len(own) + Len(tail)
    BY <1>3, <1>4, JoinedMessages
  <2> QED BY <1>4, <2>1
<1>11. Numbers(w) = Numbers(own) \cup Numbers(tail)
  BY <1>3, <1>4, ReadJoined
<1>12. Read(w, "state") = Accepted
  BY <1>3, <1>4, <1>7, <1>8, ReadJoined
<1>13. Read(w, "rating") = InitialRating
  BY <1>3, <1>4, <1>7, <1>9, ReadJoined
<1>14. Read(w, "name") = <<Official, u>>
  BY <1>3, <1>4, <1>7, ReadJoined
<1> HIDE DEF w
<1>15. Len(w) + (IF "activeTime" \in Numbers(w) THEN 0 ELSE 1) <= MaxFields
  <2>1. Len(own) \in Nat
    BY <1>3, MessageDomain
  <2> QED BY <1>2, <1>3, <1>10, <2>1
<1> QED BY <1>1, <1>2, <1>3, <1>7, <1>10, <1>11, <1>12, <1>13, <1>14, <1>15 DEF ParticipantFits

LEMMA RegisterInv ==
    ASSUME HostingInv, NEW u \in User, NEW m \in Submitted, CreateCompetitionParticipant(u, m)
    PROVE  HostingInv'
<1>1. /\ Complete(m)
      /\ official' = [x \in DOMAIN official \cup {u} |->
                        IF x = u THEN Registered(u, m) ELSE official[x]]
      /\ users' = [users EXCEPT ![u].currentOfficial = Official]
      /\ UNCHANGED <<hosted, aliases>>
  BY DEF CreateCompetitionParticipant
<1>2. \A x \in DOMAIN official' : ParticipantFits(official'[x])
  BY <1>1, RegisteredFacts DEF HostingInv
<1>3. users' \in [User -> Profile]
  BY <1>1 DEF HostingInv, Profile
<1>4. ReferencesFit'
  <2>1. \A v \in User : v # u => users'[v] = users[v]
    BY <1>1 DEF HostingInv
  <2>2. /\ users'[u].currentFriendly = users[u].currentFriendly
        /\ users'[u].currentOfficial = Official
    BY <1>1 DEF HostingInv, Profile
  <2>3. DOMAIN official' = DOMAIN official \cup {u}
    BY <1>1
  <2> QED BY <1>1, <2>1, <2>2, <2>3 DEF HostingInv, ReferencesFit
<1>5. DOMAIN official' \subseteq User
  BY <1>1 DEF HostingInv
<1> QED BY <1>1, <1>2, <1>3, <1>4, <1>5 DEF HostingInv, CodesFit, HostedFits

LEMMA ActivatedFacts ==
    ASSUME NEW m, ParticipantFits(m), NEW b \in Binary \cup {Unset}
    PROVE  /\ ParticipantFits(Activated(m, b))
           /\ Read(Activated(m, b), "state") = Active
           /\ b # Unset => Read(Activated(m, b), "binary") = b
<1> DEFINE equipped == IF b = Unset THEN m ELSE Replaced(m, "binary", b)
           ready == Replaced(equipped, "state", Active)
           w == Replaced(ready, "activeTime", 0)
<1>1. Activated(m, b) = w
  BY DEF Activated
<1>2. /\ IsMessage(m) /\ Len(m) \in Nat /\ {"state", "binary"} \subseteq Numbers(m)
      /\ Read(m, "rating") = InitialRating /\ MaxFields \in Nat
      /\ Len(m) + (IF "activeTime" \in Numbers(m) THEN 0 ELSE 1) <= MaxFields
  BY MessageDomain, NameAssumption DEF ParticipantFits
<1>3. /\ IsMessage(equipped) /\ Numbers(equipped) = Numbers(m)
      /\ Len(equipped) \in Nat /\ Len(equipped) <= Len(m)
      /\ Read(equipped, "rating") = InitialRating
      /\ b # Unset => Read(equipped, "binary") = b
  <2>1. CASE b = Unset
    BY <1>2, <2>1
  <2>2. CASE b # Unset
    <3> DEFINE r == Replaced(m, "binary", b)
    <3>1. /\ IsMessage(r) /\ Numbers(r) = Numbers(m) \cup {"binary"}
          /\ Len(r) <= Len(m) + (IF "binary" \in Numbers(m) THEN 0 ELSE 1)
          /\ Read(r, "binary") = b
          /\ "rating" # "binary" => Read(r, "rating") = Read(m, "rating")
      BY <1>2, ReplacedFacts
    <3>2. Len(r) \in Nat
      BY <3>1, MessageDomain
    <3>3. equipped = r
      BY <2>2
    <3> HIDE DEF r, equipped
    <3> QED BY <1>2, <3>1, <3>2, <3>3
  <2> QED BY <2>1, <2>2
<1> HIDE DEF equipped
<1>4. /\ IsMessage(ready) /\ Numbers(ready) = Numbers(m)
      /\ Len(ready) \in Nat /\ Len(ready) <= Len(m)
      /\ Read(ready, "rating") = InitialRating /\ Read(ready, "state") = Active
      /\ b # Unset => Read(ready, "binary") = b
  <2>1. /\ IsMessage(ready) /\ Numbers(ready) = Numbers(equipped) \cup {"state"}
        /\ Len(ready) <= Len(equipped) + (IF "state" \in Numbers(equipped) THEN 0 ELSE 1)
        /\ Read(ready, "state") = Active
        /\ "rating" # "state" => Read(ready, "rating") = Read(equipped, "rating")
        /\ "binary" # "state" => Read(ready, "binary") = Read(equipped, "binary")
    BY <1>3, ReplacedFacts
  <2>2. Len(ready) \in Nat
    BY <2>1, MessageDomain
  <2> HIDE DEF ready
  <2> QED BY <1>2, <1>3, <2>1, <2>2
<1> HIDE DEF ready
<1>5. /\ IsMessage(w) /\ Numbers(w) = Numbers(ready) \cup {"activeTime"}
      /\ Len(w) <= Len(ready) + (IF "activeTime" \in Numbers(ready) THEN 0 ELSE 1)
      /\ "rating" # "activeTime" => Read(w, "rating") = Read(ready, "rating")
      /\ "binary" # "activeTime" => Read(w, "binary") = Read(ready, "binary")
      /\ "state" # "activeTime" => Read(w, "state") = Read(ready, "state")
  BY <1>4, ReplacedFacts
<1>6. Len(w) \in Nat
  BY <1>5, MessageDomain
<1> HIDE DEF w
<1>7. Len(w) <= MaxFields /\ "activeTime" \in Numbers(w)
  BY <1>2, <1>4, <1>5, <1>6
<1> QED BY <1>1, <1>2, <1>4, <1>5, <1>6, <1>7 DEF ParticipantFits

LEMMA ActivateInv ==
    ASSUME HostingInv, NEW u \in User, NEW b \in Binary \cup {Unset},
           ActivateCompetitionParticipant(u, b)
    PROVE  HostingInv'
<1>1. /\ u \in DOMAIN official /\ official' = [official EXCEPT ![u] = Activated(@, b)]
      /\ UNCHANGED <<users, hosted, aliases>>
  BY DEF ActivateCompetitionParticipant
<1>2. ParticipantFits(Activated(official[u], b))
  BY <1>1, ActivatedFacts DEF HostingInv
<1>3. DOMAIN official' = DOMAIN official /\ \A x \in DOMAIN official : ParticipantFits(official'[x])
  BY <1>1, <1>2 DEF HostingInv
<1> QED BY <1>1, <1>3 DEF HostingInv, CodesFit, HostedFits, ReferencesFit

LEMMA HostingStep == HostingInv /\ [HostingNext]_hostingVars => HostingInv'
<1> SUFFICES ASSUME HostingInv, [HostingNext]_hostingVars PROVE HostingInv'
  OBVIOUS
<1>1. CASE UNCHANGED hostingVars
  BY <1>1 DEF hostingVars, HostingInv, CodesFit, HostedFits, ReferencesFit, ParticipantFits
<1>2. CASE HostingNext
  <2>1. PICK u \in User :
          \/ \E n \in Competition \cup {Nobody}, m \in Submitted : HostCompetition(u, n, m)
          \/ \E r \in UpdateRequest : UpdateCompetitionUser(u, r)
          \/ \E m \in Submitted : CreateCompetitionParticipant(u, m)
          \/ \E b \in Binary \cup {Unset} : ActivateCompetitionParticipant(u, b)
    BY <1>2 DEF HostingNext
  <2> QED BY <2>1, HostInv, UpdateUserInv, RegisterInv, ActivateInv
<1> QED BY <1>1, <1>2

(* Through all edits (src/competition.go) every code leads to a            *)
(* competition with this code, every reference to one of its user, and     *)
(* every participant reads as it was last registered.                      *)
THEOREM HostingInvariant == HostingSpec => []HostingInv
  BY HostingInvInit, HostingStep, PTL DEF HostingSpec

(* What a reader finds on the official competition and on a season. *)
LEMMA OfficialRead ==
    ASSUME NEW area
    PROVE  /\ Read(OfficialCompetition(area), "name") = Official
           /\ Read(OfficialCompetition(area), "alias") = OfficialCode
<1> DEFINE t1 == <<"name", Official>>  t2 == <<"alias", OfficialCode>>  t3 == <<"type", 1>>
           t4 == <<"area", IF area = 0 THEN DefaultArea ELSE area>>
           w == <<t1, t2, t3, t4>>
<1>1. OfficialCompetition(area) = w
  BY DEF OfficialCompetition
<1>2. /\ t1[1] = "name" /\ t1[2] = Official /\ t2[1] = "alias" /\ t2[2] = OfficialCode
      /\ t3[1] = "type" /\ t4[1] = "area"
  OBVIOUS
<1> HIDE DEF t1, t2, t3, t4
<1>3. w \in Seq({t1, t2, t3, t4})
  OBVIOUS
<1>4. /\ Len(w) = 4 /\ w[1] = t1 /\ w[2] = t2 /\ w[3] = t3 /\ w[4] = t4
  OBVIOUS
<1> HIDE DEF w
<1>5. IsMessage(w) /\ \A i \in 1..4 : i = 1 \/ i = 2 \/ i = 3 \/ i = 4
  BY <1>3, SequencesAreMessages
<1>6. Read(w, "name") = w[1][2]
  <2>1. 1 \in 1..Len(w) /\ w[1][1] = "name" /\ \A j \in 1..Len(w) : 1 < j => w[j][1] # "name"
    BY <1>2, <1>4, <1>5
  <2> QED BY <1>5, <2>1, ReadAt
<1>7. Read(w, "alias") = w[2][2]
  <2>1. 2 \in 1..Len(w) /\ w[2][1] = "alias" /\ \A j \in 1..Len(w) : 2 < j => w[j][1] # "alias"
    BY <1>2, <1>4, <1>5
  <2> QED BY <1>5, <2>1, ReadAt
<1> QED BY <1>1, <1>2, <1>4, <1>6, <1>7

LEMMA SeasonRead == ASSUME NEW n PROVE Read(Season(n), "name") = n
<1> DEFINE t1 == <<"name", n>>  t2 == <<"state", 1>>  t3 == <<"type", 3>>
           w == <<t1, t2, t3>>
<1>1. Season(n) = w
  BY DEF Season
<1>2. t1[1] = "name" /\ t1[2] = n /\ t2[1] = "state" /\ t3[1] = "type"
  OBVIOUS
<1> HIDE DEF t1, t2, t3
<1>3. w \in Seq({t1, t2, t3})
  OBVIOUS
<1>4. /\ Len(w) = 3 /\ w[1] = t1 /\ w[2] = t2 /\ w[3] = t3
  OBVIOUS
<1> HIDE DEF w
<1>5. IsMessage(w) /\ \A i \in 1..3 : i = 1 \/ i = 2 \/ i = 3
  BY <1>3, SequencesAreMessages
<1>6. 1 \in 1..Len(w) /\ w[1][1] = "name" /\ \A j \in 1..Len(w) : 1 < j => w[j][1] # "name"
  BY <1>2, <1>4, <1>5
<1>7. Read(w, "name") = w[1][2]
  BY <1>5, <1>6, ReadAt
<1> QED BY <1>1, <1>2, <1>4, <1>7

(* A code that is shown on a competition finds one that shows this code,   *)
(* also where two share one, and whatever names clients host under, but    *)
(* for the official code once the official name is hosted.                 *)
THEOREM CodesLeadTheorem == HostingSpec => []CodesLeadHome
<1>1. HostingInv => CodesLeadHome
  <2> SUFFICES ASSUME HostingInv PROVE CodesLeadHome
    OBVIOUS
  <2>1. Nobody \notin DOMAIN hosted /\ Nobody # Official
    BY NameAssumption DEF HostingInv, Competition
  <2>2. ASSUME NEW u \in User, NEW c \in DOMAIN aliases
        PROVE  Read(GetCompetition(u, GetCompetitionAlias(c)), "alias") = c
                  \/ (c = OfficialCode /\ aliases[c] = Official /\ Official \in DOMAIN hosted)
    <3>1. GetCompetitionAlias(c) = aliases[c]
      BY DEF GetCompetitionAlias
    <3>2. CASE aliases[c] = Official /\ c = OfficialCode
      BY <2>1, <3>1, <3>2, OfficialRead DEF GetCompetition
    <3>3. CASE aliases[c] \in DOMAIN hosted /\ CodeOf[aliases[c]] = c
      BY <3>1, <3>3 DEF GetCompetition, HostingInv, HostedFits
    <3> QED BY <3>2, <3>3 DEF HostingInv, CodesFit
  <2>3. ASSUME NEW n \in DOMAIN hosted
        PROVE  GetCompetitionAlias(Read(hosted[n].competition, "alias")) # Nobody
    <3>1. Read(hosted[n].competition, "alias") = CodeOf[n] /\ CodeOf[n] \in DOMAIN aliases
      BY DEF HostingInv, HostedFits, CodesFit
    <3>2. aliases[CodeOf[n]] # Nobody
      BY <2>1, <3>1 DEF HostingInv, CodesFit
    <3> QED BY <3>1, <3>2 DEF GetCompetitionAlias
  <2> QED BY <2>2, <2>3 DEF CodesLeadHome
<1> QED BY <1>1, HostingInvariant, PTL

(* What a user's resource refers to exists and is his. *)
THEOREM ReferencesTheorem == HostingSpec => []ReferencesAreOwn
<1>1. HostingInv => ReferencesAreOwn
  <2> SUFFICES ASSUME HostingInv, NEW u \in User
               PROVE  /\ \A n \in CompetitionUser(u).references :
                           Read(GetCompetition(u, n), "name") = n
                      /\ LET n == users[u].currentFriendly
                         IN  n # Nobody => /\ hosted[n].owner = u
                                           /\ Read(hosted[n].participant, "name") = <<n, u>>
                      /\ users[u].currentOfficial = Official <=> u \in DOMAIN official
    BY DEF ReferencesAreOwn
  <2>1. ASSUME NEW n \in CompetitionUser(u).references PROVE Read(GetCompetition(u, n), "name") = n
    <3>1. n \in DOMAIN hosted \/ n = Official \/ n \in Ranked
      BY DEF CompetitionUser, HostingInv, ReferencesFit, Profile
    <3>2. CASE n \in DOMAIN hosted
      BY <3>2 DEF GetCompetition, HostingInv, HostedFits
    <3>3. CASE n \notin DOMAIN hosted /\ n = Official
      BY <3>3, OfficialRead DEF GetCompetition
    <3>4. CASE n \notin DOMAIN hosted /\ n # Official /\ n \in Ranked
      BY <3>4, SeasonRead DEF GetCompetition
    <3> QED BY <3>1, <3>2, <3>3, <3>4
  <2> QED BY <2>1 DEF HostingInv, HostedFits, ReferencesFit
<1> QED BY <1>1, HostingInvariant, PTL

(* Whatever fields the game submits, a reader of a participant finds the   *)
(* state the server last gave it.                                          *)
THEOREM StateTheorem == HostingSpec => StateIsRead
<1>1. HostingInv => \A u \in User :
         /\ \A m \in Submitted : CreateCompetitionParticipant(u, m) =>
              /\ Read(official'[u], "state") = Accepted
              /\ Read(official'[u], "rating") = InitialRating
              /\ Read(official'[u], "name") = <<Official, u>>
         /\ \A b \in Binary : ActivateCompetitionParticipant(u, b) =>
              /\ Read(official'[u], "state") = Active
              /\ Read(official'[u], "binary") = b
              /\ Read(official'[u], "rating") = InitialRating
  <2> SUFFICES ASSUME HostingInv, NEW u \in User
               PROVE  /\ \A m \in Submitted : CreateCompetitionParticipant(u, m) =>
                           /\ Read(official'[u], "state") = Accepted
                           /\ Read(official'[u], "rating") = InitialRating
                           /\ Read(official'[u], "name") = <<Official, u>>
                      /\ \A b \in Binary : ActivateCompetitionParticipant(u, b) =>
                           /\ Read(official'[u], "state") = Active
                           /\ Read(official'[u], "binary") = b
                           /\ Read(official'[u], "rating") = InitialRating
    OBVIOUS
  <2>1. ASSUME NEW m \in Submitted, CreateCompetitionParticipant(u, m)
        PROVE  /\ Read(official'[u], "state") = Accepted
               /\ Read(official'[u], "rating") = InitialRating
               /\ Read(official'[u], "name") = <<Official, u>>
    <3>1. official'[u] = Registered(u, m) /\ Complete(m)
      BY <2>1 DEF CreateCompetitionParticipant
    <3> QED BY <3>1, RegisteredFacts DEF ParticipantFits
  <2>2. ASSUME NEW b \in Binary, ActivateCompetitionParticipant(u, b)
        PROVE  /\ Read(official'[u], "state") = Active
               /\ Read(official'[u], "binary") = b
               /\ Read(official'[u], "rating") = InitialRating
    <3>1. official'[u] = Activated(official[u], b) /\ ParticipantFits(official[u]) /\ b # Unset
      BY <2>2, NameAssumption DEF ActivateCompetitionParticipant, HostingInv
    <3> DEFINE m == official[u]  w == Activated(m, b)
    <3>2. ParticipantFits(m) /\ official'[u] = w
      BY <3>1
    <3> HIDE DEF m
    <3>3. ParticipantFits(w) /\ Read(w, "state") = Active /\ Read(w, "binary") = b
      BY <3>1, <3>2, ActivatedFacts
    <3> QED BY <3>2, <3>3 DEF ParticipantFits
  <2> QED BY <2>1, <2>2
<1> QED BY <1>1, HostingInvariant, PTL DEF HostingSpec, StateIsRead

-----------------------------------------------------------------------------
(* Pages                                                                   *)
(*                                                                         *)
(* The first names past a token and their order, for any finite set of     *)
(* names.                                                                  *)

(* A sorted set is the sequence of its members, each once. *)
LEMMA SortedFacts ==
    ASSUME NEW S \in SUBSET Nat, IsFiniteSet(S)
    PROVE  /\ Sorted(S) \in Seq(S) /\ Len(Sorted(S)) = Cardinality(S)
           /\ \A i, j \in 1..Len(Sorted(S)) : Sorted(S)[i] = Sorted(S)[j] => i = j
           /\ \A n \in S : \E i \in 1..Len(Sorted(S)) : Sorted(S)[i] = n
<1> DEFINE c == Cardinality(S)  s == Sorted(S)
<1>1. c \in Nat
  BY FS_CardinalityType
<1>2. s = [i \in 1..c |-> CHOOSE n \in S : Rank(S, n) = i - 1]
  BY DEF Sorted, Rank
<1> HIDE DEF s
<1>3. ASSUME NEW i \in 1..c PROVE s[i] \in S /\ Rank(S, s[i]) = i - 1
  <2>1. i - 1 \in 0..(c - 1)
    BY <1>1
  <2>2. \E n \in S : Rank(S, n) = i - 1
    BY <2>1, RankFacts
  <2>3. s[i] = CHOOSE n \in S : Rank(S, n) = i - 1
    BY <1>2
  <2> QED BY <2>2, <2>3
<1> HIDE DEF c
<1>4. s = [i \in 1..c |-> s[i]]
  BY <1>2
<1>5. s \in Seq(S) /\ Len(s) = c
  BY <1>1, <1>3, <1>4
<1>6. \A i, j \in 1..c : s[i] = s[j] => i = j
  BY <1>1, <1>3
<1>7. ASSUME NEW n \in S PROVE \E i \in 1..c : s[i] = n
  <2>1. Rank(S, n) \in 0..(c - 1)
    BY RankFacts DEF c
  <2>2. Rank(S, n) + 1 \in 1..c /\ Rank(S, s[Rank(S, n) + 1]) = Rank(S, n)
    <3>1. Rank(S, n) + 1 \in 1..c
      BY <1>1, <2>1
    <3> QED BY <1>1, <1>3, <2>1, <3>1
  <2>3. s[Rank(S, n) + 1] \in S
    BY <1>3, <2>2
  <2>4. s[Rank(S, n) + 1] = n
    <3> DEFINE m == s[Rank(S, n) + 1]
    <3>2. Rank(S, m) = Rank(S, n) /\ m \in S
      BY <2>2, <2>3
    <3> HIDE DEF m
    <3>1. m \in Nat /\ n \in Nat /\ (m = n \/ m < n \/ n < m)
      BY <3>2
    <3>3. ~ (m < n) /\ ~ (n < m)
      BY <2>1, <3>2, RankFacts
    <3> QED BY <3>1, <3>3 DEF m
  <2> QED BY <2>2, <2>4
<1> QED BY <1>5, <1>6, <1>7 DEF c, s

(* What a page leaves out is what the next one is asked for. *)
PageFits(S, token, names, next) ==
    /\ names \in SUBSET S /\ IsFiniteSet(names) /\ next \in Nat
    /\ \A n \in names : n > token
    /\ next = 0 => \A n \in S : n > token => n \in names
    /\ next # 0 => /\ next > token
                   /\ \A n \in names : n <= next
                   /\ \A n \in S : n > token /\ n <= next => n \in names

LEMMA PageFacts ==
    ASSUME NEW S \in SUBSET Nat, IsFiniteSet(S), NEW token \in Nat, NEW limit \in Nat \ {0}
    PROVE  PageFits(S, token, Page(S, token, limit).names, Page(S, token, limit).next)
<1> DEFINE after == {n \in S : n > token}
           shown == {n \in after : Rank(after, n) < limit}
           last == CHOOSE n \in shown : \A m \in shown : m <= n
<1>1. /\ Page(S, token, limit).names = shown
      /\ Page(S, token, limit).next = IF shown = after THEN 0 ELSE last
  BY DEF Page, Rank
<1>2. /\ after \in SUBSET Nat /\ after \in SUBSET S /\ shown \in SUBSET after
      /\ \A n \in shown : n \in after
  OBVIOUS
<1>3. \A n \in S : n > token => n \in after
  OBVIOUS
<1>4. \A n \in after : n > token /\ n \in Nat
  OBVIOUS
<1>5. \A n \in after : n \in shown <=> Rank(after, n) < limit
  OBVIOUS
<1>6. (\E n \in shown : \A m \in shown : m <= n) => last \in shown /\ \A m \in shown : m <= last
  OBVIOUS
<1> HIDE DEF after, shown, last
<1>7. IsFiniteSet(after) /\ IsFiniteSet(shown) /\ shown \in SUBSET Nat
  <2>1. IsFiniteSet(after)
    BY <1>2, FS_Subset
  <2> QED BY <1>2, <2>1, FS_Subset
<1>8. ASSUME shown = after PROVE PageFits(S, token, shown, 0)
  <2>1. PageFits(S, token, after, 0)
    BY <1>2, <1>3, <1>4, <1>7 DEF PageFits
  <2> QED BY <1>8, <2>1
<1>9. ASSUME shown # after PROVE PageFits(S, token, shown, last)
  <2>1. PICK a \in after : a \notin shown
    BY <1>2, <1>9
  <2>2. PICK b \in after : \A m \in after : b <= m
    BY <1>2, <2>1, LeastNumber
  <2>3. Rank(after, b) = 0
    <3>1. {m \in after : m < b} = {}
      BY <1>4, <2>2
    <3> QED BY <3>1, FS_EmptySet DEF Rank
  <2>4. shown # {}
    BY <1>5, <2>3
  <2>5. \E n \in shown : \A m \in shown : m <= n
    BY <1>7, <2>4, GreatestMember
  <2>6. last \in shown /\ last \in after /\ \A m \in shown : m <= last
    BY <1>2, <1>6, <2>5
  <2>7. ASSUME NEW n \in S, n > token, n <= last PROVE n \in shown
    <3>1. n \in after
      BY <1>3, <2>7
    <3>2. n = last \/ n < last
      BY <1>4, <2>6, <2>7, <3>1
    <3>3. Rank(after, last) < limit /\ Rank(after, last) \in Int
      BY <1>2, <1>5, <1>7, <2>6, RankFacts
    <3>4. CASE n < last
      <4>1. Rank(after, n) < Rank(after, last) /\ Rank(after, n) \in Int
        BY <1>2, <1>7, <2>6, <3>1, <3>4, RankFacts
      <4> QED BY <1>5, <3>1, <3>3, <4>1
    <3> QED BY <2>6, <3>2, <3>4
  <2>8. last > token /\ last \in Nat /\ last # 0
    BY <1>4, <2>6
  <2> QED BY <1>2, <1>4, <1>7, <2>6, <2>7, <2>8 DEF PageFits
<1> QED BY <1>1, <1>8, <1>9

-----------------------------------------------------------------------------
(* Walks                                                                   *)
(*                                                                         *)
(* Rooms stay finite and of their type; a walk has been shown, each once,  *)
(* all the names up to its token that stayed.                              *)

RoomFits(s, n) == s \in GameSession /\ s.name = n /\ IsFiniteSet(s.users)
RoomsFit ==
    /\ IsFiniteSet(DOMAIN sessions)
    /\ \A n \in DOMAIN sessions : n \in RoomName /\ RoomFits(sessions[n], n)
DocumentsFit == documents \subseteq DocumentName /\ IsFiniteSet(documents)

Names(of) == IF of = "rooms" THEN RoomName ELSE IF of = "users" THEN SeatName ELSE DocumentName

Shown(w, n) == \E i \in 1..Len(w.seen) : w.seen[i] = n
WalkFits(w) ==
    /\ w \in Walk
    /\ w.query.size \in Nat
    /\ w.of = "users" => w.query.parent \in DOMAIN sessions
    /\ \A i, j \in 1..Len(w.seen) : w.seen[i] = w.seen[j] => i = j
    /\ w.done => \A n \in w.stayed : Shown(w, n)
    /\ ~ w.done => /\ w.stayed \subseteq Listed(w)
                   /\ \A i \in 1..Len(w.seen) : w.seen[i] <= w.token
                   /\ \A n \in w.stayed : n <= w.token => Shown(w, n)

ReadsInv ==
    RoomsFit /\ DocumentsFit /\ (walk = Idle \/ WalkFits(walk)) /\ changes \in 0..MaxChanges

LEMMA NameFacts == ASSUME NEW of PROVE Names(of) \subseteq Nat \ {0}
  BY SessionNameAssumption, PagedAssumption DEF Names

LEMMA WalkShape ==
    ASSUME NEW w \in Walk
    PROVE  /\ w.of \in {"rooms", "users", "documents"} /\ w # Idle
           /\ w.by \in Person /\ w.token \in Nat /\ w.done \in BOOLEAN
           /\ w.seen \in Seq(Names(w.of)) /\ w.stayed \in SUBSET Names(w.of)
           /\ w.of = "rooms" => w.query \in Queries
           /\ w.of = "users" => w.query \in ListUserSessionsRequest
           /\ w.of = "documents" => w.query \in ListDocumentsRequest
<1>1. \/ w \in [of : {"rooms"}, by : Person, query : Queries, token : Nat,
                seen : Seq(RoomName), stayed : SUBSET RoomName, done : BOOLEAN]
      \/ w \in [of : {"users"}, by : Person, query : ListUserSessionsRequest, token : Nat,
                seen : Seq(SeatName), stayed : SUBSET SeatName, done : BOOLEAN]
      \/ w \in [of : {"documents"}, by : Person, query : ListDocumentsRequest, token : Nat,
                seen : Seq(DocumentName), stayed : SUBSET DocumentName, done : BOOLEAN]
  BY DEF Walk
<1>2. "rooms" # "users" /\ "rooms" # "documents" /\ "users" # "documents"
      /\ "rooms" # "nothing" /\ "users" # "nothing" /\ "documents" # "nothing"
  OBVIOUS
<1>3. Idle.of = "nothing"
  BY DEF Idle
<1>4. CASE w \in [of : {"rooms"}, by : Person, query : Queries, token : Nat,
                seen : Seq(RoomName), stayed : SUBSET RoomName, done : BOOLEAN]
  <2>1. w.of = "rooms"
    BY <1>4
  <2> QED BY <1>2, <1>3, <1>4, <2>1 DEF Names
<1>5. CASE w \in [of : {"users"}, by : Person, query : ListUserSessionsRequest, token : Nat,
                seen : Seq(SeatName), stayed : SUBSET SeatName, done : BOOLEAN]
  <2>1. w.of = "users"
    BY <1>5
  <2> QED BY <1>2, <1>3, <1>5, <2>1 DEF Names
<1>6. CASE w \in [of : {"documents"}, by : Person, query : ListDocumentsRequest, token : Nat,
                seen : Seq(DocumentName), stayed : SUBSET DocumentName, done : BOOLEAN]
  <2>1. w.of = "documents"
    BY <1>6
  <2> QED BY <1>2, <1>3, <1>6, <2>1 DEF Names
<1> QED BY <1>1, <1>4, <1>5, <1>6

(* What a walk lists is a finite set of names. *)
LEMMA SeatsFinite ==
    ASSUME RoomsFit, NEW n \in DOMAIN sessions
    PROVE  IsFiniteSet(SeatNames(n)) /\ SeatNames(n) \subseteq SeatName
<1> DEFINE U == sessions[n].users  T == {x.name : x \in U}  f == [x \in U |-> x.name]
<1>1. IsFiniteSet(U) /\ U \subseteq UserSession
  BY DEF RoomsFit, RoomFits, GameSession
<1>2. \A x \in U : f[x] \in T /\ x.name \in SeatName
  BY <1>1 DEF UserSession
<1>3. \A y \in T : \E x \in U : f[x] = y
  OBVIOUS
<1>4. f \in [U -> T]
  BY <1>2
<1>5. T \subseteq SeatName
  BY <1>2
<1> HIDE DEF f, T, U
<1>6. f \in Surjection(U, T)
  BY <1>3, <1>4, Fun_IsSurj
<1>7. IsFiniteSet(T)
  BY <1>1, <1>6, FS_Surjection
<1> QED BY <1>5, <1>7 DEF SeatNames, T, U

LEMMA ListedFacts ==
    ASSUME RoomsFit, DocumentsFit, NEW w \in Walk,
           w.of = "users" => w.query.parent \in DOMAIN sessions
    PROVE  IsFiniteSet(Listed(w)) /\ Listed(w) \subseteq Names(w.of)
<1>1. w.of \in {"rooms", "users", "documents"}
  BY WalkShape
<1>2. "rooms" # "users" /\ "rooms" # "documents" /\ "users" # "documents"
  OBVIOUS
<1>3. CASE w.of = "rooms"
  <2>1. Listed(w) = Matching(w.by, w.query)
    BY <1>3 DEF Listed
  <2>2. Listed(w) \in SUBSET (DOMAIN sessions)
    BY <2>1 DEF Matching
  <2> QED BY <1>3, <2>2, FS_Subset DEF RoomsFit, Names
<1>4. CASE w.of = "users"
  <2>1. Listed(w) = SeatNames(w.query.parent)
    BY <1>2, <1>4 DEF Listed
  <2> QED BY <1>2, <1>4, <2>1, SeatsFinite DEF Names
<1>5. CASE w.of = "documents"
  <2>1. Listed(w) = documents
    BY <1>2, <1>5 DEF Listed
  <2> QED BY <1>2, <1>5, <2>1 DEF Names, DocumentsFit
<1> QED BY <1>1, <1>3, <1>4, <1>5

LEMMA LimitFacts ==
    ASSUME NEW size \in Nat PROVE Limit(size) \in Nat \ {0} /\ ListLimit(size) \in Nat \ {0}
  BY DEF Limit, ListLimit

(* The next page: the names of a page of what is listed, in order. *)
LEMMA AnswerFacts ==
    ASSUME RoomsFit, DocumentsFit, NEW w \in Walk, w.query.size \in Nat,
           w.of = "users" => w.query.parent \in DOMAIN sessions
    PROVE  \E limit \in Nat \ {0} :
              /\ Answer(w).names = Sorted(Page(Listed(w), w.token, limit).names)
              /\ Answer(w).next = Page(Listed(w), w.token, limit).next
<1> DEFINE q == [w.query EXCEPT !.token = w.token]
<1>0. /\ w.of \in {"rooms", "users", "documents"} /\ w.token \in Nat
      /\ "rooms" # "users" /\ "rooms" # "documents" /\ "users" # "documents"
  BY WalkShape
<1>1. IsFiniteSet(Listed(w)) /\ Listed(w) \in SUBSET Nat
  <2>1. Listed(w) \subseteq Names(w.of) /\ Names(w.of) \subseteq Nat \ {0}
    BY ListedFacts, NameFacts
  <2> QED BY <2>1, ListedFacts
<1>2. ASSUME NEW limit \in Nat \ {0}
      PROVE  LET S == Page(Listed(w), w.token, limit).names
             IN  /\ S \in SUBSET Listed(w) /\ S \in SUBSET Nat /\ IsFiniteSet(S)
                 /\ Sorted(S) \in Seq(S)
  <2>1. PageFits(Listed(w), w.token, Page(Listed(w), w.token, limit).names,
                 Page(Listed(w), w.token, limit).next)
    BY <1>0, <1>1, PageFacts
  <2> DEFINE S == Page(Listed(w), w.token, limit).names
  <2>2. S \in SUBSET Listed(w) /\ S \in SUBSET Nat /\ IsFiniteSet(S)
    BY <1>1, <2>1 DEF PageFits
  <2> HIDE DEF S
  <2>3. Sorted(S) \in Seq(S)
    BY <2>2, SortedFacts
  <2>4. /\ S \in SUBSET Listed(w) /\ S \in SUBSET Nat /\ IsFiniteSet(S)
        /\ Sorted(S) \in Seq(S)
    BY ONLY <2>2, <2>3
  <2> QED BY ONLY <2>4 DEF S
<1>3. CASE w.of = "rooms"
  <2> DEFINE p == Page(Listed(w), w.token, Limit(w.query.size))
             names == Sorted(p.names)
             a == QueryGameSessions(w.by, q)
  <2>1. /\ w.query \in QueryGameSessionsRequest /\ q.token = w.token
        /\ q.size = w.query.size /\ q.view = w.query.view
        /\ q.config = w.query.config /\ q.vacancy = w.query.vacancy
        /\ q.participants = w.query.participants /\ q.difficulty = w.query.difficulty
        /\ q.users = w.query.users
    BY <1>3, WalkShape, PagedAssumption DEF QueryGameSessionsRequest
  <2> HIDE DEF q
  <2>2. \A s : Difficult(s, q) <=> Difficult(s, w.query)
    BY <2>1 DEF Difficult
  <2>3. \A s : Matches(w.by, q, s) <=> Matches(w.by, w.query, s)
    BY <2>1, <2>2 DEF Matches
  <2>4. Matching(w.by, q) = Listed(w)
    <3>1. Listed(w) = Matching(w.by, w.query)
      BY <1>3 DEF Listed
    <3> QED BY <2>3, <3>1 DEF Matching
  <2>5. a = [sessions |-> [i \in DOMAIN names |-> SafeView(sessions[names[i]], q.view)],
             next |-> p.next]
    BY <2>1, <2>4 DEF QueryGameSessions
  <2>6. Answer(w) = [names |-> [i \in DOMAIN a.sessions |-> a.sessions[i].name], next |-> a.next]
    BY <1>3 DEF Answer, q
  <2>7. Limit(w.query.size) \in Nat \ {0}
    BY LimitFacts
  <2>8. names \in Seq(p.names) /\ p.names \in SUBSET (DOMAIN sessions)
    <3>1. Listed(w) \subseteq DOMAIN sessions
      BY <1>3 DEF Listed, Matching
    <3> QED BY <1>2, <2>7, <3>1
  <2> HIDE DEF names, p, a
  <2>9. ASSUME NEW i \in DOMAIN names
        PROVE  SafeView(sessions[names[i]], q.view).name = names[i]
    <3>1. names[i] \in DOMAIN sessions
      BY <2>8
    <3>2. sessions[names[i]] \in GameSession /\ sessions[names[i]].name = names[i]
      BY <3>1 DEF RoomsFit, RoomFits
    <3> QED BY <3>2 DEF SafeView, GameSession
  <2>10. Answer(w).names = [i \in DOMAIN names |-> names[i]] /\ Answer(w).next = p.next
    BY <2>5, <2>6, <2>9
  <2>11. names = [i \in DOMAIN names |-> names[i]]
    BY <2>8
  <2> QED BY <2>7, <2>10, <2>11 DEF names, p
<1>4. CASE w.of = "users"
  <2> DEFINE p == Page(Listed(w), w.token, ListLimit(w.query.size))
             names == Sorted(p.names)
             a == ListUserSessions(w.by, q)
             U == sessions[w.query.parent].users
  <2>1. q.token = w.token /\ q.size = w.query.size /\ q.parent = w.query.parent
    BY <1>4, WalkShape DEF ListUserSessionsRequest
  <2> HIDE DEF q
  <2>4. SeatNames(w.query.parent) = Listed(w)
    BY <1>0, <1>4 DEF Listed
  <2>5. a = [users |-> [i \in DOMAIN names |-> CHOOSE x \in U : x.name = names[i]],
             next |-> p.next]
    BY <2>1, <2>4 DEF ListUserSessions
  <2>6. Answer(w) = [names |-> [i \in DOMAIN a.users |-> a.users[i].name], next |-> a.next]
    BY <1>0, <1>4 DEF Answer, q
  <2>7. ListLimit(w.query.size) \in Nat \ {0}
    BY LimitFacts
  <2>8. names \in Seq(p.names) /\ p.names \in SUBSET {x.name : x \in U}
    BY <1>2, <2>4, <2>7 DEF SeatNames
  <2> HIDE DEF names, p, a, U
  <2>9. ASSUME NEW i \in DOMAIN names
        PROVE  (CHOOSE x \in U : x.name = names[i]).name = names[i]
    <3>1. \E x \in U : x.name = names[i]
      BY <2>8
    <3> QED BY <3>1
  <2>10. Answer(w).names = [i \in DOMAIN names |-> names[i]] /\ Answer(w).next = p.next
    BY <2>5, <2>6, <2>9
  <2>11. names = [i \in DOMAIN names |-> names[i]]
    BY <2>8
  <2> QED BY <2>7, <2>10, <2>11 DEF names, p
<1>5. CASE w.of = "documents"
  <2>1. q.token = w.token /\ q.size = w.query.size
    BY <1>5, WalkShape DEF ListDocumentsRequest
  <2> HIDE DEF q
  <2>4. documents = Listed(w)
    BY <1>0, <1>5 DEF Listed
  <2>5. ListDocuments(q) =
          [documents |-> Sorted(Page(Listed(w), w.token, Limit(w.query.size)).names),
           next |-> Page(Listed(w), w.token, Limit(w.query.size)).next]
    BY <2>1, <2>4 DEF ListDocuments
  <2>6. Answer(w) = [names |-> ListDocuments(q).documents, next |-> ListDocuments(q).next]
    BY <1>0, <1>5 DEF Answer, q
  <2>7. Limit(w.query.size) \in Nat \ {0}
    BY LimitFacts
  <2> QED BY <2>5, <2>6, <2>7
<1> QED BY <1>0, <1>3, <1>4, <1>5

LEMMA WalkReplaced == ASSUME NEW w, walk' = w, WalkFits(w)' PROVE WalkFits(walk)'
<1>1. Listed(walk)' = Listed(w)'
  BY DEF Listed, Matching, SeatNames
<1> QED BY <1>1 DEF WalkFits, Shown

LEMMA StartInv ==
    ASSUME ReadsInv, NEW of \in {"rooms", "users", "documents"}, NEW u \in Person, NEW q,
           of = "rooms" => q \in Queries,
           of = "users" => q \in ListUserSessionsRequest /\ q.parent \in DOMAIN sessions,
           of = "documents" => q \in ListDocumentsRequest,
           q.size \in Nat, StartWalk(of, u, q)
    PROVE  ReadsInv'
<1> DEFINE v == [of |-> of, by |-> u, query |-> q]
           w == [of |-> of, by |-> u, query |-> q, token |-> 0, seen |-> <<>>,
                 stayed |-> Listed(v), done |-> FALSE]
           Made(S) == [of |-> of, by |-> u, query |-> q, token |-> 0, seen |-> <<>>,
                       stayed |-> S, done |-> FALSE]
<1>1. walk' = w /\ sessions' = sessions /\ documents' = documents /\ changes' = changes
  BY DEF StartWalk
<1>2. /\ w.of = of /\ w.by = u /\ w.query = q /\ w.token = 0 /\ w.seen = <<>>
      /\ w.stayed = Listed(v) /\ w.done = FALSE
      /\ v.of = of /\ v.by = u /\ v.query = q
  OBVIOUS
<1>3. "rooms" # "users" /\ "rooms" # "documents" /\ "users" # "documents"
  OBVIOUS
<1>4. ASSUME NEW S \in SUBSET Names(of) PROVE Made(S) \in Walk
  <2>0. <<>> \in Seq(RoomName) /\ <<>> \in Seq(SeatName) /\ <<>> \in Seq(DocumentName)
        /\ 0 \in Nat /\ FALSE \in BOOLEAN
    OBVIOUS
  <2>1. CASE of = "rooms"
    BY <2>0, <2>1 DEF Walk, Names
  <2>2. CASE of = "users"
    BY <1>3, <2>0, <2>2 DEF Walk, Names
  <2>3. CASE of = "documents"
    BY <1>3, <2>0, <2>3 DEF Walk, Names
  <2> QED BY <2>1, <2>2, <2>3
<1>5. Listed(v) = Listed(Made({}))
  BY DEF Listed
<1>6. IsFiniteSet(Listed(v)) /\ Listed(v) \subseteq Names(of)
  <2>1. Made({}) \in Walk /\ Made({}).of = of /\ Made({}).query = q
    BY <1>4
  <2> HIDE DEF Made, v
  <2> QED BY <1>5, <2>1, ListedFacts DEF ReadsInv
<1>7. w \in Walk
  BY <1>4, <1>6
<1>8. Listed(w) = Listed(v)
  BY DEF Listed
<1>9. \A n \in Listed(v) : ~ (n <= 0)
  BY <1>6, NameFacts
<1>10. Len(<<>>) = 0 /\ 1..0 = {}
  OBVIOUS
<1> HIDE DEF v, Made
<1>11. WalkFits(w)
  <2> HIDE DEF w
  <2> QED BY <1>2, <1>7, <1>8, <1>9, <1>10 DEF WalkFits, Shown
<1>12. RoomsFit' /\ DocumentsFit'
  BY <1>1 DEF ReadsInv, RoomsFit, DocumentsFit
<1>13. PICK z : z = w
  OBVIOUS
<1>14. WalkFits(z)'
  <2>1. WalkFits(z)
    BY <1>11, <1>13
  <2> QED BY <1>1, <2>1 DEF WalkFits, Shown, Listed, Matching, SeatNames
<1>15. WalkFits(walk)'
  BY <1>1, <1>13, <1>14, WalkReplaced
<1> QED BY <1>1, <1>12, <1>15 DEF ReadsInv

(* The next page shows everything between its token and the next one. *)
LEMMA NextInv == ASSUME ReadsInv, NextPage PROVE ReadsInv'
<1> DEFINE w == walk  a == Answer(walk)  L == Listed(walk)
           Moved(names, next) == [walk EXCEPT !.seen = @ \o names, !.token = next, !.done = next = 0]
<1>1. /\ walk # Idle /\ ~ walk.done
      /\ walk' = Moved(a.names, a.next)
      /\ sessions' = sessions /\ documents' = documents /\ changes' = changes
  BY DEF NextPage
<1>2. WalkFits(walk) /\ walk \in Walk /\ RoomsFit /\ DocumentsFit
  BY <1>1 DEF ReadsInv, WalkFits
<1>3. IsFiniteSet(L) /\ L \subseteq Names(walk.of) /\ L \in SUBSET Nat /\ walk.token \in Nat
  <2>1. IsFiniteSet(L) /\ L \subseteq Names(walk.of)
    BY <1>2, ListedFacts DEF WalkFits
  <2> QED BY <1>2, <2>1, NameFacts, WalkShape
<1>4. PICK limit \in Nat \ {0} :
        /\ a.names = Sorted(Page(L, walk.token, limit).names)
        /\ a.next = Page(L, walk.token, limit).next
  BY <1>2, AnswerFacts DEF WalkFits
<1> DEFINE S == Page(L, walk.token, limit).names  next == Page(L, walk.token, limit).next
<1>5. PageFits(L, walk.token, S, next)
  BY <1>3, PageFacts
<1> HIDE DEF a, L, S, next, Moved
<1>6. S \in SUBSET L /\ S \in SUBSET Nat /\ IsFiniteSet(S) /\ next \in Nat
  BY <1>3, <1>5 DEF PageFits
<1>7. PICK names : names = Sorted(S)
  OBVIOUS
<1>8. /\ names \in Seq(S) /\ (\A i, j \in 1..Len(names) : names[i] = names[j] => i = j)
      /\ \A n \in S : \E i \in 1..Len(names) : names[i] = n
  BY <1>6, <1>7, SortedFacts
<1>9. PICK z : z = Moved(names, next)
  OBVIOUS
<1>10. walk' = z
  BY <1>1, <1>4, <1>7, <1>9 DEF S, next
<1>11. /\ z.of = w.of /\ z.by = w.by /\ z.query = w.query /\ z.stayed = w.stayed
       /\ z.seen = w.seen \o names /\ z.token = next /\ z.done = (next = 0)
  BY <1>2, <1>9 DEF Walk, Moved
<1>12. names \in Seq(Names(w.of)) /\ w.seen \in Seq(Names(w.of))
  <2>1. \A n \in S : n \in Names(w.of)
    BY <1>3, <1>6 DEF L
  <2>2. names \in Seq(Names(w.of))
    BY <1>8, <2>1
  <2> QED BY <1>2, <2>2, WalkShape
<1>13. z \in Walk
  <2>1. z.seen \in Seq(Names(w.of))
    BY <1>11, <1>12
  <2>2. z = [w EXCEPT !.seen = z.seen, !.token = next, !.done = (next = 0)]
    BY <1>2, <1>9 DEF Walk, Moved
  <2>3. "rooms" # "users" /\ "rooms" # "documents" /\ "users" # "documents"
    OBVIOUS
  <2>4. CASE w.of = "rooms"
    <3>1. w \in [of : {"rooms"}, by : Person, query : Queries, token : Nat,
                 seen : Seq(RoomName), stayed : SUBSET RoomName, done : BOOLEAN]
      BY <1>2, <2>3, <2>4 DEF Walk
    <3> QED BY <1>6, <2>1, <2>2, <2>4, <3>1 DEF Names, Walk
  <2>5. CASE w.of = "users"
    <3>1. w \in [of : {"users"}, by : Person, query : ListUserSessionsRequest, token : Nat,
                 seen : Seq(SeatName), stayed : SUBSET SeatName, done : BOOLEAN]
      BY <1>2, <2>3, <2>5 DEF Walk
    <3> QED BY <1>6, <2>1, <2>2, <2>3, <2>5, <3>1 DEF Names, Walk
  <2>6. CASE w.of = "documents"
    <3>1. w \in [of : {"documents"}, by : Person, query : ListDocumentsRequest, token : Nat,
                 seen : Seq(DocumentName), stayed : SUBSET DocumentName, done : BOOLEAN]
      BY <1>2, <2>3, <2>6 DEF Walk
    <3> QED BY <1>6, <2>1, <2>2, <2>3, <2>6, <3>1 DEF Names, Walk
  <2> QED BY <1>2, <2>4, <2>5, <2>6, WalkShape
<1>14. /\ Len(z.seen) = Len(w.seen) + Len(names) /\ Len(w.seen) \in Nat /\ Len(names) \in Nat
       /\ \A i \in 1..Len(w.seen) : z.seen[i] = w.seen[i]
       /\ \A i \in 1..Len(names) : z.seen[Len(w.seen) + i] = names[i]
       /\ \A i \in 1..Len(z.seen) :
             i \in 1..Len(w.seen) \/ \E j \in 1..Len(names) : i = Len(w.seen) + j
  <2>1. /\ Len(z.seen) = Len(w.seen) + Len(names) /\ Len(w.seen) \in Nat /\ Len(names) \in Nat
        /\ \A i \in 1..Len(w.seen) : z.seen[i] = w.seen[i]
        /\ \A i \in 1..Len(names) : z.seen[Len(w.seen) + i] = names[i]
    BY <1>11, <1>12
  <2>2. ASSUME NEW i \in 1..Len(z.seen), i \notin 1..Len(w.seen)
        PROVE  \E j \in 1..Len(names) : i = Len(w.seen) + j
    <3>1. i - Len(w.seen) \in 1..Len(names) /\ i = Len(w.seen) + (i - Len(w.seen))
      BY <2>1, <2>2
    <3> QED BY <3>1
  <2> QED BY <2>1, <2>2
<1>15. /\ \A i \in 1..Len(w.seen) : w.seen[i] <= w.token /\ w.seen[i] \in Nat
       /\ \A i \in 1..Len(names) : names[i] > w.token /\ names[i] \in S /\ names[i] \in Nat
  <2>1. \A i \in 1..Len(w.seen) : w.seen[i] \in Nat
    BY <1>12, NameFacts
  <2>2. \A i \in 1..Len(names) : names[i] \in S
    BY <1>8
  <2> QED BY <1>1, <1>2, <1>5, <1>6, <2>1, <2>2 DEF WalkFits, PageFits
<1>16. ASSUME NEW i \in 1..Len(z.seen), NEW j \in 1..Len(z.seen), z.seen[i] = z.seen[j]
       PROVE  i = j
  <2>1. CASE i \in 1..Len(w.seen) /\ j \in 1..Len(w.seen)
    BY <1>2, <1>14, <1>16, <2>1 DEF WalkFits
  <2>2. ASSUME NEW k \in 1..Len(z.seen), NEW l \in 1..Len(names),
               k \in 1..Len(w.seen), z.seen[k] = z.seen[Len(w.seen) + l]
        PROVE  FALSE
    <3>1. z.seen[k] = w.seen[k] /\ z.seen[Len(w.seen) + l] = names[l]
      BY <1>14, <2>2
    <3>2. w.seen[k] <= w.token /\ w.seen[k] \in Nat /\ names[l] > w.token /\ names[l] \in Nat
      BY <1>15, <2>2
    <3>3. w.seen[k] = names[l]
      BY <2>2, <3>1
    <3> DEFINE b == names[l]  c == w.token
    <3>4. b <= c /\ b > c /\ b \in Nat /\ c \in Nat
      BY <1>3, <3>2, <3>3
    <3> HIDE DEF b, c
    <3> QED BY <3>4
  <2>3. CASE i \notin 1..Len(w.seen) /\ j \notin 1..Len(w.seen)
    <3>1. PICK k \in 1..Len(names) : i = Len(w.seen) + k
      BY <1>14, <2>3
    <3>2. PICK l \in 1..Len(names) : j = Len(w.seen) + l
      BY <1>14, <2>3
    <3>3. names[k] = names[l]
      BY <1>14, <1>16, <3>1, <3>2
    <3> QED BY <1>8, <3>1, <3>2, <3>3
  <2> QED BY <1>14, <1>16, <2>1, <2>2, <2>3
<1>17. ASSUME NEW n \in w.stayed, next = 0 \/ n <= next PROVE Shown(z, n)
  <2>1. n \in L /\ n \in Nat
    BY <1>1, <1>2, <1>3 DEF WalkFits, L
  <2>2. CASE n <= w.token
    <3>1. Shown(w, n)
      BY <1>1, <1>2, <2>2 DEF WalkFits
    <3>2. PICK i \in 1..Len(w.seen) : w.seen[i] = n
      BY <3>1 DEF Shown
    <3>3. i \in 1..Len(z.seen) /\ z.seen[i] = n
      BY <1>14, <3>2
    <3> QED BY <3>3 DEF Shown
  <2>3. CASE n > w.token
    <3>1. n \in S
      BY <1>5, <1>17, <2>1, <2>3 DEF PageFits
    <3>2. PICK i \in 1..Len(names) : names[i] = n
      BY <1>8, <3>1
    <3>3. Len(w.seen) + i \in 1..Len(z.seen) /\ z.seen[Len(w.seen) + i] = n
      BY <1>14, <3>2
    <3> QED BY <3>3 DEF Shown
  <2> QED BY <1>3, <2>1, <2>2, <2>3
<1>18. ASSUME next # 0, NEW i \in 1..Len(z.seen) PROVE z.seen[i] <= next
  <2>1. next > w.token /\ \A n \in S : n <= next
    BY <1>5, <1>18 DEF PageFits
  <2>2. CASE i \in 1..Len(w.seen)
    BY <1>3, <1>6, <1>14, <1>15, <2>1, <2>2
  <2>3. CASE i \notin 1..Len(w.seen)
    <3>1. PICK k \in 1..Len(names) : i = Len(w.seen) + k
      BY <1>14, <2>3
    <3> QED BY <1>14, <1>15, <2>1, <3>1
  <2> QED BY <2>2, <2>3
<1>19. Listed(z) = Listed(w)
  BY <1>11 DEF Listed
<1>20. WalkFits(z)
  <2>1. z.query.size \in Nat /\ (z.of = "users" => z.query.parent \in DOMAIN sessions)
    BY <1>2, <1>11 DEF WalkFits
  <2>2. z.done => \A n \in z.stayed : Shown(z, n)
    BY <1>11, <1>17
  <2>3. ~ z.done => /\ z.stayed \subseteq Listed(z)
                    /\ \A i \in 1..Len(z.seen) : z.seen[i] <= z.token
                    /\ \A n \in z.stayed : n <= z.token => Shown(z, n)
    <3> SUFFICES ASSUME next # 0
                 PROVE  /\ z.stayed \subseteq Listed(z)
                        /\ \A i \in 1..Len(z.seen) : z.seen[i] <= z.token
                        /\ \A n \in z.stayed : n <= z.token => Shown(z, n)
      BY <1>11
    <3>1. z.stayed \subseteq Listed(z)
      BY <1>1, <1>2, <1>11, <1>19 DEF WalkFits
    <3> QED BY <1>11, <1>17, <1>18, <3>1
  <2> QED BY <1>13, <1>16, <2>1, <2>2, <2>3 DEF WalkFits
<1>21. WalkFits(z)'
  BY <1>1, <1>20 DEF WalkFits, Shown, Listed, Matching, SeatNames
<1>22. WalkFits(walk)'
  BY <1>10, <1>21, WalkReplaced
<1>23. RoomsFit' /\ DocumentsFit'
  BY <1>1, <1>2 DEF RoomsFit, DocumentsFit
<1> QED BY <1>1, <1>22, <1>23 DEF ReadsInv

(* How rooms change. *)
LEMMA RoomChanged ==
    ASSUME RoomsFit, NEW n, n \in RoomName, NEW s, RoomFits(s, n),
           DOMAIN sessions' = DOMAIN sessions \cup {n}, sessions'[n] = s,
           \A m \in DOMAIN sessions : m # n => sessions'[m] = sessions[m]
    PROVE  RoomsFit' /\ DOMAIN sessions \subseteq DOMAIN sessions'
<1>1. IsFiniteSet(DOMAIN sessions')
  BY FS_AddElement DEF RoomsFit
<1>2. ASSUME NEW m \in DOMAIN sessions' PROVE m \in RoomName /\ RoomFits(sessions'[m], m)
  BY DEF RoomsFit
<1> QED BY <1>1, <1>2 DEF RoomsFit, RoomFits

LEMMA NewRoomFits ==
    ASSUME NEW n \in RoomName, NEW host \in UserSession PROVE RoomFits(NewRoom(n, host), n)
<1>1. NewRoom(n, host) \in GameSession
  <2>1. Places[n] \in Nat /\ Stars[n] \in Nat /\ {host} \in SUBSET UserSession
    BY PagedAssumption
  <2> QED BY <2>1 DEF NewRoom, GameSession, SessionState
<1>2. NewRoom(n, host).users = {host} /\ NewRoom(n, host).name = n
  BY DEF NewRoom
<1>3. IsFiniteSet({host})
  BY FS_Singleton
<1> QED BY <1>1, <1>2, <1>3 DEF RoomFits

LEMMA MadeFits ==
    ASSUME RoomsFit, NEW n \in RoomName, NEW host \in UserSession, MakeRoom(n, host)
    PROVE  RoomsFit' /\ DOMAIN sessions \subseteq DOMAIN sessions'
<1>2. RoomFits(NewRoom(n, host), n)
  BY NewRoomFits
<1>3. /\ n \notin DOMAIN sessions
      /\ sessions' = [m \in DOMAIN sessions \cup {n} |->
                        IF m = n THEN NewRoom(n, host) ELSE sessions[m]]
  BY DEF MakeRoom
<1>4. /\ DOMAIN sessions' = DOMAIN sessions \cup {n} /\ sessions'[n] = NewRoom(n, host)
      /\ \A m \in DOMAIN sessions : m # n => sessions'[m] = sessions[m]
  BY <1>3
<1> QED BY <1>2, <1>4, RoomChanged

LEMMA JoinedFits ==
    ASSUME RoomsFit, NEW u \in Person, NEW r \in JoinRequests, NEW x \in SeatName,
           JoinGameSession(u, r, x)
    PROVE  RoomsFit' /\ DOMAIN sessions \subseteq DOMAIN sessions'
<1> DEFINE n == r.name  s == sessions[n]  team == r.definitions[1].team
           host == [name |-> x, user |-> u, team |-> team]
<1>1. n \in DOMAIN sessions /\ sessions' = [sessions EXCEPT ![n] = Joined(s, u, x, team)]
  BY DEF JoinGameSession
<1>6. team \in TeamName
  <2>1. r.definitions \in Seq(UserDefinition) /\ Len(r.definitions) = 1
    BY PagedAssumption DEF JoinGameSession, OwnDefinition, JoinGameSessionRequest
  <2>2. r.definitions[1] \in UserDefinition
    BY <2>1
  <2> QED BY <2>2 DEF UserDefinition
<1> HIDE DEF team
<1>2. RoomFits(s, n) /\ n \in RoomName
  BY <1>1 DEF RoomsFit
<1>3. RoomFits([s EXCEPT !.users = @ \cup {host}], n)
  <2>1. IsFiniteSet(s.users \cup {host})
    BY <1>2, FS_AddElement DEF RoomFits
  <2>2. host \in UserSession
    BY <1>6 DEF UserSession
  <2> HIDE DEF host
  <2>3. s \in GameSession /\ s.name = n
    BY <1>2 DEF RoomFits
  <2> HIDE DEF s, n
  <2>4. s.users \cup {host} \in SUBSET UserSession
    BY <2>2, <2>3 DEF GameSession
  <2> DEFINE z == [s EXCEPT !.users = @ \cup {host}]
  <2>5. z \in GameSession /\ z.name = n /\ z.users = s.users \cup {host}
    BY <2>3, <2>4 DEF GameSession
  <2> HIDE DEF z
  <2> QED BY <2>1, <2>5 DEF RoomFits, z
<1>4. RoomFits(Joined(s, u, x, team), n)
  BY <1>2, <1>3 DEF Joined
<1> HIDE DEF s, n
<1>5. /\ DOMAIN sessions' = DOMAIN sessions \cup {n} /\ sessions'[n] = Joined(s, u, x, team)
      /\ \A m \in DOMAIN sessions : m # n => sessions'[m] = sessions[m]
  BY <1>1
<1> QED BY <1>2, <1>4, <1>5, RoomChanged

LEMMA DepartFits ==
    ASSUME RoomsFit, NEW n, NEW x, Depart(n, x)
    PROVE  RoomsFit' /\ DOMAIN sessions \subseteq DOMAIN sessions'
<1> DEFINE s == sessions[n]  left == s.users \ {x}  ends == EndsRoom(n, x)
           z == [s EXCEPT !.users = left, !.can = @ /\ ~ ends,
                          !.state = IF ends THEN "TERMINATED" ELSE @]
<1>1. n \in DOMAIN sessions /\ RoomFits(s, n) /\ n \in RoomName
  BY DEF Depart, RoomsFit
<1>2. sessions' = [sessions EXCEPT ![n] = z]
  BY <1>1 DEF Depart, RoomFits, GameSession
<1>3. RoomFits(z, n)
  <2>1. IsFiniteSet(left)
    BY <1>1, FS_RemoveElement DEF RoomFits
  <2>2. s \in GameSession /\ s.name = n
    BY <1>1 DEF RoomFits
  <2>3. left \in SUBSET UserSession
    BY <2>2 DEF GameSession
  <2> HIDE DEF s, left, ends
  <2>4. z \in GameSession /\ z.name = n /\ z.users = left
    BY <2>2, <2>3 DEF GameSession, SessionState
  <2> HIDE DEF z
  <2> QED BY <2>1, <2>4 DEF RoomFits
<1> HIDE DEF z
<1>4. /\ DOMAIN sessions' = DOMAIN sessions \cup {n} /\ sessions'[n] = z
      /\ \A m \in DOMAIN sessions : m # n => sessions'[m] = sessions[m]
  BY <1>1, <1>2
<1> QED BY <1>1, <1>3, <1>4, RoomChanged

LEMMA ControlFits ==
    ASSUME RoomsFit, NEW n, NEW can \in BOOLEAN, NEW public \in BOOLEAN,
           ControlRoom(n, can, public)
    PROVE  RoomsFit' /\ DOMAIN sessions \subseteq DOMAIN sessions'
<1> DEFINE s == sessions[n]  z == [s EXCEPT !.can = can, !.public = public]
<1>1. n \in DOMAIN sessions /\ RoomFits(s, n) /\ n \in RoomName
  BY DEF ControlRoom, RoomsFit
<1>2. sessions' = [sessions EXCEPT ![n] = z]
  BY <1>1 DEF ControlRoom, RoomFits, GameSession
<1>3. RoomFits(z, n)
  <2>1. s \in GameSession /\ s.name = n /\ IsFiniteSet(s.users)
    BY <1>1 DEF RoomFits
  <2> HIDE DEF s
  <2>2. z \in GameSession /\ z.name = n /\ z.users = s.users
    BY <2>1 DEF GameSession
  <2> HIDE DEF z
  <2> QED BY <2>1, <2>2 DEF RoomFits
<1> HIDE DEF z
<1>4. /\ DOMAIN sessions' = DOMAIN sessions \cup {n} /\ sessions'[n] = z
      /\ \A m \in DOMAIN sessions : m # n => sessions'[m] = sessions[m]
  BY <1>1, <1>2
<1> QED BY <1>1, <1>3, <1>4, RoomChanged

LEMMA ChangesFit ==
    ASSUME RoomsFit, DocumentsFit, Changes
    PROVE  RoomsFit' /\ DocumentsFit' /\ DOMAIN sessions \subseteq DOMAIN sessions'
<1>1. ASSUME NEW n \in RoomName, NEW host \in UserSession, MakeRoom(n, host)
      PROVE  RoomsFit' /\ DOMAIN sessions \subseteq DOMAIN sessions' /\ documents' = documents
  BY <1>1, MadeFits DEF MakeRoom
<1>2. ASSUME NEW u \in Person, NEW x \in SeatName, NEW r \in JoinRequests, JoinGameSession(u, r, x)
      PROVE  RoomsFit' /\ DOMAIN sessions \subseteq DOMAIN sessions' /\ documents' = documents
  BY <1>2, JoinedFits DEF JoinGameSession
<1>3. ASSUME NEW n \in DOMAIN sessions, NEW x \in sessions[n].users, Depart(n, x)
      PROVE  RoomsFit' /\ DOMAIN sessions \subseteq DOMAIN sessions' /\ documents' = documents
  BY <1>3, DepartFits DEF Depart
<1>4. ASSUME NEW n \in RoomName, NEW can \in BOOLEAN, NEW public \in BOOLEAN,
             ControlRoom(n, can, public)
      PROVE  RoomsFit' /\ DOMAIN sessions \subseteq DOMAIN sessions' /\ documents' = documents
  BY <1>4, ControlFits DEF ControlRoom
<1>5. ASSUME NEW d \in DocumentName, Commit(d)
      PROVE  RoomsFit' /\ DocumentsFit' /\ DOMAIN sessions \subseteq DOMAIN sessions'
  <2>1. sessions' = sessions
        /\ documents' = IF d \in documents THEN documents \ {d} ELSE documents \cup {d}
    BY <1>5 DEF Commit
  <2>2. IsFiniteSet(documents \ {d}) /\ IsFiniteSet(documents \cup {d})
    BY FS_AddElement, FS_RemoveElement DEF DocumentsFit
  <2>3. IsFiniteSet(documents')
    BY <2>1, <2>2
  <2> QED BY <2>1, <2>3 DEF DocumentsFit, RoomsFit
<1>6. documents' = documents => DocumentsFit'
  BY DEF DocumentsFit
<1> QED BY <1>1, <1>2, <1>3, <1>4, <1>5, <1>6 DEF Changes

(* What has left the rooms no longer counts as having stayed. *)
LEMMA ChangeInv == ASSUME ReadsInv, Change PROVE ReadsInv'
<1>1. /\ RoomsFit' /\ DocumentsFit' /\ DOMAIN sessions \subseteq DOMAIN sessions'
      /\ changes' \in 0..MaxChanges
  <2>1. changes < MaxChanges /\ changes' = changes + 1 /\ changes \in 0..MaxChanges
    BY DEF Change, ReadsInv
  <2> QED BY <2>1, PagedAssumption, ChangesFit DEF Change, ReadsInv
<1>2. PICK w : /\ w = walk
               /\ walk' = IF w = Idle \/ w.done THEN w
                          ELSE [w EXCEPT !.stayed = @ \cap Listed(w)']
  BY DEF Change
<1>3. CASE w = Idle
  BY <1>1, <1>2, <1>3 DEF ReadsInv
<1>4. CASE w # Idle
  <2>1. WalkFits(w) /\ w \in Walk
    BY <1>2, <1>4 DEF ReadsInv, WalkFits
  <2>2. CASE w.done
    <3>1. WalkFits(w)'
      BY <1>1, <2>1, <2>2 DEF WalkFits, Shown
    <3> QED BY <1>1, <1>2, <2>2, <3>1, WalkReplaced DEF ReadsInv
  <2>3. CASE ~ w.done
    <3>1. PICK L : L = Listed(w)'
      OBVIOUS
    <3>2. PICK z : z = [w EXCEPT !.stayed = @ \cap L]
      OBVIOUS
    <3>3. walk' = z
      BY <1>2, <1>4, <2>3, <3>1, <3>2
    <3>4. /\ z.of = w.of /\ z.by = w.by /\ z.query = w.query /\ z.seen = w.seen
          /\ z.token = w.token /\ z.done = w.done /\ z.stayed = w.stayed \cap L
          /\ z \in Walk
      BY <2>1, <3>2 DEF Walk
    <3>5. Listed(z)' = L
      BY <3>1, <3>4 DEF Listed
    <3>6. /\ z.query.size \in Nat /\ (z.of = "users" => z.query.parent \in DOMAIN sessions')
          /\ \A i, j \in 1..Len(z.seen) : z.seen[i] = z.seen[j] => i = j
          /\ \A i \in 1..Len(z.seen) : z.seen[i] <= z.token
          /\ \A n \in z.stayed : n <= z.token => Shown(z, n)
      BY <1>1, <2>1, <2>3, <3>4 DEF WalkFits, Shown
    <3>7. WalkFits(z)'
      BY <2>3, <3>4, <3>5, <3>6 DEF WalkFits, Shown
    <3> QED BY <1>1, <3>3, <3>7, WalkReplaced DEF ReadsInv
  <2> QED BY <2>2, <2>3
<1> QED BY <1>3, <1>4

LEMMA ReadsInvInit == PagedInit => ReadsInv
<1> SUFFICES ASSUME PagedInit PROVE ReadsInv
  OBVIOUS
<1>1. /\ sessions = [n \in DOMAIN FirstRooms |-> NewRoom(n, FirstRooms[n])]
      /\ documents = FirstDocuments /\ walk = Idle
  BY DEF PagedInit
<1>2. IsFiniteSet(DOMAIN sessions) /\ IsFiniteSet(documents) /\ documents \subseteq DocumentName
  BY <1>1, PagedAssumption
<1>3. ASSUME NEW n \in DOMAIN sessions PROVE n \in RoomName /\ RoomFits(sessions[n], n)
  <2>1. n \in RoomName /\ FirstRooms[n] \in UserSession /\ sessions[n] = NewRoom(n, FirstRooms[n])
    BY <1>1, PagedAssumption
  <2> QED BY <2>1, NewRoomFits
<1>4. changes \in 0..MaxChanges
  BY PagedAssumption DEF PagedInit
<1> QED BY <1>1, <1>2, <1>3, <1>4 DEF ReadsInv, RoomsFit, DocumentsFit

LEMMA ReadsStep == ReadsInv /\ [PagedNext]_pagedVars => ReadsInv'
<1> SUFFICES ASSUME ReadsInv, [PagedNext]_pagedVars PROVE ReadsInv'
  OBVIOUS
<1>1. CASE UNCHANGED pagedVars
  BY <1>1 DEF pagedVars, ReadsInv, RoomsFit, DocumentsFit, WalkFits, Shown, Listed, Matching,
     SeatNames
<1>2. CASE Change
  BY <1>2, ChangeInv
<1>3. ASSUME NEW u \in Person, NEW q \in Queries, StartWalk("rooms", u, q) PROVE ReadsInv'
  <2>1. q.size \in Nat
    BY PagedAssumption
  <2>2. "rooms" # "users" /\ "rooms" # "documents" /\ "rooms" \in {"rooms", "users", "documents"}
    OBVIOUS
  <2> QED BY <1>3, <2>1, <2>2, StartInv
<1>4. ASSUME NEW u \in Person, NEW n \in DOMAIN sessions, NEW k \in ListSizes,
             StartWalk("users", u, [parent |-> n, size |-> k, token |-> 0])
      PROVE  ReadsInv'
  <2> DEFINE q == [parent |-> n, size |-> k, token |-> 0]
  <2>1. k \in Nat /\ n \in RoomName
    BY PagedAssumption DEF ReadsInv, RoomsFit
  <2>2. q \in ListUserSessionsRequest /\ q.parent \in DOMAIN sessions /\ q.size \in Nat
    BY <2>1 DEF ListUserSessionsRequest
  <2>3. "users" # "rooms" /\ "users" # "documents" /\ "users" \in {"rooms", "users", "documents"}
    OBVIOUS
  <2>4. StartWalk("users", u, q)
    BY <1>4
  <2> HIDE DEF q
  <2> QED BY <2>2, <2>3, <2>4, StartInv
<1>5. ASSUME NEW u \in Person, NEW k \in ListSizes,
             StartWalk("documents", u, [size |-> k, token |-> 0])
      PROVE  ReadsInv'
  <2> DEFINE q == [size |-> k, token |-> 0]
  <2>1. k \in Nat
    BY PagedAssumption
  <2>2. q \in ListDocumentsRequest /\ q.size \in Nat
    BY <2>1 DEF ListDocumentsRequest
  <2>3. "documents" # "rooms" /\ "documents" # "users"
        /\ "documents" \in {"rooms", "users", "documents"}
    OBVIOUS
  <2>4. StartWalk("documents", u, q)
    BY <1>5
  <2> HIDE DEF q
  <2> QED BY <2>2, <2>3, <2>4, StartInv
<1>6. CASE NextPage
  BY <1>6, NextInv
<1> QED BY <1>1, <1>2, <1>3, <1>4, <1>5, <1>6 DEF PagedNext

(* Between two pages (src/session_service.go) a walk was shown nothing     *)
(* past its token, and all that was there all the time up to it.           *)
THEOREM ReadsInvariant == PagedSpec => []ReadsInv
  BY ReadsInvInit, ReadsStep, PTL DEF PagedSpec

(* A walk through all pages shows everything that matched from the first   *)
(* call to the last, and nothing twice, whatever comes and goes between    *)
(* two pages, for any rooms, requests and number of changes.               *)
THEOREM WalksTheorem == PagedSpec => []WalksMissNothing
<1>1. ReadsInv => WalksMissNothing
  <2> SUFFICES ASSUME ReadsInv, walk # Idle
               PROVE  /\ \A i, j \in DOMAIN walk.seen : walk.seen[i] = walk.seen[j] => i = j
                      /\ walk.done => \A n \in walk.stayed :
                                        \E i \in DOMAIN walk.seen : walk.seen[i] = n
    BY DEF WalksMissNothing
  <2>1. WalkFits(walk) /\ walk \in Walk
    BY DEF ReadsInv, WalkFits
  <2>2. DOMAIN walk.seen = 1..Len(walk.seen)
    BY <2>1, WalkShape
  <2> QED BY <2>1, <2>2 DEF WalkFits, Shown
<1> QED BY <1>1, ReadsInvariant, PTL

(* Answers are messages of their types. *)
LEMMA SafeViewType ==
    ASSUME NEW s \in GameSession, NEW view PROVE SafeView(s, view) \in GameSession
<1>1. "" \in {"", "secret"} /\ {} \in SUBSET UserSession /\ s.users \in SUBSET UserSession
  BY DEF GameSession
<1> QED BY <1>1 DEF SafeView, GameSession

(* The sorted names of a page are names of what it is a page of. *)
LEMMA PageNames ==
    ASSUME NEW S \in SUBSET Nat, IsFiniteSet(S), NEW token \in Nat, NEW limit \in Nat \ {0}
    PROVE  /\ Sorted(Page(S, token, limit).names) \in Seq(S)
           /\ Page(S, token, limit).names \in SUBSET S
           /\ Page(S, token, limit).next \in Nat
<1> DEFINE P == Page(S, token, limit).names
<1>1. P \in SUBSET S /\ IsFiniteSet(P) /\ Page(S, token, limit).next \in Nat
  BY PageFacts DEF PageFits
<1> HIDE DEF P
<1>2. P \in SUBSET Nat
  BY <1>1
<1>3. Sorted(P) \in Seq(P)
  BY <1>1, <1>2, SortedFacts
<1>4. Sorted(P) \in Seq(S)
  <2>1. \A n \in P : n \in S
    BY <1>1
  <2> HIDE DEF P
  <2> QED BY <1>3, <2>1
<1> QED BY <1>1, <1>4 DEF P

LEMMA QueryType ==
    ASSUME RoomsFit, NEW u \in Person, NEW q \in Queries
    PROVE  QueryGameSessions(u, q) \in QueryGameSessionsResponse
<1> DEFINE M == Matching(u, q)  p == Page(M, q.token, Limit(q.size))  names == Sorted(p.names)
<1>1. q.size \in Nat /\ q.token \in Nat
  BY PagedAssumption DEF QueryGameSessionsRequest
<1>2. M \in SUBSET Nat /\ IsFiniteSet(M)
  <2>1. M \in SUBSET (DOMAIN sessions)
    BY DEF Matching
  <2>2. \A n \in DOMAIN sessions : n \in Nat
    BY SessionNameAssumption DEF RoomsFit
  <2> HIDE DEF M
  <2> QED BY <2>1, <2>2, FS_Subset DEF RoomsFit
<1>3. \A n \in M : sessions[n] \in GameSession
  BY DEF Matching, RoomsFit, RoomFits
<1> HIDE DEF M
<1>4. names \in Seq(M) /\ p.next \in Nat
  BY <1>1, <1>2, LimitFacts, PageNames
<1> HIDE DEF names, p
<1> DEFINE s == [i \in DOMAIN names |-> SafeView(sessions[names[i]], q.view)]
<1>5. ASSUME NEW i \in 1..Len(names) PROVE SafeView(sessions[names[i]], q.view) \in GameSession
  BY <1>3, <1>4, SafeViewType
<1>6. DOMAIN names = 1..Len(names) /\ Len(names) \in Nat
  BY <1>4
<1>7. s \in Seq(GameSession)
  BY <1>5, <1>6
<1>8. QueryGameSessions(u, q) = [sessions |-> s, next |-> p.next]
  BY DEF QueryGameSessions, M, p, names
<1> HIDE DEF s
<1> QED BY <1>4, <1>7, <1>8 DEF QueryGameSessionsResponse

LEMMA ListType ==
    ASSUME RoomsFit, NEW u \in Person, NEW n \in DOMAIN sessions
    PROVE  ListUserSessions(u, [parent |-> n, size |-> 0, token |-> 0])
             \in ListUserSessionsResponse
<1> DEFINE r == [parent |-> n, size |-> 0, token |-> 0]
           M == SeatNames(n)  p == Page(M, 0, ListLimit(0))  names == Sorted(p.names)
           U == sessions[n].users
           s == [i \in DOMAIN names |-> CHOOSE x \in U : x.name = names[i]]
<1>1. M \in SUBSET Nat /\ IsFiniteSet(M)
  <2>1. IsFiniteSet(M) /\ M \subseteq SeatName
    BY SeatsFinite
  <2> HIDE DEF M
  <2> QED BY <2>1, SessionNameAssumption
<1>2. U \subseteq UserSession /\ \A m \in M : \E x \in U : x.name = m
  BY DEF RoomsFit, RoomFits, GameSession, SeatNames
<1> HIDE DEF M, U
<1>3. ListLimit(0) \in Nat \ {0} /\ 0 \in Nat
  BY LimitFacts
<1>4. names \in Seq(M) /\ p.next \in Nat
  BY <1>1, <1>3, PageNames
<1>8. ListUserSessions(u, r) = [users |-> s, next |-> p.next]
  BY DEF ListUserSessions, M, U
<1> HIDE DEF names, p
<1>5. ASSUME NEW i \in 1..Len(names) PROVE s[i] \in UserSession
  <2>1. \E x \in U : x.name = names[i]
    BY <1>2, <1>4
  <2>2. s[i] = CHOOSE x \in U : x.name = names[i]
    BY <1>4
  <2> QED BY <1>2, <2>1, <2>2
<1>6. s = [i \in 1..Len(names) |-> s[i]] /\ Len(names) \in Nat
  BY <1>4
<1>7. s \in Seq(UserSession)
  <2> HIDE DEF s
  <2> QED BY <1>5, <1>6
<1> HIDE DEF s, r
<1>9. ListUserSessions(u, r) \in ListUserSessionsResponse
  BY <1>4, <1>7, <1>8 DEF ListUserSessionsResponse
<1> QED BY <1>9 DEF r

LEMMA DocumentsType ==
    ASSUME DocumentsFit, NEW k \in ListSizes
    PROVE  ListDocuments([size |-> k, token |-> 0]) \in ListDocumentsResponse
<1> DEFINE p == Page(documents, 0, Limit(k))
<1>1. documents \in SUBSET Nat /\ IsFiniteSet(documents)
  BY PagedAssumption DEF DocumentsFit
<1>2. Limit(k) \in Nat \ {0} /\ 0 \in Nat
  BY PagedAssumption, LimitFacts
<1>3. Sorted(p.names) \in Seq(documents) /\ p.next \in Nat
  BY <1>1, <1>2, PageNames
<1>4. ListDocuments([size |-> k, token |-> 0]) = [documents |-> Sorted(p.names), next |-> p.next]
  BY DEF ListDocuments
<1> HIDE DEF p
<1>5. Sorted(p.names) \in Seq(DocumentName)
  BY <1>3 DEF DocumentsFit
<1> QED BY <1>3, <1>4, <1>5 DEF ListDocumentsResponse

LEMMA IssuedType ==
    ASSUME RoomsFit, NEW u \in Person, NEW n \in DOMAIN sessions
    PROVE  IssueMatchmakingIdToken(u, [session |-> n, users |-> {u}, tokens |-> {u}])
              \in IssueMatchmakingIdTokenResponse \cup {Absent}
<1> DEFINE r == [session |-> n, users |-> {u}, tokens |-> {u}]  s == sessions[n]
           v == SafeView(s, "FULL")  M == MatchedForCaller(s, u, {u})
<1>1. s \in GameSession /\ s.users \subseteq UserSession
  BY DEF RoomsFit, RoomFits, GameSession
<1>2. v \in GameSession
  BY <1>1, SafeViewType
<1>3. M \in SUBSET MatchedUserSession
  <2>1. ASSUME NEW x \in s.users, x.user = u
        PROVE  [user |-> u, session |-> x.name, token |-> u \in {u}] \in MatchedUserSession
    <3>1. x.name \in SeatName
      BY <1>1 DEF UserSession
    <3> QED BY <3>1 DEF MatchedUserSession
  <2> QED BY <2>1 DEF MatchedForCaller
<1>4. IssueMatchmakingIdToken(u, r) \in {[session |-> v, matched |-> M], Absent}
  BY DEF IssueMatchmakingIdToken
<1> HIDE DEF v, M, r
<1>5. [session |-> v, matched |-> M] \in IssueMatchmakingIdTokenResponse
  BY <1>2, <1>3 DEF IssueMatchmakingIdTokenResponse
<1>6. IssueMatchmakingIdToken(u, r) \in IssueMatchmakingIdTokenResponse \cup {Absent}
  BY <1>4, <1>5
<1> QED BY <1>6 DEF r

LEMMA SeatType ==
    ASSUME RoomsFit, NEW u \in Person, NEW n \in DOMAIN sessions, NEW x \in SeatName
    PROVE  GetUserSession(u, [parent |-> n, name |-> x]) \in UserSession \cup {Absent}
<1> DEFINE U == sessions[n].users  P == Page(SeatNames(n), 0, ListLimit(0)).names
<1>1. P \in SUBSET SeatNames(n)
  <2>1. IsFiniteSet(SeatNames(n)) /\ SeatNames(n) \in SUBSET Nat
    BY SeatsFinite, SessionNameAssumption
  <2>2. ListLimit(0) \in Nat \ {0} /\ 0 \in Nat
    BY LimitFacts
  <2> QED BY <2>1, <2>2, PageNames
<1>2. U \subseteq UserSession
  BY DEF RoomsFit, RoomFits, GameSession
<1>3. x \in P => \E y \in U : y.name = x
  BY <1>1 DEF SeatNames
<1> HIDE DEF P, U
<1>4. x \in P => (CHOOSE y \in U : y.name = x) \in UserSession
  BY <1>2, <1>3
<1>5. GetUserSession(u, [parent |-> n, name |-> x])
        = IF MayList(u, n) /\ x \in P THEN CHOOSE y \in U : y.name = x ELSE Absent
  BY DEF GetUserSession, P, U
<1> QED BY <1>4, <1>5

(* Rooms, walks and the answers to everybody are messages of their types.  *)
THEOREM ReadsTypeTheorem == PagedSpec => []PagedTypeOK
<1>1. ReadsInv => PagedTypeOK
  <2> SUFFICES ASSUME ReadsInv PROVE PagedTypeOK
    OBVIOUS
  <2>1. RoomsFit /\ DocumentsFit /\ changes \in 0..MaxChanges
    BY DEF ReadsInv
  <2>2. walk = Idle \/ walk \in Walk
    BY DEF ReadsInv, WalkFits
  <2>3. \A n \in DOMAIN sessions : n \in RoomName /\ sessions[n] \in GameSession
    BY <2>1 DEF RoomsFit, RoomFits
  <2>4. ASSUME NEW u \in Person, NEW n \in DOMAIN sessions
        PROVE  GetGameSession(u, [name |-> n, view |-> "FULL"]) \in GameSession \cup {Absent}
    <3>1. SafeView(sessions[n], "FULL") \in GameSession
      BY <2>3, SafeViewType
    <3> QED BY <3>1 DEF GetGameSession
  <2>5. \A k \in ListSizes : ListDocuments([size |-> k, token |-> 0]) \in ListDocumentsResponse
    BY <2>1, DocumentsType
  <2>6. ASSUME NEW u \in Person
        PROVE  /\ \A q \in Queries : QueryGameSessions(u, q) \in QueryGameSessionsResponse
               /\ \A n \in DOMAIN sessions :
                     /\ GetGameSession(u, [name |-> n, view |-> "FULL"]) \in GameSession \cup {Absent}
                     /\ IssueMatchmakingIdToken(u, [session |-> n, users |-> {u}, tokens |-> {u}])
                           \in IssueMatchmakingIdTokenResponse \cup {Absent}
                     /\ MayList(u, n) =>
                           ListUserSessions(u, [parent |-> n, size |-> 0, token |-> 0])
                             \in ListUserSessionsResponse
                     /\ \A x \in SeatName :
                           GetUserSession(u, [parent |-> n, name |-> x]) \in UserSession \cup {Absent}
    BY <2>1, <2>4, QueryType, IssuedType, ListType, SeatType
  <2>7. documents \subseteq DocumentName
    BY <2>1 DEF DocumentsFit
  <2> QED BY <2>1, <2>2, <2>3, <2>5, <2>6, <2>7 DEF PagedTypeOK
<1> QED BY <1>1, ReadsInvariant, PTL

-----------------------------------------------------------------------------
(* Who is online                                                           *)
(*                                                                         *)
(* The entry of a player counts his streams, for any streams, sessions and *)
(* rooms; the copies of a request name whoever was there all through it,   *)
(* and only who was there at some time.                                    *)

Holders(held, e) == {l \in Link : held[l] = e}
EntryFits(held, counts, e) ==
    /\ IsFiniteSet(Holders(held, e)) /\ counts[e] # 0
    /\ Cardinality(Holders(held, e)) = counts[e]

LinksFit ==
    /\ DOMAIN present \subseteq Key /\ streams \in Seq(Nat)
    /\ counted \in [Link -> 0..Len(streams)]
    /\ \A k \in DOMAIN present : present[k] \in 1..Len(streams)
    /\ \A j, k \in DOMAIN present : present[j] = present[k] => j = k
    /\ \A l \in Link : counted[l] # 0 => /\ KeyOfLink[l] \in DOMAIN present
                                         /\ present[KeyOfLink[l]] = counted[l]
    /\ \A k \in DOMAIN present : EntryFits(counted, streams, present[k])

SessionsFit == active \subseteq Session /\ IsFiniteSet(active)

LEMMA TrackFits ==
    ASSUME LinksFit, NEW l \in Link, Track(l) PROVE LinksFit'
<1>0. PICK k : k = KeyOfLink[l]
  OBVIOUS
<1>1. PICK e : e = IF k \in DOMAIN present THEN present[k] ELSE Len(streams) + 1
  OBVIOUS
<1>2. /\ counted[l] = 0
      /\ present' = [x \in DOMAIN present \cup {k} |-> IF x = k THEN e ELSE present[x]]
      /\ streams' = IF e \in DOMAIN streams THEN [streams EXCEPT ![e] = @ + 1]
                    ELSE Append(streams, 1)
      /\ counted' = [counted EXCEPT ![l] = e]
  BY <1>0, <1>1 DEF Track
<1>3. k \in Key /\ Len(streams) \in Nat /\ DOMAIN streams = 1..Len(streams)
  BY <1>0, DashboardAssumption DEF LinksFit
<1>4. e \in 1..(Len(streams) + 1) /\ (e \in DOMAIN streams <=> k \in DOMAIN present)
  BY <1>1, <1>3 DEF LinksFit
<1>5. /\ streams' \in Seq(Nat) /\ Len(streams') \in Nat
      /\ Len(streams') >= Len(streams) /\ e \in 1..Len(streams')
      /\ \A i \in 1..Len(streams) : i # e => streams'[i] = streams[i]
      /\ streams'[e] = IF k \in DOMAIN present THEN streams[e] + 1 ELSE 1
  <2>1. CASE k \in DOMAIN present
    <3>1. e \in DOMAIN streams /\ streams' = [streams EXCEPT ![e] = @ + 1]
      BY <1>2, <1>4, <2>1
    <3>2. streams[e] + 1 \in Nat
      BY <1>3, <3>1 DEF LinksFit
    <3> QED BY <1>3, <2>1, <3>1, <3>2 DEF LinksFit
  <2>2. CASE k \notin DOMAIN present
    <3>1. e = Len(streams) + 1 /\ streams' = Append(streams, 1)
      BY <1>1, <1>2, <1>4, <2>2
    <3> QED BY <1>3, <2>2, <3>1 DEF LinksFit
  <2> QED BY <2>1, <2>2
<1>6. /\ \A x \in DOMAIN present : x # k => present[x] # e
      /\ k \notin DOMAIN present => Holders(counted, e) = {}
  <2>1. CASE k \in DOMAIN present
    BY <1>1, <2>1 DEF LinksFit
  <2>2. CASE k \notin DOMAIN present
    <3>1. e = Len(streams) + 1
      BY <1>1, <2>2
    <3> QED BY <1>3, <3>1 DEF LinksFit, Holders
  <2> QED BY <2>1, <2>2
<1>7. /\ DOMAIN present' = DOMAIN present \cup {k} /\ present'[k] = e
      /\ \A x \in DOMAIN present : x # k => present'[x] = present[x]
  BY <1>2
<1>8. /\ counted' \in [Link -> 0..Len(streams')] /\ counted'[l] = e
      /\ \A m \in Link : m # l => counted'[m] = counted[m]
  <2>1. \A i \in 0..Len(streams) : i \in 0..Len(streams')
    BY <1>3, <1>5
  <2>2. e \in 0..Len(streams')
    BY <1>5
  <2>3. counted \in [Link -> 0..Len(streams')]
    BY <2>1 DEF LinksFit
  <2> QED BY <1>2, <2>2, <2>3
<1>9. Holders(counted', e) = Holders(counted, e) \cup {l} /\ l \notin Holders(counted, e)
  <2>1. e # 0
    BY <1>3, <1>4
  <2> QED BY <1>2, <1>8, <2>1 DEF Holders
<1>11. DOMAIN present' \subseteq Key /\ \A x \in DOMAIN present' : present'[x] \in 1..Len(streams')
  <2>1. \A i \in 1..Len(streams) : i \in 1..Len(streams')
    BY <1>3, <1>5
  <2> QED BY <1>3, <1>5, <1>7, <2>1 DEF LinksFit
<1>12. \A x, y \in DOMAIN present' : present'[x] = present'[y] => x = y
  BY <1>6, <1>7 DEF LinksFit
<1>13. ASSUME NEW m \in Link, counted'[m] # 0
       PROVE  KeyOfLink[m] \in DOMAIN present' /\ present'[KeyOfLink[m]] = counted'[m]
  <2>1. CASE m = l
    BY <1>0, <1>7, <1>8, <2>1
  <2>2. CASE m # l
    <3>1. KeyOfLink[m] \in DOMAIN present /\ present[KeyOfLink[m]] = counted'[m]
      BY <1>8, <1>13, <2>2 DEF LinksFit
    <3>2. CASE KeyOfLink[m] = k
      BY <1>1, <1>7, <3>1, <3>2
    <3> QED BY <1>7, <3>1, <3>2
  <2> QED BY <2>1, <2>2
<1>14. EntryFits(counted', streams', e)
  <2> DEFINE H == Holders(counted, e)
  <2>1. IsFiniteSet(H) /\ Cardinality(H) \in Nat /\ streams'[e] = Cardinality(H) + 1
    <3>1. CASE k \in DOMAIN present
      <4>1. EntryFits(counted, streams, e)
        BY <1>1, <3>1 DEF LinksFit
      <4> QED BY <1>5, <3>1, <4>1, FS_CardinalityType DEF EntryFits
    <3>2. CASE k \notin DOMAIN present
      <4>1. H = {} /\ streams'[e] = 1
        BY <1>5, <1>6, <3>2
      <4> QED BY <4>1, FS_EmptySet
    <3> QED BY <3>1, <3>2
  <2> HIDE DEF H
  <2>2. IsFiniteSet(H \cup {l}) /\ Cardinality(H \cup {l}) = Cardinality(H) + 1
    BY <1>9, <2>1, FS_AddElement DEF H
  <2>3. Holders(counted', e) = H \cup {l}
    BY <1>9 DEF H
  <2> QED BY <2>1, <2>2, <2>3 DEF EntryFits
<1>15. ASSUME NEW x \in DOMAIN present, x # k
       PROVE  EntryFits(counted', streams', present'[x])
  <2>1. PICK i : i = present[x]
    OBVIOUS
  <2>2. present'[x] = i /\ i \in 1..Len(streams) /\ i # e /\ EntryFits(counted, streams, i)
    BY <1>6, <1>7, <1>15, <2>1 DEF LinksFit
  <2>3. streams'[i] = streams[i]
    BY <1>5, <2>2
  <2>4. Holders(counted', i) = Holders(counted, i)
    BY <1>2, <1>8, <2>2 DEF Holders
  <2> QED BY <2>2, <2>3, <2>4 DEF EntryFits
<1>16. \A x \in DOMAIN present' : EntryFits(counted', streams', present'[x])
  BY <1>7, <1>14, <1>15
<1> QED BY <1>5, <1>8, <1>11, <1>12, <1>13, <1>16 DEF LinksFit

LEMMA UntrackFits ==
    ASSUME LinksFit, NEW l \in Link, Untrack(l) PROVE LinksFit'
<1>0. PICK k, e : k = KeyOfLink[l] /\ e = counted[l]
  OBVIOUS
<1>1. /\ e # 0 /\ present' = Forget(k, e)
      /\ streams' = [streams EXCEPT ![e] = @ - 1] /\ counted' = [counted EXCEPT ![l] = 0]
  BY <1>0 DEF Untrack
<1>2. k \in DOMAIN present /\ present[k] = e /\ e \in 1..Len(streams) /\ Len(streams) \in Nat
  BY <1>0, <1>1 DEF LinksFit
<1> DEFINE H == Holders(counted, e)
<1>4. /\ IsFiniteSet(H) /\ Cardinality(H) = streams[e] /\ streams[e] \in Nat \ {0} /\ l \in H
  <2>1. EntryFits(counted, streams, e)
    BY <1>2 DEF LinksFit
  <2>2. streams[e] \in Nat
    BY <1>2 DEF LinksFit
  <2>3. l \in H
    BY <1>0 DEF Holders
  <2> QED BY <2>1, <2>2, <2>3 DEF EntryFits
<1>5. IsFiniteSet(H \ {l}) /\ Cardinality(H \ {l}) = streams[e] - 1
  <2> HIDE DEF H
  <2> QED BY <1>4, FS_RemoveElement
<1>6. /\ streams' \in Seq(Nat) /\ Len(streams') = Len(streams) /\ streams'[e] = streams[e] - 1
      /\ \A i \in 1..Len(streams) : i # e => streams'[i] = streams[i]
  <2>1. streams[e] - 1 \in Nat
    BY <1>4
  <2> QED BY <1>1, <1>2, <2>1 DEF LinksFit
<1>7. /\ counted' \in [Link -> 0..Len(streams)] /\ counted'[l] = 0
      /\ \A m \in Link : m # l => counted'[m] = counted[m]
  <2>1. 0 \in 0..Len(streams)
    BY <1>2
  <2> QED BY <1>1, <2>1 DEF LinksFit
<1>8. Holders(counted', e) = H \ {l}
  BY <1>1, <1>7 DEF Holders
<1>9. ASSUME NEW x \in DOMAIN present, x # k PROVE EntryFits(counted', streams', present[x])
  <2>1. PICK i : i = present[x]
    OBVIOUS
  <2>2. i \in 1..Len(streams) /\ i # e /\ EntryFits(counted, streams, i)
    BY <1>2, <1>9, <2>1 DEF LinksFit
  <2>3. streams'[i] = streams[i]
    BY <1>6, <2>2
  <2>4. Holders(counted', i) = Holders(counted, i)
    <3>1. i # 0
      BY <2>2
    <3> QED BY <1>0, <1>7, <2>2, <3>1 DEF Holders
  <2> QED BY <2>1, <2>2, <2>3, <2>4 DEF EntryFits
<1>11. CASE streams[e] = 1
  <2>1. present' = [x \in DOMAIN present \ {k} |-> present[x]]
    BY <1>1, <1>11 DEF Forget
  <2>2. H \ {l} = {}
    <3> HIDE DEF H
    <3> QED BY <1>5, <1>11, FS_EmptySet
  <2>3. /\ DOMAIN present' = DOMAIN present \ {k}
        /\ \A x \in DOMAIN present' : present'[x] = present[x]
    BY <2>1
  <2>4. ASSUME NEW m \in Link, counted'[m] # 0
        PROVE  KeyOfLink[m] \in DOMAIN present' /\ present'[KeyOfLink[m]] = counted'[m]
    <3>1. m # l /\ counted'[m] = counted[m]
      BY <1>7, <2>4
    <3>2. counted[m] # e
      BY <1>8, <2>2, <3>1 DEF Holders
    <3>3. KeyOfLink[m] \in DOMAIN present /\ present[KeyOfLink[m]] = counted[m]
      BY <2>4, <3>1 DEF LinksFit
    <3> QED BY <1>2, <2>3, <3>1, <3>2, <3>3
  <2>5. \A x \in DOMAIN present' : EntryFits(counted', streams', present'[x])
    BY <1>9, <2>3
  <2>6. /\ DOMAIN present' \subseteq Key
        /\ \A x \in DOMAIN present' : present'[x] \in 1..Len(streams')
        /\ \A x, y \in DOMAIN present' : present'[x] = present'[y] => x = y
    BY <1>6, <2>3 DEF LinksFit
  <2>7. counted' \in [Link -> 0..Len(streams')]
    BY <1>6, <1>7
  <2> QED BY <1>6, <2>4, <2>5, <2>6, <2>7 DEF LinksFit
<1>12. CASE streams[e] # 1
  <2>1. present' = present
    BY <1>1, <1>12 DEF Forget
  <2>2. ASSUME NEW m \in Link, counted'[m] # 0
        PROVE  KeyOfLink[m] \in DOMAIN present /\ present[KeyOfLink[m]] = counted'[m]
    BY <1>7, <2>2 DEF LinksFit
  <2>3. EntryFits(counted', streams', e)
    <3>1. streams[e] - 1 # 0
      BY <1>4, <1>12
    <3> HIDE DEF H
    <3> QED BY <1>5, <1>6, <1>8, <3>1 DEF EntryFits
  <2>4. \A x \in DOMAIN present : EntryFits(counted', streams', present[x])
    BY <1>2, <1>9, <2>3
  <2>5. counted' \in [Link -> 0..Len(streams')]
    BY <1>6, <1>7
  <2> QED BY <1>6, <2>1, <2>2, <2>4, <2>5 DEF LinksFit
<1> QED BY <1>11, <1>12

LEMMA NoTwoMeansAtMostOne ==
    ASSUME NEW S, \A x, y \in S : x = y
    PROVE  IsFiniteSet(S) /\ Cardinality(S) <= 1
<1>1. CASE S = {}
  BY <1>1, FS_EmptySet
<1>2. CASE S # {}
  <2>1. PICK x : x \in S
    BY <1>2
  <2>2. S = {x}
    BY <2>1
  <2>3. IsFiniteSet({x}) /\ Cardinality({x}) = 1
    BY FS_Singleton
  <2> QED BY <2>2, <2>3
<1> QED BY <1>1, <1>2

PageParts == {"at", "presences", "sessions", "players", "groups"}
PageShape ==
    /\ page = [x \in PageParts |-> page[x]]
    /\ page.at \in {"none", "presences", "sessions", "shown"}

CopiesFit ==
    /\ page.at \in {"presences", "sessions"} =>
          /\ steady \subseteq Open /\ Open \subseteq seenOpen
          /\ page.presences \subseteq Key
          /\ \A k \in page.presences : \E o \in seenOpen : KeyOfOpen(o) = k
          /\ \A l \in Link : <<"link", l>> \in steady => KeyOfLink[l] \in page.presences
    /\ page.at = "sessions" =>
          /\ page.sessions \subseteq Session /\ IsFiniteSet(page.sessions)
          /\ \A s \in Session : <<"session", s>> \in steady => s \in page.sessions
          /\ \A s \in page.sessions : <<"session", s>> \in seenOpen

BoardInv ==
    /\ LinksFit /\ SessionsFit /\ halls \subseteq Hall /\ peak \in 0..Cardinality(Key)
    /\ PageShape /\ CopiesFit /\ EverybodyShownOnce

LEMMA KeysOpen ==
    /\ \A l : KeyOfOpen(<<"link", l>>) = KeyOfLink[l]
    /\ \A s : KeyOfOpen(<<"session", s>>) = KeyOfSession[s]
    /\ \A l, s : <<"link", l>> # <<"session", s>>
<1>1. "link" # "session"
  OBVIOUS
<1> QED BY <1>1 DEF KeyOfOpen

LEMMA OpenFacts ==
    /\ \A l : <<"link", l>> \in Open <=> l \in Link /\ counted[l] # 0
    /\ \A s : <<"session", s>> \in Open <=> s \in active
    /\ \A o \in Open : \/ \E l \in Link : counted[l] # 0 /\ o = <<"link", l>>
                       \/ \E s \in active : o = <<"session", s>>
<1>1. \A l, s : <<"link", l>> # <<"session", s>>
  BY KeysOpen
<1>2. \A x, y : <<"link", x>> = <<"link", y>> => x = y
  OBVIOUS
<1>3. \A x, y : <<"session", x>> = <<"session", y>> => x = y
  OBVIOUS
<1> QED BY <1>1, <1>2, <1>3 DEF Open

(* Streams and sessions come and go under a request. *)
LEMMA WatchFits ==
    ASSUME CopiesFit, EverybodyShownOnce, PageShape, page' = page, Watch
    PROVE  CopiesFit' /\ EverybodyShownOnce' /\ PageShape'
<1>1. PageShape'
  BY DEF PageShape
<1>2. CASE page.at \in {"none", "shown"}
  <2>1. steady' = steady /\ seenOpen' = seenOpen
    BY <1>2 DEF Watch
  <2>2. EverybodyShownOnce'
    BY <2>1 DEF EverybodyShownOnce
  <2>3. page'.at \notin {"presences", "sessions"} /\ page'.at # "sessions"
    BY <1>2
  <2>4. CopiesFit'
    BY <2>3 DEF CopiesFit
  <2> QED BY <1>1, <2>2, <2>4
<1>3. CASE page.at \in {"presences", "sessions"}
  <2>1. steady' = steady \cap Open' /\ seenOpen' = seenOpen \cup Open' /\ page'.at # "shown"
    BY <1>3 DEF Watch
  <2>2. EverybodyShownOnce'
    BY <2>1 DEF EverybodyShownOnce
  <2>3. CopiesFit'
    BY <1>3, <2>1 DEF CopiesFit
  <2> QED BY <1>1, <2>2, <2>3
<1> QED BY <1>2, <1>3 DEF PageShape

LEMMA LinkChanged ==
    ASSUME BoardInv, NEW l \in Link, OpenLink(l) \/ CloseLink(l) PROVE BoardInv'
<1>1. LinksFit'
  BY TrackFits, UntrackFits DEF BoardInv, OpenLink, CloseLink
<1>2. UNCHANGED <<active, halls, page, peak>> /\ Watch
  BY DEF OpenLink, CloseLink
<1>3. CopiesFit' /\ EverybodyShownOnce' /\ PageShape'
  BY <1>2, WatchFits DEF BoardInv
<1> QED BY <1>1, <1>2, <1>3 DEF BoardInv, SessionsFit

LEMMA SessionChanged ==
    ASSUME BoardInv, NEW s \in Session, OpenSession(s) \/ CloseSession(s) PROVE BoardInv'
<1>1. UNCHANGED <<linkVars, halls, page, peak>> /\ Watch
      /\ (active' = active \cup {s} \/ active' = active \ {s})
  BY DEF OpenSession, CloseSession
<1>2. CopiesFit' /\ EverybodyShownOnce' /\ PageShape'
  BY <1>1, WatchFits DEF BoardInv
<1>3. SessionsFit'
  <2>1. IsFiniteSet(active \cup {s}) /\ IsFiniteSet(active \ {s})
    BY FS_AddElement, FS_RemoveElement DEF BoardInv, SessionsFit
  <2> QED BY <1>1, <2>1 DEF BoardInv, SessionsFit
<1>4. LinksFit'
  BY <1>1 DEF BoardInv, LinksFit, linkVars
<1> QED BY <1>1, <1>2, <1>3, <1>4 DEF BoardInv

LEMMA HallEnded == ASSUME BoardInv, NEW h \in Hall, EndHall(h) PROVE BoardInv'
<1>1. /\ halls' = halls \ {h} /\ UNCHANGED <<linkVars, active, page, peak, steady, seenOpen>>
  BY DEF EndHall
<1>2. Open' = Open
  BY <1>1 DEF Open, linkVars
<1>3. LinksFit' /\ SessionsFit' /\ PageShape' /\ EverybodyShownOnce'
  BY <1>1 DEF BoardInv, LinksFit, SessionsFit, PageShape, EverybodyShownOnce, linkVars
<1>4. CopiesFit'
  BY <1>1, <1>2 DEF BoardInv, CopiesFit
<1> QED BY <1>1, <1>3, <1>4 DEF BoardInv

(* The first copy: a player with an entry has a stream that holds it. *)
LEMMA PresencesCopied == ASSUME BoardInv, CopyPresences PROVE BoardInv'
<1>1. /\ page' = [NoPage EXCEPT !.at = "presences", !.presences = DOMAIN present]
      /\ steady' = Open /\ seenOpen' = Open
      /\ UNCHANGED <<linkVars, active, halls, peak>>
  BY DEF CopyPresences
<1>2. /\ page' = [x \in PageParts |-> page'[x]]
      /\ page'.at = "presences" /\ page'.presences = DOMAIN present
  BY <1>1 DEF NoPage, PageParts
<1>3. Open' = Open
  BY <1>1 DEF Open, linkVars
<1>4. ASSUME NEW k \in DOMAIN present PROVE \E o \in Open : KeyOfOpen(o) = k
  <2>1. PICK e : e = present[k]
    OBVIOUS
  <2>2. EntryFits(counted, streams, e) /\ e \in 1..Len(streams) /\ Len(streams) \in Nat
    BY <2>1 DEF BoardInv, LinksFit
  <2>3. Holders(counted, e) # {}
    BY <2>2, FS_EmptySet DEF EntryFits
  <2>4. PICK l \in Link : counted[l] = e
    BY <2>3 DEF Holders
  <2>5. counted[l] # 0
    BY <2>2, <2>4
  <2>6. KeyOfLink[l] = k
    BY <2>1, <2>4, <2>5 DEF BoardInv, LinksFit
  <2>7. <<"link", l>> \in Open /\ KeyOfOpen(<<"link", l>>) = k
    BY <2>5, <2>6, OpenFacts, KeysOpen
  <2> QED BY <2>7
<1>5. \A l \in Link : <<"link", l>> \in Open => KeyOfLink[l] \in DOMAIN present
  BY OpenFacts DEF BoardInv, LinksFit
<1>6. DOMAIN present \subseteq Key
  BY DEF BoardInv, LinksFit
<1>7. CopiesFit'
  BY <1>1, <1>2, <1>3, <1>4, <1>5, <1>6 DEF CopiesFit
<1>8. EverybodyShownOnce' /\ PageShape'
  BY <1>2 DEF EverybodyShownOnce, PageShape
<1>9. LinksFit' /\ SessionsFit'
  BY <1>1 DEF BoardInv, LinksFit, SessionsFit, linkVars
<1> QED BY <1>1, <1>7, <1>8, <1>9 DEF BoardInv

LEMMA SessionsCopied == ASSUME BoardInv, CopySessions PROVE BoardInv'
<1>1. /\ page.at = "presences"
      /\ page' = [page EXCEPT !.at = "sessions", !.sessions = active]
      /\ UNCHANGED <<linkVars, active, halls, peak, steady, seenOpen>>
  BY DEF CopySessions
<1>2. /\ page' = [x \in PageParts |-> page'[x]]
      /\ page'.at = "sessions" /\ page'.sessions = active /\ page'.presences = page.presences
  BY <1>1 DEF BoardInv, PageShape, PageParts
<1>3. Open' = Open
  BY <1>1 DEF Open, linkVars
<1>4. /\ \A s \in Session : <<"session", s>> \in steady => s \in active
      /\ \A s \in active : <<"session", s>> \in seenOpen
  BY <1>1, OpenFacts DEF BoardInv, CopiesFit
<1>5. CopiesFit'
  BY <1>1, <1>2, <1>3, <1>4 DEF BoardInv, CopiesFit, SessionsFit
<1>6. EverybodyShownOnce' /\ PageShape'
  BY <1>2 DEF EverybodyShownOnce, PageShape
<1>7. LinksFit' /\ SessionsFit'
  BY <1>1 DEF BoardInv, LinksFit, SessionsFit, linkVars
<1> QED BY <1>1, <1>5, <1>6, <1>7 DEF BoardInv

(* What the answer is made of, for any copies and rooms. *)
Lines(S, P, H) ==
    {<<KeyOfSession[s], HallOf[s] \in H, s>> : s \in Newest(S)}
        \cup {<<k, FALSE, 0>> : k \in P \ {KeyOfSession[s] : s \in Newest(S)}}

LinesFit(L, S, P) ==
    /\ \A p \in L : p[1] \in Key
    /\ \A p, q \in L : p[1] = q[1] => p = q
    /\ \A p \in L : p[1] \in P \/ \E s \in S : KeyOfSession[s] = p[1]
    /\ \A k \in P : \E p \in L : p[1] = k
    /\ \A s \in S : KeyOfSession[s] \in Known => \E p \in L : p[1] = KeyOfSession[s]

LEMMA LinesFacts ==
    ASSUME NEW S \in SUBSET Session, IsFiniteSet(S), NEW P \in SUBSET Key, NEW H
    PROVE  LinesFit(Lines(S, P, H), S, P)
<1> DEFINE Line(s) == <<KeyOfSession[s], HallOf[s] \in H, s>>  Blank(k) == <<k, FALSE, 0>>
<1> DEFINE N == Newest(S)  seen == {KeyOfSession[s] : s \in N}  L == Lines(S, P, H)
<1>1. /\ \A p \in L : \/ \E s \in N : p = Line(s)
                      \/ \E k \in P : k \notin seen /\ p = Blank(k)
      /\ \A s \in N : Line(s) \in L
      /\ \A k \in P : k \notin seen => Blank(k) \in L
  BY DEF Lines
<1>2. N \subseteq S /\ \A s, t \in N : KeyOfSession[s] = KeyOfSession[t] => s = t
  <2>1. ASSUME NEW s \in N, NEW t \in N, KeyOfSession[s] = KeyOfSession[t] PROVE s = t
    <3>1. s \in S /\ t \in S /\ s <= t /\ t <= s
      BY <2>1 DEF Newest
    <3>2. s \in Nat /\ t \in Nat
      BY <3>1, DashboardAssumption
    <3> QED BY <3>1, <3>2
  <2> QED BY <2>1 DEF Newest
<1>3. ASSUME NEW s \in S, KeyOfSession[s] \in Known
      PROVE  KeyOfSession[s] \in seen
  <2> DEFINE T == {t \in S : KeyOfSession[t] = KeyOfSession[s]}
  <2>1. T \in SUBSET S /\ s \in T /\ \A t \in T : KeyOfSession[t] = KeyOfSession[s] /\ t \in S
    OBVIOUS
  <2>2. \A t \in S : KeyOfSession[t] = KeyOfSession[s] => t \in T
    OBVIOUS
  <2> HIDE DEF T
  <2>3. IsFiniteSet(T) /\ T \in SUBSET Nat /\ T # {}
    BY <2>1, FS_Subset, DashboardAssumption
  <2>4. PICK n \in T : \A t \in T : t <= n
    BY <2>3, GreatestMember
  <2>5. n \in N
    BY <1>3, <2>1, <2>2, <2>4 DEF Newest
  <2> QED BY <2>1, <2>4, <2>5
<1>4. \A s \in S : KeyOfSession[s] \in Key
  BY DashboardAssumption
<1>5. /\ \A s : Line(s)[1] = KeyOfSession[s]
      /\ \A k : Blank(k)[1] = k
  OBVIOUS
<1>6. /\ \A s \in N : KeyOfSession[s] \in seen
      /\ \A k \in seen : \E s \in N : KeyOfSession[s] = k
  OBVIOUS
<1> HIDE DEF N, seen, L, Line, Blank
<1>7. \A p \in L : p[1] \in Key
  BY <1>1, <1>2, <1>4, <1>5
<1>8. ASSUME NEW p \in L, NEW q \in L, p[1] = q[1] PROVE p = q
  <2>1. CASE \E s \in N : p = Line(s)
    <3>1. PICK s \in N : p = Line(s)
      BY <2>1
    <3>2. q[1] = KeyOfSession[s] /\ q[1] \in seen
      BY <1>5, <1>6, <1>8, <3>1
    <3>3. PICK t \in N : q = Line(t)
      BY <1>1, <1>5, <3>2
    <3>4. s = t
      BY <1>2, <1>5, <3>2, <3>3
    <3> QED BY <3>1, <3>3, <3>4
  <2>2. CASE \E k \in P : k \notin seen /\ p = Blank(k)
    <3>1. PICK k \in P : k \notin seen /\ p = Blank(k)
      BY <2>2
    <3>2. q[1] = k
      BY <1>5, <1>8, <3>1
    <3>3. PICK j \in P : q = Blank(j)
      BY <1>1, <1>5, <1>6, <3>1, <3>2
    <3> QED BY <1>5, <3>1, <3>2, <3>3
  <2> QED BY <1>1, <2>1, <2>2
<1>9. \A p \in L : p[1] \in P \/ \E s \in S : KeyOfSession[s] = p[1]
  BY <1>1, <1>2, <1>5
<1>10. ASSUME NEW k \in seen PROVE \E p \in L : p[1] = k
  BY <1>1, <1>5, <1>6
<1>11. \A k \in P : \E p \in L : p[1] = k
  BY <1>1, <1>5, <1>10
<1> QED BY <1>3, <1>7, <1>8, <1>9, <1>10, <1>11 DEF L, LinesFit

(* A line for each player of a shown room. *)
LEMMA GroupFacts ==
    ASSUME NEW S \in SUBSET Session, IsFiniteSet(S), NEW P, NEW H, NEW h \in H,
           Together(Newest(S), h) # {}
    PROVE  /\ Group(Newest(S), h).host \in Group(Newest(S), h).players
           /\ \A s \in Group(Newest(S), h).players :
                 \E p \in Lines(S, P, H) : p[2] /\ p[3] = s
<1> DEFINE N == Newest(S)  with == Together(N, h)
           last == CHOOSE s \in with : \A t \in with : t <= s
           g == Group(N, h)
<1>1. g.players = with /\ g.host = IF HostOf[h] \in with THEN HostOf[h] ELSE last
  BY DEF Group
<1>2. with \in SUBSET S /\ \A s \in with : s \in N /\ HallOf[s] = h
  BY DEF Together, Newest
<1>3. \A s \in N : <<KeyOfSession[s], HallOf[s] \in H, s>> \in Lines(S, P, H)
  BY DEF Lines
<1>4. (\E s \in with : \A t \in with : t <= s) => last \in with
  OBVIOUS
<1> HIDE DEF with, last, N, g
<1>5. IsFiniteSet(with) /\ with \in SUBSET Nat
  BY <1>2, FS_Subset, DashboardAssumption
<1>6. with # {}
  BY DEF with, N
<1>7. \E s \in with : \A t \in with : t <= s
  BY <1>5, <1>6, GreatestMember
<1>8. g.host \in g.players
  BY <1>1, <1>4, <1>7
<1>9. ASSUME NEW s \in g.players PROVE \E p \in Lines(S, P, H) : p[2] /\ p[3] = s
  <2>1. s \in N /\ HallOf[s] \in H
    BY <1>1, <1>2
  <2>2. PICK p : p = <<KeyOfSession[s], HallOf[s] \in H, s>>
    OBVIOUS
  <2>3. p \in Lines(S, P, H) /\ p[3] = s
    BY <1>3, <2>1, <2>2
  <2>4. (HallOf[s] \in H) = TRUE
    BY <2>1
  <2>5. p = <<KeyOfSession[s], TRUE, s>>
    BY <2>2, <2>4
  <2>6. p[2]
    BY <2>5
  <2> QED BY <2>3, <2>6
<1> QED BY <1>8, <1>9 DEF g, N

LEMMA PageShown == ASSUME BoardInv, Show PROVE BoardInv'
<1> DEFINE S == page.sessions  P == page.presences
<1>1. PICK L : L = Lines(S, P, halls)
  OBVIOUS
<1>2. PICK G : G = {Group(Newest(S), h) : h \in {x \in halls : Together(Newest(S), x) # {}}}
  OBVIOUS
<1>3. /\ page.at = "sessions"
      /\ page' = [page EXCEPT !.at = "shown", !.players = L, !.groups = G]
      /\ peak' = IF Cardinality(L) > peak THEN Cardinality(L) ELSE peak
      /\ UNCHANGED <<linkVars, active, halls, steady, seenOpen>>
  BY <1>1, <1>2 DEF Show, Lines
<1>4. /\ page' = [x \in PageParts |-> page'[x]]
      /\ page'.at = "shown" /\ page'.players = L /\ page'.groups = G
  BY <1>3 DEF BoardInv, PageShape, PageParts
<1>5. /\ S \in SUBSET Session /\ IsFiniteSet(S) /\ P \in SUBSET Key
      /\ steady \subseteq Open /\ Open \subseteq seenOpen
      /\ \A k \in P : \E o \in seenOpen : KeyOfOpen(o) = k
      /\ \A l \in Link : <<"link", l>> \in steady => KeyOfLink[l] \in P
      /\ \A s \in Session : <<"session", s>> \in steady => s \in S
      /\ \A s \in S : <<"session", s>> \in seenOpen
  BY <1>3 DEF BoardInv, CopiesFit
<1> HIDE DEF S, P
<1>6. /\ \A p \in L : p[1] \in Key
      /\ \A p, q \in L : p[1] = q[1] => p = q
      /\ \A p \in L : p[1] \in P \/ \E s \in S : KeyOfSession[s] = p[1]
      /\ \A k \in P : \E p \in L : p[1] = k
      /\ \A s \in S : KeyOfSession[s] \in Known => \E p \in L : p[1] = KeyOfSession[s]
  <2>1. LinesFit(L, S, P)
    BY <1>1, <1>5, LinesFacts
  <2> QED BY <2>1 DEF LinesFit
<1>7. ASSUME NEW k \in Key
      PROVE  LET Of == {p \in L : p[1] = k}
             IN  /\ Cardinality(Of) <= 1
                 /\ (\E o \in steady : KeyOfOpen(o) = k /\ (o[1] = "link" \/ k \in Known))
                       => Of # {}
                 /\ Of # {} => \E o \in seenOpen : KeyOfOpen(o) = k
  <2> DEFINE Of == {p \in L : p[1] = k}
  <2>1. \A x, y \in Of : x = y
    BY <1>6
  <2>2. Of # {} <=> \E p \in L : p[1] = k
    OBVIOUS
  <2> HIDE DEF Of
  <2>3. Cardinality(Of) <= 1
    BY <2>1, NoTwoMeansAtMostOne
  <2>4. ASSUME NEW o \in steady, KeyOfOpen(o) = k, o[1] = "link" \/ k \in Known PROVE Of # {}
    <3>1. CASE \E l \in Link : o = <<"link", l>>
      BY <1>5, <1>6, <2>2, <2>4, <3>1, KeysOpen
    <3>2. CASE \E s \in active : o = <<"session", s>>
      <4>1. PICK s \in active : o = <<"session", s>>
        BY <3>2
      <4>2. o[1] # "link" /\ KeyOfSession[s] = k /\ s \in Session
        BY <2>4, <4>1, KeysOpen DEF BoardInv, SessionsFit
      <4>3. s \in S /\ k \in Known
        BY <1>5, <2>4, <4>1, <4>2
      <4> QED BY <1>6, <2>2, <4>2, <4>3
    <3> QED BY <1>5, <3>1, <3>2, OpenFacts
  <2>5. ASSUME Of # {} PROVE \E o \in seenOpen : KeyOfOpen(o) = k
    <3>1. PICK p \in L : p[1] = k
      BY <2>2, <2>5
    <3>2. CASE p[1] \in P
      BY <1>5, <3>1, <3>2
    <3>3. CASE \E s \in S : KeyOfSession[s] = p[1]
      BY <1>5, <3>1, <3>3, KeysOpen
    <3> QED BY <1>6, <3>2, <3>3
  <2> QED BY <2>3, <2>4, <2>5 DEF Of
<1>8. ASSUME NEW g \in G
      PROVE  /\ g.host \in g.players
             /\ \A s \in g.players : \E p \in L : p[2] /\ p[3] = s
  <2>1. PICK h \in halls : Together(Newest(S), h) # {} /\ g = Group(Newest(S), h)
    BY <1>2
  <2> QED BY <1>1, <1>5, <2>1, GroupFacts
<1>9. EverybodyShownOnce'
  BY <1>3, <1>4, <1>7, <1>8 DEF EverybodyShownOnce, KeyOfOpen
<1>10. CopiesFit' /\ PageShape'
  BY <1>4 DEF CopiesFit, PageShape
<1>11. LinksFit' /\ SessionsFit'
  BY <1>3 DEF BoardInv, LinksFit, SessionsFit, linkVars
<1>12. peak' \in 0..Cardinality(Key)
  <2> DEFINE f == [p \in L |-> p[1]]
  <2>1. f \in [L -> Key] /\ \A p, q \in L : f[p] = f[q] => p = q
    BY <1>6
  <2> HIDE DEF f
  <2>2. f \in Injection(L, Key)
    BY <2>1, Fun_IsInj
  <2>3. IsFiniteSet(L) /\ Cardinality(L) <= Cardinality(Key)
    BY <2>2, FS_Injection, DashboardAssumption
  <2>4. Cardinality(L) \in Nat /\ Cardinality(Key) \in Nat
    BY <2>3, FS_CardinalityType, DashboardAssumption
  <2> QED BY <1>3, <2>3, <2>4 DEF BoardInv
<1> QED BY <1>3, <1>9, <1>10, <1>11, <1>12 DEF BoardInv

LEMMA BoardInvInit == BoardInit => BoardInv
<1> SUFFICES ASSUME BoardInit PROVE BoardInv
  OBVIOUS
<1>1. /\ present = [k \in {} |-> 0] /\ streams = <<>> /\ counted = [l \in Link |-> 0]
      /\ active = {} /\ halls = Hall /\ page = NoPage /\ peak = 0
  BY DEF BoardInit
<1>2. LinksFit
  <2>1. DOMAIN present = {} /\ streams \in Seq(Nat) /\ Len(streams) = 0 /\ 0 \in 0..0
    BY <1>1
  <2>2. counted \in [Link -> 0..Len(streams)]
    BY <1>1, <2>1
  <2>3. \A l \in Link : counted[l] = 0
    BY <1>1
  <2> QED BY <2>1, <2>2, <2>3 DEF LinksFit
<1>3. SessionsFit /\ halls \subseteq Hall
  BY <1>1, FS_EmptySet DEF SessionsFit
<1>4. peak \in 0..Cardinality(Key)
  <2>1. Cardinality(Key) \in Nat
    BY FS_CardinalityType, DashboardAssumption
  <2> QED BY <1>1, <2>1
<1>5. page.at = "none" /\ PageShape
  BY <1>1 DEF NoPage, PageShape, PageParts
<1>6. CopiesFit /\ EverybodyShownOnce
  BY <1>5 DEF CopiesFit, EverybodyShownOnce
<1> QED BY <1>2, <1>3, <1>4, <1>5, <1>6 DEF BoardInv

LEMMA BoardStep == BoardInv /\ [BoardNext]_boardVars => BoardInv'
<1> SUFFICES ASSUME BoardInv, [BoardNext]_boardVars PROVE BoardInv'
  OBVIOUS
<1>1. CASE UNCHANGED boardVars
  <2>1. UNCHANGED <<present, streams, counted, active, halls, page, peak, steady, seenOpen>>
    BY <1>1 DEF boardVars
  <2>2. Open' = Open
    BY <2>1 DEF Open
  <2> QED BY <2>1, <2>2 DEF BoardInv, LinksFit, SessionsFit, PageShape, CopiesFit,
             EverybodyShownOnce
<1> QED BY <1>1, LinkChanged, SessionChanged, HallEnded, PresencesCopied, SessionsCopied,
       PageShown DEF BoardNext

(* Through openings, closings and the three copies of a request            *)
(* (src/dashboard.go) an entry counts the streams that hold it, and each   *)
(* copy has whoever was there all the time.                                *)
THEOREM BoardInvariant == BoardSpec => []BoardInv
  BY BoardInvInit, BoardStep, PTL DEF BoardSpec

(* Who was there all through the request is on the page, once, and nobody  *)
(* is who had nothing open meanwhile, though its three copies are taken    *)
(* one after another, for any streams, sessions and rooms.                 *)
THEOREM PageTheorem == BoardSpec => []EverybodyShownOnce
<1>1. BoardInv => EverybodyShownOnce
  BY DEF BoardInv
<1> QED BY <1>1, BoardInvariant, PTL

-----------------------------------------------------------------------------
(* Contents                                                                *)
(*                                                                         *)
(* What is stored was answered under its own name, and what was answered   *)
(* is stored under its name or has been deleted, for any authors, parents  *)
(* and bounds.                                                             *)

Naming == {u \in Author : creating[u] # NoContent}

ContentInv ==
    /\ ContentTypeOK
    /\ contents = [n \in DOMAIN contents |-> contents[n]]
    /\ IsFiniteSet(answered) /\ IsFiniteSet(Naming)
    /\ \A n \in DOMAIN contents : contents[n] \in answered
    /\ \A c \in answered : c.name \in DOMAIN contents \/ c.name \in deleted

LEMMA ContentInvInit == ContentInit => ContentInv
<1> SUFFICES ASSUME ContentInit PROVE ContentInv
  OBVIOUS
<1>1. /\ contents = NoContents /\ tick = 1 /\ answered = {} /\ deleted = {}
      /\ creating = [u \in Author |-> NoContent]
  BY DEF ContentInit
<1>2. DOMAIN contents = {} /\ contents = [n \in DOMAIN contents |-> contents[n]]
  BY <1>1 DEF NoContents
<1>3. Naming = {}
  BY <1>1 DEF Naming
<1>4. ContentTypeOK
  BY <1>1, <1>2, DatastoreBounds DEF ContentTypeOK
<1> QED BY <1>1, <1>2, <1>3, <1>4, FS_EmptySet DEF ContentInv

LEMMA NameInv ==
    ASSUME ContentInv, NEW r \in CreateContentRequest, NameContent(r) PROVE ContentInv'
<1> DEFINE c == [name |-> <<r.parent, tick>>, user |-> r.user, payload |-> Creations + 1]
<1>1. /\ Creations < MaxContents /\ creating' = [creating EXCEPT ![r.user] = c]
      /\ UNCHANGED <<contents, tick, answered, deleted>>
  BY DEF NameContent
<1>2. r.parent \in Parent /\ r.user \in Author
  BY DEF CreateContentRequest
<1>3. Creations \in Nat
  BY FS_CardinalityType DEF ContentInv, Creations, Naming
<1>4. c \in Content
  <2>1. Creations + 1 \in 1..MaxContents
    BY <1>1, <1>3, DatastoreBounds
  <2>2. <<r.parent, tick>> \in ContentName
    BY <1>2 DEF ContentInv, ContentTypeOK, ContentName
  <2> QED BY <1>2, <2>1, <2>2 DEF Content
<1> HIDE DEF c
<1>5. creating' \in [Author -> Content \cup {NoContent}]
  BY <1>1, <1>2, <1>4 DEF ContentInv, ContentTypeOK
<1>6. IsFiniteSet(Naming')
  <2>1. Naming' \in SUBSET (Naming \cup {r.user})
    BY <1>1 DEF Naming, ContentInv, ContentTypeOK
  <2>2. IsFiniteSet(Naming \cup {r.user})
    BY FS_AddElement DEF ContentInv
  <2> QED BY <2>1, <2>2, FS_Subset
<1>7. ContentTypeOK'
  BY <1>1, <1>5 DEF ContentInv, ContentTypeOK
<1> QED BY <1>1, <1>6, <1>7 DEF ContentInv

LEMMA StoreInv ==
    ASSUME ContentInv, NEW u \in Author, StoreContent(u) PROVE ContentInv'
<1> DEFINE c == creating[u]
<1>1. /\ c # NoContent
      /\ contents' = [n \in DOMAIN contents \cup {c.name} |->
                        IF n = c.name THEN c ELSE contents[n]]
      /\ creating' = [creating EXCEPT ![u] = NoContent]
      /\ answered' = answered \cup {c} /\ tick' = tick /\ deleted' = deleted
  BY DEF StoreContent
<1>2. c \in Content /\ c.name \in ContentName
  BY <1>1 DEF ContentInv, ContentTypeOK, Content
<1>3. IsFiniteSet(Naming')
  <2>1. Naming' \in SUBSET Naming
    BY <1>1 DEF Naming, ContentInv, ContentTypeOK
  <2> QED BY <2>1, FS_Subset DEF ContentInv
<1>4. creating' \in [Author -> Content \cup {NoContent}]
  BY <1>1 DEF ContentInv, ContentTypeOK
<1> HIDE DEF c
<1>5. /\ DOMAIN contents' = DOMAIN contents \cup {c.name} /\ contents'[c.name] = c
      /\ \A n \in DOMAIN contents : n # c.name => contents'[n] = contents[n]
      /\ contents' = [n \in DOMAIN contents' |-> contents'[n]]
  BY <1>1
<1>6. IsFiniteSet(answered')
  BY <1>1, FS_AddElement DEF ContentInv
<1>7. ContentTypeOK'
  <2>1. DOMAIN contents' \subseteq ContentName
    BY <1>2, <1>5 DEF ContentInv, ContentTypeOK
  <2>2. ASSUME NEW n \in DOMAIN contents'
        PROVE  contents'[n] \in Content /\ contents'[n].name = n
    <3>1. CASE n = c.name
      BY <1>2, <1>5, <3>1
    <3>2. CASE n # c.name
      BY <1>5, <3>2 DEF ContentInv, ContentTypeOK
    <3> QED BY <3>1, <3>2
  <2>3. answered' \subseteq Content
    BY <1>1, <1>2 DEF ContentInv, ContentTypeOK
  <2> QED BY <1>1, <1>4, <2>1, <2>2, <2>3 DEF ContentInv, ContentTypeOK
<1>8. \A n \in DOMAIN contents' : contents'[n] \in answered'
  BY <1>1, <1>5 DEF ContentInv
<1>9. \A d \in answered' : d.name \in DOMAIN contents' \/ d.name \in deleted'
  BY <1>1, <1>5 DEF ContentInv
<1> QED BY <1>3, <1>5, <1>6, <1>7, <1>8, <1>9 DEF ContentInv

LEMMA DeletedInv ==
    ASSUME ContentInv, NEW r \in DeleteContentRequest, DeleteContent(r) PROVE ContentInv'
<1>1. /\ contents' = [n \in DOMAIN contents \ {r.name} |-> contents[n]]
      /\ deleted' = deleted \cup {r.name} /\ UNCHANGED <<tick, creating, answered>>
  BY DEF DeleteContent
<1>2. r.name \in ContentName
  BY DEF DeleteContentRequest
<1>3. /\ DOMAIN contents' = DOMAIN contents \ {r.name}
      /\ \A n \in DOMAIN contents' : contents'[n] = contents[n]
      /\ contents' = [n \in DOMAIN contents' |-> contents'[n]]
  BY <1>1
<1>4. ContentTypeOK'
  BY <1>1, <1>2, <1>3 DEF ContentInv, ContentTypeOK
<1>5. Naming' = Naming
  BY <1>1 DEF Naming
<1> QED BY <1>1, <1>3, <1>4, <1>5 DEF ContentInv

LEMMA ContentStep == ContentInv /\ [ContentNext]_contentVars => ContentInv'
<1> SUFFICES ASSUME ContentInv, [ContentNext]_contentVars PROVE ContentInv'
  OBVIOUS
<1>1. CASE UNCHANGED contentVars
  BY <1>1 DEF contentVars, ContentInv, ContentTypeOK, Naming
<1>2. CASE TickContent
  <2>1. tick' = tick + 1 /\ tick < MaxTick /\ UNCHANGED <<contents, creating, answered, deleted>>
    BY <1>2 DEF TickContent
  <2>2. tick' \in 1..MaxTick
    BY <2>1, DatastoreBounds DEF ContentInv, ContentTypeOK
  <2> QED BY <2>1, <2>2 DEF ContentInv, ContentTypeOK, Naming
<1> QED BY <1>1, <1>2, NameInv, StoreInv, DeletedInv DEF ContentNext

(* Whatever is created, deleted and overwritten (src/datastore.go), what   *)
(* was answered is stored under its name or was deleted under it.          *)
THEOREM ContentInvariant == ContentSpec => []ContentInv
  BY ContentInvInit, ContentStep, PTL DEF ContentSpec

(* What was answered is read back until it is deleted or overwritten by a  *)
(* call of the same tick, and a search shows what can be read.             *)
THEOREM ContentsTheorem == ContentSpec => []ContentsAreFound
<1>1. ContentInv => ContentsAreFound
  <2> SUFFICES ASSUME ContentInv PROVE ContentsAreFound
    OBVIOUS
  <2>1. \A n \in DOMAIN contents :
           /\ GetContent([name |-> n]) = contents[n] /\ contents[n] \in Content
           /\ contents[n].name = n /\ contents[n] \in answered
    BY DEF GetContent, ContentInv, ContentTypeOK
  <2>2. \A c \in answered :
          \/ GetContent([name |-> c.name]) = c
          \/ c.name \in deleted
          \/ \E d \in answered : d # c /\ d.name = c.name /\ GetContent([name |-> c.name]) = d
    BY <2>1 DEF ContentInv
  <2>3. ASSUME NEW u \in Author, NEW a \in SearchContent([user |-> u, size |-> 0])
        PROVE  /\ a \in SearchContentResponse
               /\ \A c \in a.contents : GetContent([name |-> c.name]) = c
               /\ contents # NoContents => a.contents # {}
    <3>1. PICK S \in SUBSET DOMAIN contents :
            /\ a = [contents |-> {contents[n] : n \in S}, next |-> ""]
            /\ \/ Cardinality(S) = SearchLimit
               \/ S = DOMAIN contents /\ Cardinality(S) < SearchLimit
      BY <2>3 DEF SearchContent
    <3>2. /\ a.contents = {contents[n] : n \in S}
          /\ a.next = "" /\ a = [contents |-> a.contents, next |-> a.next]
      BY <3>1
    <3>3. \A c \in a.contents : \E n \in S : c = contents[n]
      BY <3>2
    <3>4. a.contents \in SUBSET Content
      BY <2>1, <3>3
    <3>5. a \in SearchContentResponse
      BY <3>2, <3>4 DEF SearchContentResponse
    <3>6. ASSUME NEW c \in a.contents PROVE GetContent([name |-> c.name]) = c
      <4>1. PICK n \in S : c = contents[n]
        BY <3>3
      <4>2. c.name = n /\ n \in DOMAIN contents
        BY <2>1, <4>1
      <4> QED BY <4>1, <4>2 DEF GetContent
    <3>7. ASSUME a.contents = {} PROVE contents = NoContents
      <4>1. S = {}
        BY <3>2, <3>7
      <4>2. Cardinality(S) = 0 /\ SearchLimit # 0
        BY <4>1, FS_EmptySet, DatastoreBounds
      <4>3. DOMAIN contents = {}
        BY <3>1, <4>1, <4>2
      <4> QED BY <4>3 DEF ContentInv, NoContents
    <3> QED BY <3>5, <3>6, <3>7
  <2> QED BY <2>2, <2>3 DEF ContentsAreFound
<1> QED BY <1>1, ContentInvariant, PTL

-----------------------------------------------------------------------------
(* All services                                                            *)
(*                                                                         *)
(* A behaviour of the process is one of each of its services, so each      *)
(* keeps its own invariant.                                                *)

LEMMA EachAlone ==
    ServicesSpec =>
        HostingSpec /\ UgcSpec /\ CircleSpec /\ PagedSpec /\ BoardSpec /\ ContentSpec
<1>1. ServicesInit =>
          HostingInit /\ UgcInit /\ CircleInit /\ PagedInit /\ BoardInit /\ ContentInit
  BY DEF ServicesInit
<1>2. [ServicesNext]_serviceVars =>
          /\ [HostingNext]_hostingVars /\ [UgcNext]_ugcVars /\ [CircleNext]_circleVars
          /\ [PagedNext]_pagedVars /\ [BoardNext]_boardVars /\ [ContentNext]_contentVars
  BY DEF ServicesNext, serviceVars, HostingAlone, UgcAlone, CirclesAlone, ReadsAlone,
         BoardAlone, ContentsAlone
<1> QED BY <1>1, <1>2, PTL
        DEF ServicesSpec, HostingSpec, UgcSpec, CircleSpec, PagedSpec, BoardSpec, ContentSpec

LEMMA HostingTypes == HostingInv => HostingTypeOK
<1> SUFFICES ASSUME HostingInv PROVE HostingTypeOK
  OBVIOUS
<1>1. \A n \in DOMAIN hosted : hosted[n].owner \in User
  BY DEF HostingInv, HostedFits
<1>2. DOMAIN aliases \subseteq CompetitionCode
      /\ \A c \in DOMAIN aliases : aliases[c] \in Competition
  BY NameAssumption DEF HostingInv, CodesFit, CompetitionCode, Competition
<1>3. \A u \in DOMAIN official : Len(official[u]) <= MaxFields
  <2> SUFFICES ASSUME NEW u \in DOMAIN official PROVE Len(official[u]) <= MaxFields
    OBVIOUS
  <2>1. /\ IsMessage(official[u])
        /\ Len(official[u]) + (IF "activeTime" \in Numbers(official[u]) THEN 0 ELSE 1) <= MaxFields
    BY DEF HostingInv, ParticipantFits
  <2>2. Len(official[u]) \in Nat
    BY <2>1 DEF IsMessage
  <2> QED BY <2>1, <2>2, NameAssumption
<1> QED BY <1>1, <1>2, <1>3 DEF HostingInv, HostingTypeOK

LEMMA BoardTypes == BoardInv => BoardTypeOK
  BY DEF BoardInv, LinksFit, SessionsFit, BoardTypeOK

(* Every service keeps its types, no edited message grows without end, no  *)
(* competition is handed to somebody else, and no content is lost.         *)
THEOREM ServicesTheorem == ServicesSpec => []ServicesAreSound
<1>1. ContentInv => ContentTypeOK
  BY DEF ContentInv
<1> QED BY <1>1, EachAlone, HostingTypes, HostingInvariant, StoreTypesTheorem,
           CircleTypesTheorem, ReadsTypeTheorem, BoardTypes, BoardInvariant, ContentInvariant,
           ReferencesTheorem, ContentsTheorem, PTL
        DEF ServicesAreSound, ServicesTypeOK
=============================================================================
