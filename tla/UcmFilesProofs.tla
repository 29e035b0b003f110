--------------------------- MODULE UcmFilesProofs ---------------------------
(***************************************************************************)
(* What the files of the UCM service hold, for every set of clients, every *)
(* package size and any number of lost answers and restarts.  Types need   *)
(* no more than that; what the OTA manager is handed and what a transfer   *)
(* holds at TransferExit also need a disk with room for the files, since   *)
(* nobody looks at a stream that ran into a full one.                      *)
(***************************************************************************)
EXTENDS UcmTransferProofs, FiniteSetTheorems, SequenceTheorems

-----------------------------------------------------------------------------
(* Files and room *)

\* The length of a file that may be missing.
LEMMA BlocksType ==
  ASSUME NEW file \in Files
  PROVE  Blocks(file) \in Nat
BY DEF Files, Blocks

\* The files take finitely many blocks.
LEMMA BlocksFinite ==
  ASSUME NEW files \in [Ids -> Files]
  PROVE  IsFiniteSet(BlocksIn(files)) /\ Cardinality(BlocksIn(files)) \in Nat
<1> DEFINE part == [id \in Ids |-> {id} \X (1..Blocks(files[id]))]
           parts == {{id} \X (1..Blocks(files[id])) : id \in Ids}
<1>1. IsFiniteSet(Ids)
  BY UcmAssumption, FS_Interval DEF Ids
<1>2. part \in Surjection(Ids, parts)
  BY DEF Surjection
<1>3. IsFiniteSet(parts)
  BY <1>1, <1>2, FS_Surjection DEF ExistsSurjection
<1>4. ASSUME NEW id \in Ids PROVE IsFiniteSet({id} \X (1..Blocks(files[id])))
  <2>1. Blocks(files[id]) \in Nat
    <3>1. files[id] \in Files
      BY <1>4
    <3> QED BY <3>1, BlocksType
  <2>2. IsFiniteSet(1..Blocks(files[id]))
    <3>1. 1 \in Int /\ Blocks(files[id]) \in Int
      BY <2>1
    <3> QED BY <3>1, FS_Interval
  <2>3. IsFiniteSet({id})
    BY FS_Singleton
  <2> QED BY <2>2, <2>3, FS_Product
<1>5. \A T \in parts : IsFiniteSet(T)
  BY <1>4
<1>6. IsFiniteSet(UNION parts)
  BY <1>3, <1>5, FS_UNION
<1> QED BY <1>6, FS_CardinalityType DEF BlocksIn

\* What statvfs reports is a number of blocks.
LEMMA AvailableType ==
  ASSUME zip \in [Ids -> Files], img \in [Ids -> Files]
  PROVE  Available \in Nat
<1>1. Cardinality(BlocksIn(zip)) \in Nat /\ Cardinality(BlocksIn(img)) \in Nat
  BY BlocksFinite
<1> QED BY <1>1, UcmAssumption DEF Available

\* A stream keeps a prefix of what it was given, and all of it when it fits.
LEMMA FittingType ==
  ASSUME NEW blocks \in Seq(Clients \X Nat), NEW room \in Nat
  PROVE  /\ Fitting(blocks, room) \in Seq(Clients \X Nat)
         /\ Len(Fitting(blocks, room)) <= Len(blocks)
         /\ Len(blocks) <= room => Fitting(blocks, room) = blocks
<1> DEFINE n == IF Len(blocks) > room THEN room ELSE Len(blocks)
<1>1. n \in 0..Len(blocks) /\ Len(blocks) \in Nat
  OBVIOUS
<1>2. Fitting(blocks, room) = SubSeq(blocks, 1, n)
  BY DEF Fitting
<1>3. \A i \in 1..n : blocks[i] \in Clients \X Nat
  BY <1>1
<1>4. Len(blocks) <= room => n = Len(blocks)
  BY <1>1
<1> HIDE DEF n
<1>5. SubSeq(blocks, 1, n) \in Seq(Clients \X Nat) /\ Len(SubSeq(blocks, 1, n)) = n
  BY <1>1, <1>3, SubSeqProperties
<1>6. SubSeq(blocks, 1, Len(blocks)) = blocks
  BY SubSeqFull
<1>7. Len(blocks) <= room => Fitting(blocks, room) = blocks
  BY <1>2, <1>4, <1>6
<1>8. n <= Len(blocks)
  BY <1>1
<1> QED BY <1>2, <1>5, <1>7, <1>8

\* The package a client sends.
LEMMA PackageType ==
  ASSUME NEW c \in Clients
  PROVE  Package(c) \in Seq(Clients \X Nat) /\ Len(Package(c)) = Size[c] /\ Size[c] \in Nat \ {0}
<1>1. Size[c] \in Nat \ {0}
  BY UcmAssumption
<1>2. Package(c) \in [1..Size[c] -> Clients \X Nat]
  BY <1>1 DEF Package
<1> QED BY <1>1, <1>2

\* A .zip after one more block: it is created when missing, and the block is
\* either there or lost.
LEMMA AppendedType ==
  ASSUME zip \in [Ids -> Files], img \in [Ids -> Files], NEW id \in Ids,
         NEW block \in Clients \X Nat
  PROVE  /\ Appended(id, block) \in [Ids -> Files]
         /\ Blocks(Appended(id, block)[id]) <= Blocks(zip[id]) + 1
         /\ 1 <= Available =>
              Appended(id, block)[id] =
                (IF zip[id] = None THEN <<>> ELSE zip[id]) \o <<block>>
<1> DEFINE old == IF zip[id] = None THEN <<>> ELSE zip[id]
           new == Fitting(<<block>>, Available)
<1>1. Available \in Nat
  BY AvailableType
<1>2. old \in Seq(Clients \X Nat) /\ Len(old) = Blocks(zip[id])
  BY DEF Files, Blocks
<1>3. <<block>> \in Seq(Clients \X Nat) /\ Len(<<block>>) = 1
  OBVIOUS
<1>4. /\ new \in Seq(Clients \X Nat) /\ Len(new) <= 1
      /\ 1 <= Available => new = <<block>>
  BY <1>1, <1>3, FittingType
<1>5. Appended(id, block) = [zip EXCEPT ![id] = old \o new]
  BY DEF Appended
<1> HIDE DEF old, new
<1>6. old \o new \in Seq(Clients \X Nat) /\ Len(old \o new) = Len(old) + Len(new)
  BY <1>2, <1>4, ConcatProperties
<1>7. old \o new \in Files /\ Blocks(old \o new) = Len(old \o new)
  BY <1>6, UcmAssumption DEF Files, Blocks
<1>8. Appended(id, block)[id] = old \o new
  BY <1>5
<1>9. Len(old) \in Nat /\ Len(new) \in Nat
  BY <1>2, <1>4
<1>10. Blocks(Appended(id, block)[id]) <= Blocks(zip[id]) + 1
  BY <1>2, <1>4, <1>6, <1>7, <1>8, <1>9
<1> QED BY <1>4, <1>5, <1>7, <1>8, <1>10 DEF old

\* Files of at most this many blocks each leave room to fill one of them up.
LEMMA RoomLeft ==
  ASSUME NEW files \in [Ids -> Files], NEW most \in Nat, NEW id \in Ids,
         \A i \in Ids : Blocks(files[i]) <= most
  PROVE  /\ Cardinality(BlocksIn(files)) + (most - Blocks(files[id])) <= MaxStarts * most
         /\ MaxStarts * most \in Nat
<1> DEFINE b == Blocks(files[id])
           rest == {id} \X ((b + 1)..most)
           all == Ids \X (1..most)
           used == BlocksIn(files)
<1>1. b \in Nat /\ b <= most /\ MaxStarts \in Nat
  <2>1. files[id] \in Files
    OBVIOUS
  <2> QED BY <2>1, BlocksType, UcmAssumption
<1> HIDE DEF b
<1>2. IsFiniteSet(Ids) /\ Cardinality(Ids) = MaxStarts
  BY <1>1, FS_Interval DEF Ids
<1>3. IsFiniteSet(1..most) /\ Cardinality(1..most) = most
  BY FS_Interval
<1>4. IsFiniteSet((b + 1)..most) /\ Cardinality((b + 1)..most) = most - b
  <2>1. b + 1 \in Int /\ most \in Int
    BY <1>1
  <2>2. /\ IsFiniteSet((b + 1)..most)
        /\ Cardinality((b + 1)..most) = IF b + 1 > most THEN 0 ELSE most - (b + 1) + 1
    BY <2>1, FS_Interval
  <2> QED BY <1>1, <2>2
<1>5. IsFiniteSet(all) /\ Cardinality(all) = MaxStarts * most
  BY <1>2, <1>3, FS_Product
<1>6. IsFiniteSet(rest) /\ Cardinality(rest) = most - b
  <2>1. IsFiniteSet({id}) /\ Cardinality({id}) = 1
    BY FS_Singleton
  <2> DEFINE free == (b + 1)..most
  <2>2. IsFiniteSet(free) /\ Cardinality(free) = most - b
    BY <1>4
  <2> HIDE DEF free
  <2>3. /\ IsFiniteSet({id} \X free)
        /\ Cardinality({id} \X free) = Cardinality({id}) * Cardinality(free)
    BY <2>1, <2>2, FS_Product
  <2>4. Cardinality({id} \X free) = most - b
    <3>1. Cardinality({id} \X free) = 1 * (most - b)
      BY <2>1, <2>2, <2>3
    <3> QED BY <1>1, <3>1
  <2> QED BY <2>3, <2>4 DEF free
<1>7. IsFiniteSet(used) /\ Cardinality(used) \in Nat
  BY BlocksFinite
<1>8. used \subseteq all
  <2> SUFFICES ASSUME NEW i \in Ids, NEW k \in 1..Blocks(files[i])
               PROVE  <<i, k>> \in all
    BY DEF BlocksIn
  <2>1. files[i] \in Files
    OBVIOUS
  <2>2. Blocks(files[i]) \in Nat /\ Blocks(files[i]) <= most
    BY <2>1, BlocksType
  <2> QED BY <2>2
<1>9. rest \subseteq all
  BY <1>1
<1>10. used \cap rest = {}
  <2> SUFFICES ASSUME NEW i \in Ids, NEW k \in 1..Blocks(files[i]), <<i, k>> \in rest
               PROVE  FALSE
    BY DEF BlocksIn
  <2>1. i = id /\ k \in (b + 1)..most
    OBVIOUS
  <2>2. k \in 1..b
    BY <2>1 DEF b
  <2> QED BY <1>1, <2>1, <2>2
<1> HIDE DEF used, rest, all
<1>11. /\ IsFiniteSet(used \cup rest)
       /\ Cardinality(used \cup rest) =
            Cardinality(used) + Cardinality(rest) - Cardinality(used \cap rest)
  BY <1>6, <1>7, FS_Union
<1>12. Cardinality(used \cap rest) = 0
  BY <1>10, FS_EmptySet
<1>13. used \cup rest \in SUBSET all
  BY <1>8, <1>9
<1>14. Cardinality(used \cup rest) <= Cardinality(all)
  BY <1>5, <1>13, FS_Subset
<1>15. MaxStarts * most \in Nat
  BY <1>1
<1> QED BY <1>1, <1>5, <1>6, <1>7, <1>11, <1>12, <1>14, <1>15 DEF used, b

\* On a disk with room for such files, any one of them can be filled up: a
\* .zip by appending to it, a .img by writing it again.
LEMMA RoomForOne ==
  ASSUME zip \in [Ids -> Files], img \in [Ids -> Files], NEW id \in Ids,
         NEW most \in Nat, RoomFor(most),
         \A i \in Ids : Blocks(zip[i]) <= most /\ Blocks(img[i]) <= most
  PROVE  /\ Available + Blocks(zip[id]) >= most
         /\ Available + Blocks(img[id]) >= most
<1> DEFINE cz == Cardinality(BlocksIn(zip))
           ci == Cardinality(BlocksIn(img))
           total == MaxStarts * most
<1>1. total \in Nat /\ cz + (most - Blocks(zip[id])) <= total
  BY RoomLeft
<1>2. ci + (most - Blocks(img[id])) <= total
  BY RoomLeft
<1>3. cz \in Nat /\ ci \in Nat
  BY BlocksFinite
<1>4. Blocks(zip[id]) \in Nat /\ Blocks(img[id]) \in Nat
  BY BlocksType
<1>5. 2 * total <= Capacity /\ Capacity \in Nat
  BY UcmAssumption DEF RoomFor
<1>6. Blocks(zip[id]) <= most /\ Blocks(img[id]) <= most
  OBVIOUS
<1>7. Available = IF cz + ci > Capacity THEN 0 ELSE Capacity - (cz + ci)
  BY DEF Available
<1> HIDE DEF cz, ci, total
<1> QED BY <1>1, <1>2, <1>3, <1>4, <1>5, <1>6, <1>7

-----------------------------------------------------------------------------
(* Types *)

\* A session as TransferStart opens it.
LEMMA OpenedType ==
  ASSUME NEW c \in Clients
  PROVE  /\ Session(Size[c], 0) \in Sessions
         /\ Session(Size[c], 0) # None
         /\ Session(Size[c], 0).expected_bytes = Size[c]
         /\ Session(Size[c], 0).received_bytes = 0
<1>1. Size[c] \in Nat /\ 0 \in 0..Size[c]
  BY UcmAssumption
<1>2. Session(Size[c], 0) \in Sessions
  BY <1>1 DEF Sessions
<1>3. Session(Size[c], 0) # None
  BY <1>1, UcmAssumption DEF Session
<1> QED BY <1>2, <1>3 DEF Session

\* What a session is.
LEMMA SessionFields ==
  ASSUME NEW s \in Sessions
  PROVE  /\ s.expected_bytes \in Nat /\ s.received_bytes \in 0..s.expected_bytes
         /\ s.expected_block = s.received_bytes + 1
         /\ \E c \in Clients : s.expected_bytes = Size[c]
<1>1. PICK c \in Clients : \E r \in 0..Size[c] : s = Session(Size[c], r)
  BY DEF Sessions
<1>2. PICK r \in 0..Size[c] : s = Session(Size[c], r)
  BY <1>1
<1>3. Size[c] \in Nat
  BY UcmAssumption
<1> QED BY <1>2, <1>3 DEF Session

\* The session TransferData works on, in memory or loaded from its .meta.
LEMMA FoundType ==
  ASSUME TypeOK, NEW id \in Ids, Found(id) \notin {None, Torn}
  PROVE  Found(id) \in Sessions
BY DEF TypeOK, Found

\* A block that passes the checks leaves a session that counts no more blocks
\* than were announced.
LEMMA AdvancedType ==
  ASSUME TypeOK, NEW id \in Ids, NEW n, Found(id) \notin {None, Torn},
         BlockError(id, n) = "kSuccess"
  PROVE  /\ Advanced(id) \in Sessions /\ Advanced(id) # None
         /\ n = Found(id).received_bytes + 1
         /\ Advanced(id).expected_bytes = Found(id).expected_bytes
         /\ Advanced(id).received_bytes = n
         /\ n \in 1..Found(id).expected_bytes
<1> DEFINE s == Found(id)
<1>1. s \in Sessions
  BY FoundType
<1>0. PICK c \in Clients : \E r \in 0..Size[c] : s = Session(Size[c], r)
  BY <1>1 DEF Sessions
<1>2. PICK r \in 0..Size[c] : s = Session(Size[c], r)
  BY <1>0
<1>3. Size[c] \in Nat /\ r \in Nat
  BY UcmAssumption
<1>4. s.expected_bytes = Size[c] /\ s.received_bytes = r /\ s.expected_block = r + 1
  BY <1>2 DEF Session
<1>5. n = s.expected_block /\ ~(s.received_bytes + 1 > s.expected_bytes)
  BY DEF BlockError
<1>6. Advanced(id) = Session(Size[c], r + 1) /\ r + 1 \in 0..Size[c]
  BY <1>3, <1>4, <1>5 DEF Advanced
<1>7. Advanced(id) \in Sessions
  BY <1>6 DEF Sessions
<1>8. Advanced(id) # None
  BY <1>3, <1>6, UcmAssumption DEF Session
<1>9. Advanced(id).expected_bytes = Size[c] /\ Advanced(id).received_bytes = r + 1
  BY <1>6 DEF Session
<1>10. n \in 1..Size[c]
  BY <1>3, <1>4, <1>5
<1> QED BY <1>4, <1>5, <1>7, <1>8, <1>9, <1>10

\* A .meta holds a session, a torn one or nothing, whether it can be written
\* or not.
LEMMA SavedType ==
  ASSUME TypeOK, NEW id \in Ids, NEW s \in Sessions, SaveSession(id, s)
  PROVE  meta' \in [Ids -> Sessions \cup {None, Torn}]
BY DEF TypeOK, SaveSession

\* A package that passes every check of ProcessSwPackage is one that a client
\* built, and what is written of it is a file.
LEMMA CheckedPackage ==
  ASSUME TypeOK, NEW id \in Ids, PackageError(id) = "kSuccess"
  PROVE  /\ sessions[id] # None
         /\ Manifest(zip[id]) \in Clients
         /\ zip[id] = Package(Manifest(zip[id]))
         /\ zip[id] \in Seq(Clients \X Nat)
         /\ Blocks(zip[id]) = Len(zip[id])
         /\ Available + Blocks(img[id]) \in Nat
         /\ Written(id) \subseteq Files
         /\ \A image \in Written(id) : image # None => image \in Seq(Clients \X Nat)
<1>1. sessions[id] # None /\ Unpacks(zip[id]) /\ Authentic(zip[id])
  BY DEF PackageError
<1>2. Manifest(zip[id]) \in Clients /\ zip[id] = Package(Manifest(zip[id]))
  BY <1>1 DEF Unpacks, Authentic, Manifest
<1>3. zip[id] \in Seq(Clients \X Nat)
  BY <1>2, PackageType
<1>4. Blocks(zip[id]) = Len(zip[id])
  BY <1>1 DEF Unpacks, Blocks
<1>5. zip \in [Ids -> Files] /\ img \in [Ids -> Files] /\ img[id] \in Files
  BY DEF TypeOK
<1>6. Available + Blocks(img[id]) \in Nat
  BY <1>5, AvailableType, BlocksType
<1>7. Fitting(zip[id], Available + Blocks(img[id])) \in Seq(Clients \X Nat)
  BY <1>3, <1>6, FittingType
<1>8. Written(id) \subseteq {Fitting(zip[id], Available + Blocks(img[id])), img[id]}
  BY DEF Written
<1> QED BY <1>1, <1>2, <1>3, <1>4, <1>5, <1>6, <1>7, <1>8 DEF Files

\* No more ids are given out than transfers are started.
LEMMA GivenBound ==
  ASSUME NEW s \in 0..MaxStarts, NEW n \in 1..(s + 1)
  PROVE  n \in 1..(MaxStarts + 1)
BY UcmAssumption

\* The types of what a method writes.
TransferTypes ==
  /\ sessions \in [Ids -> Sessions \cup {None}]
  /\ meta \in [Ids -> Sessions \cup {None, Torn}]
  /\ zip \in [Ids -> Files]
  /\ img \in [Ids -> Files]
  /\ ota \in [id : Ids, image : Seq(Clients \X Nat), version : Clients] \cup {None}
  /\ resumed \subseteq Ids

\* They are what is left to show of a step that is no restart.
LEMMA MethodTypes ==
  ASSUME TypeOK, IdsGiven', TransferTypes', UNCHANGED <<version, restarts>>
  PROVE  TypeOK'
<1>1. /\ nextId' \in 1..(MaxStarts + 1) /\ starts' \in 0..MaxStarts
      /\ client' \in [Clients -> ClientStates]
  BY GivenBound DEF IdsGiven
<1> QED BY <1>1 DEF TypeOK, TransferTypes

\* A restart keeps the types of what it touches.
LEMMA RestartTypes ==
  ASSUME TypeOK, IdsGiven', Restart, zip' \in [Ids -> Files], img' \in [Ids -> Files],
         meta' \in [Ids -> Sessions \cup {None, Torn}]
  PROVE  TypeOK'
<1>1. /\ sessions' \in [Ids -> Sessions \cup {None}]
      /\ ota' = None /\ version' = version /\ resumed' = {}
  BY DEF Restart
<1>2. restarts' \in 0..MaxRestarts
  BY UcmAssumption DEF Restart, TypeOK
<1>3. /\ nextId' \in 1..(MaxStarts + 1) /\ starts' \in 0..MaxStarts
      /\ client' \in [Clients -> ClientStates]
  BY GivenBound DEF IdsGiven
<1>4. version' \in Clients \cup {Deployed}
  BY <1>1 DEF TypeOK
<1> QED BY <1>1, <1>2, <1>3, <1>4 DEF TypeOK

\* Every step keeps the types.
LEMMA StepTypes ==
  ASSUME TypeOK, UcmIInv, IdsGiven', [Next]_vars
  PROVE  TypeOK'
<1> USE UcmAssumption
<1>a. /\ zip \in [Ids -> Files] /\ img \in [Ids -> Files]
      /\ meta \in [Ids -> Sessions \cup {None, Torn}]
      /\ sessions \in [Ids -> Sessions \cup {None}]
      /\ ota \in [id : Ids, image : Seq(Clients \X Nat), version : Clients] \cup {None}
      /\ resumed \subseteq Ids
  BY DEF TypeOK
<1>b. <<>> \in Files /\ None \in Files
  BY DEF Files
<1>0. CASE UNCHANGED vars
  BY <1>0 DEF vars, TypeOK
<1>1. CASE RestartIdle
  BY <1>1, <1>a, RestartTypes DEF RestartIdle
<1>2. CASE OtaSettles
  <2>1. version' \in Clients \cup {Deployed}
    BY <1>2, <1>a DEF OtaSettles, TypeOK
  <2> QED BY <1>2, <2>1 DEF OtaSettles, TypeOK
<1>3. ASSUME NEW c \in Clients, TransferStart(c) PROVE TypeOK'
  <2>1. nextId \in Ids /\ UNCHANGED <<img, ota, version, restarts, resumed>>
    BY <1>3 DEF TransferStart, UcmIInv, IdsGiven, Ids
  <2>2. CASE UNCHANGED <<sessions, zip, meta>>
    BY <2>1, <2>2, <1>a, MethodTypes DEF TransferTypes
  <2>3. CASE /\ zip' = [zip EXCEPT ![nextId] = <<>>]
             /\ sessions' = [sessions EXCEPT ![nextId] = Session(Size[c], 0)]
             /\ SaveSession(nextId, Session(Size[c], 0))
    <3>1. Session(Size[c], 0) \in Sessions
      BY OpenedType
    <3>2. meta' \in [Ids -> Sessions \cup {None, Torn}]
      BY <2>1, <2>3, <3>1, SavedType
    <3>3. TransferTypes'
      BY <2>1, <2>3, <3>1, <3>2, <1>a, <1>b DEF TransferTypes
    <3> QED BY <2>1, <3>3, MethodTypes
  <2> QED BY <1>3, <2>2, <2>3 DEF TransferStart
<1>4. ASSUME NEW c \in Clients, TransferStartStopped(c) PROVE TypeOK'
  <2>1. nextId \in Ids
    BY <1>4 DEF TransferStartStopped, UcmIInv, IdsGiven, Ids
  <2>2. /\ Restart /\ zip' \in [Ids -> Files] /\ img' \in [Ids -> Files]
        /\ meta' \in [Ids -> Sessions \cup {None, Torn}]
    BY <1>4, <2>1, <1>a, <1>b DEF TransferStartStopped
  <2> QED BY <2>2, RestartTypes
<1>5. ASSUME NEW c \in Clients, TransferData(c) PROVE TypeOK'
  <2> DEFINE id == client[c].id
             n == client[c].next
  <2>1. id \in Ids /\ n \in Nat /\ UNCHANGED <<img, ota, version, restarts>>
    BY <1>5 DEF TransferData, UcmIInv, IdsGiven, HoldsId, At, ClientStates
  <2>2. CASE UNCHANGED <<sessions, zip, meta, resumed>>
    BY <2>1, <2>2, <1>a, MethodTypes DEF TransferTypes
  <2>3. CASE /\ Found(id) \notin {None, Torn}
             /\ LoadSession(id) /\ UNCHANGED <<zip, meta>>
    <3>1. Found(id) \in Sessions
      BY <2>1, <2>3, FoundType
    <3>2. TransferTypes'
      BY <2>1, <2>3, <3>1, <1>a DEF TransferTypes, LoadSession, Resume
    <3> QED BY <2>1, <3>2, MethodTypes
  <2>4. CASE /\ Found(id) \notin {None, Torn} /\ BlockError(id, n) = "kSuccess"
             /\ zip' = Appended(id, <<c, n>>)
             /\ sessions' = [sessions EXCEPT ![id] = Advanced(id)]
             /\ Resume(id)
             /\ SaveSession(id, Advanced(id))
    <3>1. Advanced(id) \in Sessions
      BY <2>1, <2>4, AdvancedType
    <3>2. meta' \in [Ids -> Sessions \cup {None, Torn}]
      BY <2>1, <2>4, <3>1, SavedType
    <3>3. zip' \in [Ids -> Files]
      BY <2>1, <2>4, <1>a, AppendedType
    <3>4. TransferTypes'
      BY <2>1, <2>4, <3>1, <3>2, <3>3, <1>a DEF TransferTypes, Resume
    <3> QED BY <2>1, <3>4, MethodTypes
  <2> QED BY <1>5, <2>2, <2>3, <2>4 DEF TransferData
<1>6. ASSUME NEW c \in Clients, TransferDataStopped(c) PROVE TypeOK'
  <2> DEFINE id == client[c].id
             n == client[c].next
  <2>1. id \in Ids /\ n \in Nat
    BY <1>6 DEF TransferDataStopped, UcmIInv, IdsGiven, HoldsId, At, ClientStates
  <2>2. zip' \in [Ids -> Files]
    BY <1>6, <2>1, <1>a, AppendedType DEF TransferDataStopped
  <2>3. Restart /\ img' \in [Ids -> Files] /\ meta' \in [Ids -> Sessions \cup {None, Torn}]
    BY <1>6, <2>1, <1>a DEF TransferDataStopped
  <2> QED BY <2>2, <2>3, RestartTypes
<1>7. ASSUME NEW c \in Clients, TransferExit(c) PROVE TypeOK'
  BY <1>7, <1>a, MethodTypes DEF TransferExit, TransferTypes
<1>8. ASSUME NEW c \in Clients, DeleteTransfer(c) PROVE TypeOK'
  <2>1. client[c].id \in Ids /\ UNCHANGED <<img, ota, version, restarts, resumed>>
    BY <1>8 DEF DeleteTransfer, UcmIInv, IdsGiven, HoldsId
  <2>2. TransferTypes'
    BY <1>8, <2>1, <1>a, <1>b DEF DeleteTransfer, RemoveSessionFiles, TransferTypes
  <2> QED BY <2>1, <2>2, MethodTypes
<1>9. ASSUME NEW c \in Clients, DeleteTransferStopped(c) PROVE TypeOK'
  <2>1. /\ Restart /\ zip' \in [Ids -> Files] /\ img' \in [Ids -> Files]
        /\ meta' \in [Ids -> Sessions \cup {None, Torn}]
    BY <1>9, <1>a, <1>b DEF DeleteTransferStopped
  <2> QED BY <2>1, RestartTypes
<1>10. ASSUME NEW c \in Clients, ProcessSwPackage(c) PROVE TypeOK'
  <2> DEFINE id == client[c].id
  <2>1. id \in Ids /\ UNCHANGED <<version, restarts, resumed>>
    BY <1>10 DEF ProcessSwPackage, UcmIInv, IdsGiven, HoldsId, At
  <2>2. CASE UNCHANGED <<sessions, zip, meta, img, ota>>
    BY <2>1, <2>2, <1>a, MethodTypes DEF TransferTypes
  <2>3. CASE /\ PackageError(id) = "kSuccess"
             /\ \E image \in Written(id) : img' = [img EXCEPT ![id] = image]
             /\ UNCHANGED <<sessions, zip, meta, ota>>
    <3>1. Written(id) \subseteq Files
      BY <2>1, <2>3, CheckedPackage
    <3>2. TransferTypes'
      BY <2>1, <2>3, <3>1, <1>a DEF TransferTypes
    <3> QED BY <2>1, <3>2, MethodTypes
  <2>4. CASE /\ PackageError(id) = "kSuccess"
             /\ \E image \in Written(id) \ {None} :
                  /\ img' = [img EXCEPT ![id] = image]
                  /\ ota' = [id |-> id, image |-> image, version |-> Manifest(zip[id])]
             /\ sessions' = [sessions EXCEPT ![id] = None]
             /\ RemoveSessionFiles(id)
    <3>1. PICK image \in Written(id) \ {None} :
            /\ img' = [img EXCEPT ![id] = image]
            /\ ota' = [id |-> id, image |-> image, version |-> Manifest(zip[id])]
      BY <2>4
    <3>2. image \in Seq(Clients \X Nat) /\ Manifest(zip[id]) \in Clients
      BY <2>1, <2>4, <3>1, CheckedPackage
    <3>3. image \in Files
      BY <3>2 DEF Files
    <3>4. /\ img' \in [Ids -> Files]
          /\ ota' \in [id : Ids, image : Seq(Clients \X Nat), version : Clients]
      BY <2>1, <3>1, <3>2, <3>3, <1>a
    <3>5. TransferTypes'
      BY <2>1, <2>4, <3>4, <1>a, <1>b DEF TransferTypes, RemoveSessionFiles
    <3> QED BY <2>1, <3>5, MethodTypes
  <2> QED BY <1>10, <2>2, <2>3, <2>4 DEF ProcessSwPackage
<1>11. ASSUME NEW c \in Clients, ProcessStopped(c) PROVE TypeOK'
  <2> DEFINE id == client[c].id
  <2>1. id \in Ids /\ PackageError(id) = "kSuccess" /\ Restart /\ UNCHANGED meta
    BY <1>11 DEF ProcessStopped, UcmIInv, IdsGiven, HoldsId, At
  <2>2. PICK image \in Written(id) \ {None} :
          \/ /\ \E n \in 0..Len(image) : img' = [img EXCEPT ![id] = SubSeq(image, 1, n)]
             /\ UNCHANGED zip
          \/ /\ img' = [img EXCEPT ![id] = image]
             /\ zip' = [zip EXCEPT ![id] = None]
    BY <1>11 DEF ProcessStopped
  <2>3. image \in Seq(Clients \X Nat)
    BY <2>1, <2>2, CheckedPackage
  <2>4. \A n \in 0..Len(image) : SubSeq(image, 1, n) \in Seq(Clients \X Nat)
    <3> SUFFICES ASSUME NEW n \in 0..Len(image)
                 PROVE  SubSeq(image, 1, n) \in Seq(Clients \X Nat)
      OBVIOUS
    <3>1. n \in Int /\ \A i \in 1..n : image[i] \in Clients \X Nat
      BY <2>3
    <3> QED BY <3>1, SubSeqProperties
  <2>5. PICK file : img' = [img EXCEPT ![id] = file] /\ file \in Files
    BY <2>2, <2>3, <2>4 DEF Files
  <2>6. zip' \in [Ids -> Files]
    BY <2>2, <1>a, <1>b
  <2>7. img' \in [Ids -> Files]
    BY <2>5, <1>a
  <2> QED BY <2>1, <2>6, <2>7, <1>a, RestartTypes
<1>12. ASSUME NEW c \in Clients, RunAgain(c) PROVE TypeOK'
  BY <1>12, <1>a, MethodTypes DEF RunAgain, TransferTypes
<1> QED
  BY <1>0, <1>1, <1>2, <1>3, <1>4, <1>5, <1>6, <1>7, <1>8, <1>9, <1>10, <1>11, <1>12
  DEF Next, Service

\* Every variable of the service keeps its type through lost answers, restarts
\* and a full disk; in particular no session, in memory or in a .meta that is
\* read back, counts more blocks than its TransferStart announced, and every
\* image the OTA manager is given is a file with the version of a client.
THEOREM UcmTypeCorrect == Spec => []TypeOK
<1>1. Init => TypeOK
  BY UcmAssumption DEF Init, TypeOK, Idle, ClientStates, Files
<1>2. TypeOK /\ UcmIInv /\ UcmIInv' /\ [Next]_vars => TypeOK'
  BY StepTypes DEF UcmIInv
<1> QED BY <1>1, <1>2, UcmInvariant, PTL DEF Spec

-----------------------------------------------------------------------------
(* The disk never runs full under an open transfer *)

\* A file that is new has no blocks.
LEMMA NoBlocks == Blocks(<<>>) = 0 /\ Blocks(None) = 0
<1>1. <<>> \in Seq(Clients \X Nat) /\ Len(<<>>) = 0
  OBVIOUS
<1> QED BY <1>1, UcmAssumption DEF Blocks

\* What is admitted fits the disk.
LEMMA AdmittedFits ==
  ASSUME TypeOK, "statvfs" \notin Faults, NEW c \in Clients, Admitted(c),
         NEW b \in 0..Capacity, RoomFor(b)
  PROVE  Size[c] + MaxRestarts <= b
<1>1. Size[c] <= Available /\ Size[c] \in Nat
  BY UcmAssumption DEF Admitted
<1>2. Available \in Nat
  BY AvailableType DEF TypeOK
<1>3. Available <= Capacity
  <2>1. Cardinality(BlocksIn(zip)) \in Nat /\ Cardinality(BlocksIn(img)) \in Nat
    BY BlocksFinite DEF TypeOK
  <2> QED BY <2>1, UcmAssumption DEF Available
<1>4. Size[c] <= Capacity
  BY <1>1, <1>2, <1>3, UcmAssumption
<1> QED BY <1>4 DEF RoomFor

\* The .img is no longer than the package it is written from, or than it was.
LEMMA WrittenFits ==
  ASSUME TypeOK, NEW id \in Ids, PackageError(id) = "kSuccess", NEW b \in Nat,
         Blocks(zip[id]) <= b, Blocks(img[id]) <= b,
         NEW image \in Written(id)
  PROVE  /\ Blocks(image) <= b
         /\ image # None => \A n \in 0..Len(image) : Blocks(SubSeq(image, 1, n)) <= b
<1> DEFINE room == Available + Blocks(img[id])
<1>1. /\ zip[id] \in Seq(Clients \X Nat) /\ Blocks(zip[id]) = Len(zip[id])
      /\ room \in Nat
      /\ image # None => image \in Seq(Clients \X Nat)
  BY CheckedPackage
<1>2. /\ Fitting(zip[id], room) \in Seq(Clients \X Nat)
      /\ Len(Fitting(zip[id], room)) <= Len(zip[id])
  BY <1>1, FittingType
<1>3. image = Fitting(zip[id], room) \/ image = img[id]
  BY DEF Written
<1> HIDE DEF room
<1>4. Blocks(image) <= b
  <2>1. CASE image = Fitting(zip[id], room)
    <3>1. Blocks(image) = Len(image)
      BY <1>2, <2>1, UcmAssumption DEF Blocks
    <3>2. Len(image) \in Nat /\ Len(zip[id]) \in Nat /\ Len(image) <= Len(zip[id])
      BY <1>1, <1>2, <2>1
    <3> QED BY <1>1, <3>1, <3>2
  <2>2. CASE image = img[id]
    BY <2>2
  <2> QED BY <1>3, <2>1, <2>2
<1>5. ASSUME image # None, NEW n \in 0..Len(image)
      PROVE  Blocks(SubSeq(image, 1, n)) <= b
  <2>1. image \in Seq(Clients \X Nat) /\ Blocks(image) = Len(image) /\ Len(image) \in Nat
    BY <1>1, <1>5 DEF Blocks
  <2>2. n \in Nat /\ n <= b /\ \A i \in 1..n : image[i] \in Clients \X Nat
    BY <1>4, <2>1
  <2>3. SubSeq(image, 1, n) \in Seq(Clients \X Nat) /\ Len(SubSeq(image, 1, n)) = n
    BY <2>2, SubSeqProperties
  <2> QED BY <2>2, <2>3, UcmAssumption DEF Blocks
<1> QED BY <1>4, <1>5

\* Nothing changes for a transfer that a method does not touch.
LEMMA OtherFits ==
  ASSUME NEW id \in Ids, NEW b \in Nat, FilesWithin(id, b),
         zip'[id] = zip[id], img'[id] = img[id], sessions'[id] = sessions[id],
         meta'[id] = meta[id], restarts' = restarts
  PROVE  FilesWithin(id, b)'
BY DEF FilesWithin, Found

\* After a restart a transfer goes on from its .meta; the method that was
\* stopped has appended one block to its .zip, at the most.
LEMMA RestartFits ==
  ASSUME TypeOK, NEW id \in Ids, NEW b \in Nat, FilesWithin(id, b), Restart,
         Found(id) = meta[id], zip'[id] \in Files,
         Blocks(zip'[id]) <= b, Blocks(img'[id]) <= b,
         \/ meta'[id] = Torn
         \/ meta'[id] = meta[id] /\ Blocks(zip'[id]) <= Blocks(zip[id]) + 1
  PROVE  FilesWithin(id, b)'
<1>1. sessions'[id] = None /\ restarts' = restarts + 1 /\ restarts \in Nat
  BY DEF Restart, TypeOK
<1>2. Found(id)' = meta'[id]
  BY <1>1 DEF Found
<1>3. CASE meta'[id] = Torn
  BY <1>2, <1>3 DEF FilesWithin
<1>4. CASE meta'[id] = meta[id] /\ meta[id] \in {None, Torn}
  BY <1>2, <1>4 DEF FilesWithin
<1>5. CASE /\ meta'[id] = meta[id] /\ meta[id] \notin {None, Torn}
           /\ Blocks(zip'[id]) <= Blocks(zip[id]) + 1
  <2>1. meta[id].received_bytes \in Nat
    BY <1>5, SessionFields DEF TypeOK
  <2>2. Blocks(zip[id]) \in Nat /\ Blocks(zip'[id]) \in Nat
    BY BlocksType DEF TypeOK
  <2>3. /\ meta[id].expected_bytes + MaxRestarts <= b
        /\ Blocks(zip[id]) <= meta[id].received_bytes + restarts
    BY <1>5 DEF FilesWithin
  <2>4. Blocks(zip'[id]) <= meta[id].received_bytes + restarts'
    BY <1>1, <1>5, <2>1, <2>2, <2>3
  <2> QED BY <1>2, <1>5, <2>3, <2>4 DEF FilesWithin
<1> QED BY <1>3, <1>4, <1>5

\* What is read from the disk after a restart is what the memory held.
LEMMA RestartReads ==
  ASSUME TypeOK, DiskFollowsMemory, Restart, MetaCurrent', NEW id \in Ids
  PROVE  Found(id) = meta[id]
<1>1. restarts' # 0
  BY DEF Restart, TypeOK
<1>2. "meta" \notin Faults
  BY <1>1 DEF MetaCurrent
<1> QED BY <1>2 DEF DiskFollowsMemory, Found

\* The files stay within a bound the disk has room for.
LEMMA StepFits ==
  ASSUME TypeOK, TypeOK', UcmIInv, [Next]_vars, "statvfs" \notin Faults, MetaCurrent',
         NEW b \in 0..Capacity, RoomFor(b), \A id \in Ids : FilesWithin(id, b)
  PROVE  \A id \in Ids : FilesWithin(id, b)'
<1> USE UcmAssumption
<1>a. /\ zip \in [Ids -> Files] /\ img \in [Ids -> Files]
      /\ zip' \in [Ids -> Files] /\ img' \in [Ids -> Files]
      /\ meta \in [Ids -> Sessions \cup {None, Torn}]
      /\ sessions \in [Ids -> Sessions \cup {None}]
      /\ restarts \in Nat /\ MaxRestarts \in Nat /\ restarts <= MaxRestarts /\ b \in Nat
  BY DEF TypeOK
<1>b. \A id \in Ids : /\ Blocks(zip[id]) \in Nat /\ Blocks(img[id]) \in Nat
                      /\ Blocks(zip[id]) <= b /\ Blocks(img[id]) <= b
  BY <1>a, BlocksType DEF FilesWithin
<1>c. Restart => \A id \in Ids : Found(id) = meta[id]
  BY RestartReads DEF UcmIInv
<1>d. 0 <= b
  BY <1>a
<1> SUFFICES ASSUME NEW i \in Ids PROVE FilesWithin(i, b)'
  OBVIOUS
<1>0. CASE UNCHANGED vars
  BY <1>0, <1>a, OtherFits DEF vars
<1>1. CASE RestartIdle
  <2>1. UNCHANGED <<zip, meta, img>> /\ Restart
    BY <1>1 DEF RestartIdle
  <2>2. Blocks(zip'[i]) <= Blocks(zip[i]) + 1
    BY <1>b, <2>1
  <2>3. zip'[i] \in Files /\ Blocks(zip'[i]) <= b /\ Blocks(img'[i]) <= b
    BY <1>a, <1>b, <2>1
  <2> QED BY <1>a, <1>c, <2>1, <2>2, <2>3, RestartFits
<1>2. CASE OtaSettles
  BY <1>2, <1>a, OtherFits DEF OtaSettles
<1>3. ASSUME NEW c \in Clients, TransferStart(c) PROVE FilesWithin(i, b)'
  <2>1. nextId \in Ids /\ UNCHANGED <<img, restarts>>
    BY <1>3 DEF TransferStart, UcmIInv, IdsGiven, Ids
  <2>2. CASE UNCHANGED <<sessions, zip, meta>>
    BY <2>1, <2>2, <1>a, OtherFits
  <2>3. CASE /\ Admitted(c)
             /\ zip' = [zip EXCEPT ![nextId] = <<>>]
             /\ sessions' = [sessions EXCEPT ![nextId] = Session(Size[c], 0)]
             /\ SaveSession(nextId, Session(Size[c], 0))
    <3>1. CASE i # nextId
      <4>1. zip'[i] = zip[i] /\ sessions'[i] = sessions[i] /\ meta'[i] = meta[i]
        BY <1>a, <2>1, <2>3, <3>1 DEF SaveSession
      <4> QED BY <1>a, <2>1, <4>1, OtherFits
    <3>2. CASE i = nextId
      <4>1. zip'[i] = <<>> /\ sessions'[i] = Session(Size[c], 0)
        BY <1>a, <2>1, <2>3, <3>2
      <4>2. Found(i)' = Session(Size[c], 0)
        BY <4>1, OpenedType DEF Found
      <4>3. Size[c] + MaxRestarts <= b
        BY <2>3, AdmittedFits
      <4>4. Blocks(zip'[i]) = 0 /\ Blocks(img'[i]) <= b
        BY <1>b, <2>1, <4>1, NoBlocks
      <4>5. /\ Found(i)'.expected_bytes + MaxRestarts <= b
            /\ Blocks(zip'[i]) <= Found(i)'.received_bytes + restarts'
        BY <1>a, <2>1, <4>2, <4>3, <4>4, OpenedType
      <4> QED BY <1>d, <4>4, <4>5 DEF FilesWithin
    <3> QED BY <3>1, <3>2
  <2> QED BY <1>3, <2>2, <2>3 DEF TransferStart
<1>4. ASSUME NEW c \in Clients, TransferStartStopped(c) PROVE FilesWithin(i, b)'
  <2>1. nextId \in Ids
    BY <1>4 DEF TransferStartStopped, UcmIInv, IdsGiven, Ids
  <2>2. /\ Restart /\ UNCHANGED img
        /\ zip'[i] = IF i = nextId THEN <<>> ELSE zip[i]
        /\ meta'[i] \in {meta[i], Torn}
    BY <1>4, <1>a, <2>1 DEF TransferStartStopped
  <2>3. Blocks(zip'[i]) <= b /\ Blocks(img'[i]) <= b /\ Blocks(zip'[i]) <= Blocks(zip[i]) + 1
    BY <1>b, <1>d, <2>2, NoBlocks
  <2> QED BY <1>a, <1>c, <2>2, <2>3, RestartFits
<1>5. ASSUME NEW c \in Clients, TransferData(c) PROVE FilesWithin(i, b)'
  <2> DEFINE id == client[c].id
             n == client[c].next
  <2>1. id \in Ids /\ n \in Nat /\ UNCHANGED <<img, restarts>>
    BY <1>5 DEF TransferData, UcmIInv, IdsGiven, HoldsId, At, ClientStates
  <2>2. CASE UNCHANGED <<sessions, zip, meta>>
    BY <2>1, <2>2, <1>a, OtherFits
  <2>3. CASE /\ Found(id) \notin {None, Torn}
             /\ LoadSession(id) /\ UNCHANGED <<zip, meta>>
    <3>1. Found(i)' = Found(i)
      BY <1>a, <2>1, <2>3 DEF LoadSession, Found
    <3> QED BY <2>1, <2>3, <3>1 DEF FilesWithin
  <2>4. CASE /\ Found(id) \notin {None, Torn} /\ BlockError(id, n) = "kSuccess"
             /\ zip' = Appended(id, <<c, n>>)
             /\ sessions' = [sessions EXCEPT ![id] = Advanced(id)]
             /\ SaveSession(id, Advanced(id))
    <3>0. <<c, n>> \in Clients \X Nat
      BY <2>1
    <3>1. CASE i # id
      <4>1. zip'[i] = zip[i]
        BY <1>a, <2>1, <2>4, <3>1 DEF Appended
      <4>2. sessions'[i] = sessions[i] /\ meta'[i] = meta[i]
        BY <1>a, <2>1, <2>4, <3>1 DEF SaveSession
      <4> QED BY <1>a, <2>1, <4>1, <4>2, OtherFits
    <3>2. CASE i = id
      <4>1. Blocks(zip'[i]) <= Blocks(zip[i]) + 1 /\ Blocks(zip'[i]) \in Nat
        <5>1. Blocks(zip'[i]) <= Blocks(zip[i]) + 1
          BY <1>a, <2>1, <2>4, <3>0, <3>2, AppendedType
        <5>2. zip'[i] \in Files
          BY <1>a
        <5> QED BY <5>1, <5>2, BlocksType
      <4>2. /\ Advanced(i) # None /\ n = Found(i).received_bytes + 1
            /\ Advanced(i).expected_bytes = Found(i).expected_bytes
            /\ Advanced(i).received_bytes = n
            /\ n \in 1..Found(i).expected_bytes
        BY <2>1, <2>4, <3>2, AdvancedType
      <4>3. Found(i)' = Advanced(i)
        <5>1. sessions'[i] = Advanced(i)
          BY <1>a, <2>1, <2>4, <3>2
        <5> QED BY <4>2, <5>1 DEF Found
      <4>4. Found(i).expected_bytes \in Nat /\ Found(i).received_bytes \in Nat
        BY <2>4, <3>2, FoundType, SessionFields
      <4>5. /\ Found(i).expected_bytes + MaxRestarts <= b
            /\ Blocks(zip[i]) <= Found(i).received_bytes + restarts
        BY <2>4, <3>2 DEF FilesWithin
      <4>6. Blocks(zip'[i]) <= n + restarts /\ n <= Found(i).expected_bytes /\ n \in Nat
        BY <1>a, <1>b, <2>1, <4>1, <4>2, <4>4, <4>5
      <4>7. Blocks(zip'[i]) <= b
        BY <1>a, <4>1, <4>4, <4>5, <4>6
      <4>8. /\ Found(i)'.expected_bytes + MaxRestarts <= b
            /\ Blocks(zip'[i]) <= Found(i)'.received_bytes + restarts'
        BY <2>1, <4>2, <4>3, <4>5, <4>6
      <4> QED BY <1>b, <2>1, <4>7, <4>8 DEF FilesWithin
    <3> QED BY <3>1, <3>2
  <2> QED BY <1>5, <2>2, <2>3, <2>4 DEF TransferData
<1>6. ASSUME NEW c \in Clients, TransferDataStopped(c) PROVE FilesWithin(i, b)'
  <2> DEFINE id == client[c].id
             n == client[c].next
  <2>1. id \in Ids /\ n \in Nat /\ <<c, n>> \in Clients \X Nat
    BY <1>6 DEF TransferDataStopped, UcmIInv, IdsGiven, HoldsId, At, ClientStates
  <2>2. /\ Restart /\ UNCHANGED img /\ zip' = Appended(id, <<c, n>>)
        /\ Found(id) \notin {None, Torn} /\ BlockError(id, n) = "kSuccess"
        /\ meta'[i] \in {meta[i], Torn}
    BY <1>6, <1>a, <2>1 DEF TransferDataStopped
  <2>3. Blocks(zip'[i]) <= Blocks(zip[i]) + 1
    <3>1. CASE i = id
      BY <1>a, <2>1, <2>2, <3>1, AppendedType
    <3>2. CASE i # id
      <4>1. zip'[i] = zip[i]
        BY <1>a, <2>1, <2>2, <3>2 DEF Appended
      <4> QED BY <1>b, <4>1
    <3> QED BY <3>1, <3>2
  <2>4. Blocks(zip'[i]) <= b
    <3>1. CASE i = id
      <4>1. Found(i).expected_bytes \in Nat /\ Found(i).received_bytes \in Nat
        BY <2>2, <3>1, FoundType, SessionFields
      <4>2. Found(i).received_bytes + 1 <= Found(i).expected_bytes
        BY <2>1, <2>2, <3>1, <4>1, AdvancedType
      <4>3. /\ Found(i).expected_bytes + MaxRestarts <= b
            /\ Blocks(zip[i]) <= Found(i).received_bytes + restarts
        BY <2>2, <3>1 DEF FilesWithin
      <4>4. zip'[i] \in Files
        BY <1>a
      <4>5. Blocks(zip'[i]) \in Nat
        BY <4>4, BlocksType
      <4> QED BY <1>a, <1>b, <2>3, <4>1, <4>2, <4>3, <4>5
    <3>2. CASE i # id
      <4>1. zip'[i] = zip[i]
        BY <1>a, <2>1, <2>2, <3>2 DEF Appended
      <4> QED BY <1>b, <4>1
    <3> QED BY <3>1, <3>2
  <2>5. Blocks(img'[i]) <= b
    BY <1>b, <2>2
  <2> QED BY <1>a, <1>c, <2>2, <2>3, <2>4, <2>5, RestartFits
<1>7. ASSUME NEW c \in Clients, TransferExit(c) PROVE FilesWithin(i, b)'
  BY <1>7, <1>a, OtherFits DEF TransferExit
<1>8. ASSUME NEW c \in Clients, DeleteTransfer(c) PROVE FilesWithin(i, b)'
  <2> DEFINE id == client[c].id
  <2>1. id \in Ids /\ UNCHANGED <<img, restarts>>
    BY <1>8 DEF DeleteTransfer, UcmIInv, IdsGiven, HoldsId
  <2>2. CASE zip'[i] = zip[i] /\ sessions'[i] = sessions[i] /\ meta'[i] = meta[i]
    BY <1>a, <2>1, <2>2, OtherFits
  <2>3. CASE zip'[i] = None /\ sessions'[i] = None /\ meta'[i] = None
    BY <1>b, <1>d, <2>1, <2>3, NoBlocks DEF FilesWithin, Found
  <2> QED BY <1>8, <1>a, <2>1, <2>2, <2>3 DEF DeleteTransfer, RemoveSessionFiles
<1>9. ASSUME NEW c \in Clients, DeleteTransferStopped(c) PROVE FilesWithin(i, b)'
  <2>1. /\ Restart /\ UNCHANGED <<meta, img>>
        /\ zip'[i] \in {zip[i], None}
    BY <1>9, <1>a DEF DeleteTransferStopped
  <2>2. Blocks(zip'[i]) <= b /\ Blocks(img'[i]) <= b /\ Blocks(zip'[i]) <= Blocks(zip[i]) + 1
    BY <1>b, <1>d, <2>1, NoBlocks
  <2> QED BY <1>a, <1>c, <2>1, <2>2, RestartFits
<1>10. ASSUME NEW c \in Clients, ProcessSwPackage(c) PROVE FilesWithin(i, b)'
  <2> DEFINE id == client[c].id
  <2>1. id \in Ids /\ UNCHANGED restarts
    BY <1>10 DEF ProcessSwPackage, UcmIInv, IdsGiven, HoldsId, At
  <2>2. CASE UNCHANGED <<sessions, zip, meta, img>>
    BY <1>a, <2>1, <2>2, OtherFits
  <2>3. CASE /\ PackageError(id) = "kSuccess"
             /\ \E image \in Written(id) : img' = [img EXCEPT ![id] = image]
             /\ \/ UNCHANGED <<sessions, zip, meta>>
                \/ /\ sessions' = [sessions EXCEPT ![id] = None]
                   /\ RemoveSessionFiles(id)
    <3>1. PICK image \in Written(id) : img' = [img EXCEPT ![id] = image]
      BY <2>3
    <3>2. Blocks(image) <= b
      BY <1>a, <1>b, <2>1, <2>3, WrittenFits
    <3>3. Blocks(img'[i]) <= b
      BY <1>a, <1>b, <2>1, <3>1, <3>2
    <3>4. CASE zip'[i] = zip[i] /\ sessions'[i] = sessions[i] /\ meta'[i] = meta[i]
      BY <2>1, <3>3, <3>4 DEF FilesWithin, Found
    <3>5. CASE zip'[i] = None /\ sessions'[i] = None /\ meta'[i] = None
      BY <1>d, <3>3, <3>5, NoBlocks DEF FilesWithin, Found
    <3> QED BY <1>a, <2>1, <2>3, <3>4, <3>5 DEF RemoveSessionFiles
  <2> QED BY <1>10, <2>2, <2>3 DEF ProcessSwPackage
<1>11. ASSUME NEW c \in Clients, ProcessStopped(c) PROVE FilesWithin(i, b)'
  <2> DEFINE id == client[c].id
  <2>1. id \in Ids /\ PackageError(id) = "kSuccess" /\ Restart /\ UNCHANGED meta
    BY <1>11 DEF ProcessStopped, UcmIInv, IdsGiven, HoldsId, At
  <2>2. PICK image \in Written(id) \ {None} :
          \/ /\ \E n \in 0..Len(image) : img' = [img EXCEPT ![id] = SubSeq(image, 1, n)]
             /\ UNCHANGED zip
          \/ /\ img' = [img EXCEPT ![id] = image]
             /\ zip' = [zip EXCEPT ![id] = None]
    BY <1>11 DEF ProcessStopped
  <2>3. /\ Blocks(image) <= b
        /\ \A n \in 0..Len(image) : Blocks(SubSeq(image, 1, n)) <= b
    BY <1>a, <1>b, <2>1, <2>2, WrittenFits
  <2>4. PICK file : img' = [img EXCEPT ![id] = file] /\ Blocks(file) <= b
    BY <2>2, <2>3
  <2>5. Blocks(img'[i]) <= b
    BY <1>a, <1>b, <2>4
  <2>6. zip'[i] \in {zip[i], None}
    BY <1>a, <2>2
  <2>7. Blocks(zip'[i]) <= b /\ Blocks(zip'[i]) <= Blocks(zip[i]) + 1
    BY <1>b, <1>d, <2>6, NoBlocks
  <2> QED BY <1>a, <1>c, <2>1, <2>5, <2>7, RestartFits
<1>12. ASSUME NEW c \in Clients, RunAgain(c) PROVE FilesWithin(i, b)'
  BY <1>12, <1>a, OtherFits DEF RunAgain
<1> QED
  BY <1>0, <1>1, <1>2, <1>3, <1>4, <1>5, <1>6, <1>7, <1>8, <1>9, <1>10, <1>11, <1>12
  DEF Next, Service

\* The bound holds from one state to the next.
LEMMA StepDiskFits ==
  ASSUME TypeOK, TypeOK', UcmIInv, DiskFits, [Next]_vars
  PROVE  DiskFits'
<1> SUFFICES ASSUME "statvfs" \notin Faults, MetaCurrent',
                    NEW b \in 0..Capacity, RoomFor(b)
             PROVE  \A id \in Ids : FilesWithin(id, b)'
  BY DEF DiskFits
<1>1. restarts' = restarts \/ restarts' = restarts + 1
  BY DEF Next, vars, Service, RestartIdle, OtaSettles, RunAgain, TransferStart,
     TransferStartStopped, TransferData, TransferDataStopped, TransferExit, DeleteTransfer,
     DeleteTransferStopped, ProcessSwPackage, ProcessStopped, Restart
<1>2. restarts \in Nat
  BY DEF TypeOK
<1>3. MetaCurrent
  BY <1>1, <1>2 DEF MetaCurrent
<1>4. \A id \in Ids : FilesWithin(id, b)
  BY <1>3 DEF DiskFits
<1> QED BY <1>4, StepFits

\* A step after which there still was no restart is no restart.
LEMMA NoRestart ==
  ASSUME TypeOK, restarts' = 0, Restart
  PROVE  FALSE
BY DEF TypeOK, Restart

\* No .meta is left without its session.
LEMMA StepNothingLoaded ==
  ASSUME TypeOK, UcmIInv, NothingLoaded, [Next]_vars
  PROVE  NothingLoaded'
<1> SUFFICES ASSUME restarts' = 0
             PROVE  resumed' = {} /\ \A i \in Ids : sessions'[i] = None => meta'[i] = None
  BY DEF NothingLoaded
<1> USE NoRestart
<1>a. /\ meta \in [Ids -> Sessions \cup {None, Torn}]
      /\ sessions \in [Ids -> Sessions \cup {None}]
  BY DEF TypeOK
<1>b. restarts = 0 => /\ resumed = {}
                      /\ \A i \in Ids : sessions[i] = None => meta[i] = None
  BY DEF NothingLoaded
<1>0. CASE UNCHANGED <<sessions, meta, resumed, restarts>>
  BY <1>0, <1>b
<1>1. ASSUME NEW c \in Clients, TransferStart(c)
      PROVE  resumed' = {} /\ \A i \in Ids : sessions'[i] = None => meta'[i] = None
  <2>1. nextId \in Ids /\ UNCHANGED <<restarts, resumed>>
    BY <1>1, UcmAssumption DEF TransferStart, UcmIInv, IdsGiven, Ids
  <2>2. CASE UNCHANGED <<sessions, meta>>
    BY <1>b, <2>1, <2>2
  <2>3. CASE /\ sessions' = [sessions EXCEPT ![nextId] = Session(Size[c], 0)]
             /\ SaveSession(nextId, Session(Size[c], 0))
    BY <1>a, <1>b, <2>1, <2>3, OpenedType DEF SaveSession
  <2> QED BY <1>1, <2>2, <2>3 DEF TransferStart
<1>2. ASSUME NEW c \in Clients, TransferData(c)
      PROVE  resumed' = {} /\ \A i \in Ids : sessions'[i] = None => meta'[i] = None
  <2> DEFINE id == client[c].id
             n == client[c].next
  <2>1. id \in Ids /\ UNCHANGED restarts
    BY <1>2 DEF TransferData, UcmIInv, IdsGiven, HoldsId, At
  <2>2. Found(id) \notin {None, Torn} => sessions[id] # None
    BY <1>b, <2>1 DEF Found
  <2>3. CASE UNCHANGED <<sessions, meta, resumed>>
    BY <1>b, <2>1, <2>3
  <2>4. CASE Found(id) \notin {None, Torn} /\ LoadSession(id) /\ UNCHANGED meta
    <3>1. UNCHANGED <<sessions, resumed>>
      BY <1>a, <2>1, <2>2, <2>4 DEF LoadSession, Resume, Found
    <3> QED BY <1>b, <2>1, <2>4, <3>1
  <2>5. CASE /\ Found(id) \notin {None, Torn} /\ BlockError(id, n) = "kSuccess"
             /\ sessions' = [sessions EXCEPT ![id] = Advanced(id)]
             /\ Resume(id)
             /\ SaveSession(id, Advanced(id))
    <3>1. Advanced(id) # None
      BY <2>1, <2>5, AdvancedType
    <3>2. resumed' = {}
      BY <1>b, <2>1, <2>2, <2>5 DEF Resume
    <3> QED BY <1>a, <1>b, <2>1, <2>5, <3>1, <3>2 DEF SaveSession
  <2> QED BY <1>2, <2>3, <2>4, <2>5 DEF TransferData
<1>3. ASSUME NEW c \in Clients, DeleteTransfer(c)
      PROVE  resumed' = {} /\ \A i \in Ids : sessions'[i] = None => meta'[i] = None
  <2>1. \/ UNCHANGED <<sessions, meta, restarts, resumed>>
        \/ /\ sessions' = [sessions EXCEPT ![client[c].id] = None]
           /\ meta' = [meta EXCEPT ![client[c].id] = None]
           /\ UNCHANGED <<restarts, resumed>>
    BY <1>3 DEF DeleteTransfer, RemoveSessionFiles
  <2> QED BY <1>a, <1>b, <2>1
<1>4. ASSUME NEW c \in Clients, ProcessSwPackage(c)
      PROVE  resumed' = {} /\ \A i \in Ids : sessions'[i] = None => meta'[i] = None
  <2>1. \/ UNCHANGED <<sessions, meta, restarts, resumed>>
        \/ /\ sessions' = [sessions EXCEPT ![client[c].id] = None]
           /\ meta' = [meta EXCEPT ![client[c].id] = None]
           /\ UNCHANGED <<restarts, resumed>>
    BY <1>4 DEF ProcessSwPackage, RemoveSessionFiles
  <2> QED BY <1>a, <1>b, <2>1
<1> QED
  BY <1>0, <1>1, <1>2, <1>3, <1>4
  DEF Next, vars, Service, RestartIdle, OtaSettles, RunAgain, TransferExit,
      TransferStartStopped, TransferDataStopped, DeleteTransferStopped, ProcessStopped

-----------------------------------------------------------------------------
(* What the OTA manager is handed *)

\* A package that passes every check is written to its .img as a whole.
LEMMA WrittenWhole ==
  ASSUME TypeOK, DiskFits, AmpleDisk, {"meta", "img"} \cap Faults = {},
         NEW id \in Ids, PackageError(id) = "kSuccess", NEW image \in Written(id)
  PROVE  image = Package(Manifest(zip[id]))
<1>1. PICK b \in 0..Capacity : RoomFor(b)
  BY DEF AmpleDisk
<1>2. b \in Nat
  BY UcmAssumption
<1>3. \A i \in Ids : Blocks(zip[i]) <= b /\ Blocks(img[i]) <= b
  BY <1>1 DEF DiskFits, AmpleDisk, MetaCurrent, FilesWithin
<1>4. zip \in [Ids -> Files] /\ img \in [Ids -> Files]
  BY DEF TypeOK
<1> DEFINE room == Available + Blocks(img[id])
<1>5. room >= b
  BY <1>1, <1>2, <1>3, <1>4, RoomForOne
<1>6. /\ zip[id] \in Seq(Clients \X Nat) /\ Blocks(zip[id]) = Len(zip[id])
      /\ room \in Nat /\ zip[id] = Package(Manifest(zip[id]))
  BY CheckedPackage
<1>7. image = Fitting(zip[id], room)
  BY DEF Written
<1> HIDE DEF room
<1>8. Len(zip[id]) <= room
  <2>1. Len(zip[id]) \in Nat /\ Len(zip[id]) <= b
    BY <1>3, <1>6
  <2> QED BY <1>2, <1>5, <1>6, <2>1
<1>9. Fitting(zip[id], room) = zip[id]
  BY <1>6, <1>8, FittingType
<1> QED BY <1>6, <1>7, <1>9

\* Only ProcessSwPackage hands anything over.
LEMMA StepHanded ==
  ASSUME TypeOK, UcmIInv, DiskFits, AmpleDisk, {"meta", "img"} \cap Faults = {},
         HandedIsSent, [Next]_vars
  PROVE  HandedIsSent'
<1>1. CASE ota' = None \/ ota' = ota
  BY <1>1 DEF HandedIsSent
<1>2. ASSUME NEW c \in Clients, ProcessSwPackage(c) PROVE HandedIsSent'
  <2> DEFINE id == client[c].id
  <2>1. id \in Ids
    BY <1>2 DEF ProcessSwPackage, UcmIInv, IdsGiven, HoldsId, At
  <2>2. CASE UNCHANGED ota
    BY <2>2, <1>1
  <2>3. CASE /\ PackageError(id) = "kSuccess"
             /\ \E image \in Written(id) \ {None} :
                  ota' = [id |-> id, image |-> image, version |-> Manifest(zip[id])]
    <3>1. PICK image \in Written(id) \ {None} :
                 ota' = [id |-> id, image |-> image, version |-> Manifest(zip[id])]
      BY <2>3
    <3>2. image = Package(Manifest(zip[id]))
      BY <2>1, <2>3, <3>1, WrittenWhole
    <3> QED BY <3>1, <3>2 DEF HandedIsSent
  <2> QED BY <1>2, <2>2, <2>3 DEF ProcessSwPackage
<1> QED
  BY <1>1, <1>2
  DEF Next, vars, Service, RestartIdle, OtaSettles, RunAgain, TransferStart,
      TransferStartStopped, TransferData, TransferDataStopped, TransferExit, DeleteTransfer,
      DeleteTransferStopped, ProcessStopped, Restart

-----------------------------------------------------------------------------
(* What a transfer holds at TransferExit *)

\* A method answers its own client, if it answers at all.
LEMMA AnswerMoves ==
  ASSUME UcmIInv, NEW c \in Clients, NEW next, Answer(c, next) \/ NoAnswer(c)
  PROVE  /\ \A d \in Clients : d # c => client'[d] = client[d]
         /\ client'[c] = client[c] \/ client'[c] = next \/ client'[c].step = "failed"
<1>1. client \in [Clients -> ClientStates]
  BY DEF UcmIInv, IdsGiven
<1>2. Failed("kOperationNotPermitted").step = "failed"
  BY DEF Failed, Idle
<1> QED BY <1>1, <1>2 DEF Answer, NoAnswer

\* An error leaves the client where it was, or makes it give up.
LEMMA FailMoves ==
  ASSUME UcmIInv, NEW c \in Clients, NEW e, Fail(c, e)
  PROVE  /\ \A d \in Clients : d # c => client'[d] = client[d]
         /\ client'[c] = client[c] \/ client'[c].step = "failed"
<1>1. Failed(e).step = "failed"
  BY DEF Failed, Idle
<1>2. Answer(c, Failed(e)) \/ NoAnswer(c)
  BY DEF Fail
<1> QED BY <1>1, <1>2, AnswerMoves

\* A step that opens no session and extends none keeps the owners.
LEMMA OwnersKept ==
  ASSUME TypeOK, TypeOK', UcmIInv, \A c \in Clients : Holding(c) => Owned(c),
         nextId <= nextId',
         \A i \in Ids : sessions'[i] # None => sessions'[i] = sessions[i] /\ zip'[i] = zip[i],
         \A c \in Clients : Holding(c)' =>
           /\ Holding(c) /\ client'[c].id = client[c].id
           /\ At(c, "process")' =>
                \/ At(c, "process")
                \/ sessions[client[c].id].received_bytes = Size[c]
  PROVE  \A c \in Clients : Holding(c)' => Owned(c)'
<1> SUFFICES ASSUME NEW c \in Clients, Holding(c)' PROVE Owned(c)'
  OBVIOUS
<1>1. Holding(c) /\ client'[c].id = client[c].id /\ Owned(c)
  OBVIOUS
<1>2. client[c].id \in Ids
  BY <1>1 DEF UcmIInv, IdsGiven, HoldsId, Holding
<1>3. client'[c].id < nextId'
  BY <1>1, <1>2, UcmAssumption DEF Owned, TypeOK, Ids
<1>4. \A d \in Clients : Holding(d)' /\ client'[d].id = client'[c].id => d = c
  BY <1>1 DEF Owned
<1>5. ASSUME sessions'[client'[c].id] # None
      PROVE  /\ sessions'[client'[c].id].expected_bytes = Size[c]
             /\ zip'[client'[c].id] =
                  SubSeq(Package(c), 1, sessions'[client'[c].id].received_bytes)
             /\ At(c, "process")' => sessions'[client'[c].id].received_bytes = Size[c]
  <2>1. /\ sessions'[client'[c].id] = sessions[client[c].id]
        /\ zip'[client'[c].id] = zip[client[c].id]
        /\ sessions[client[c].id] # None
    BY <1>1, <1>2, <1>5
  <2> QED BY <1>1, <2>1 DEF Owned
<1> QED BY <1>3, <1>4, <1>5 DEF Owned

\* A new transfer belongs to the client that is told its id.
LEMMA StartOwns ==
  ASSUME TypeOK, UcmIInv, \A d \in Clients : Holding(d) => Owned(d),
         NEW c \in Clients, At(c, "start"), nextId \in Ids, TakeId,
         zip' = [zip EXCEPT ![nextId] = <<>>],
         sessions' = [sessions EXCEPT ![nextId] = Session(Size[c], 0)],
         \/ Answer(c, [Idle EXCEPT !.step = "data", !.id = nextId])
         \/ NoAnswer(c)
  PROVE  \A d \in Clients : Holding(d)' => Owned(d)'
<1> DEFINE next == [Idle EXCEPT !.step = "data", !.id = nextId]
<1>1. /\ \A d \in Clients : d # c => client'[d] = client[d]
      /\ client'[c] = client[c] \/ client'[c] = next \/ client'[c].step = "failed"
  BY AnswerMoves
<1>2. next.id = nextId /\ next.step = "data"
  BY DEF Idle
<1> HIDE DEF next
<1>3. Holding(c)' => client'[c] = next
  BY <1>1 DEF Holding, At
<1>4. \A d \in Clients : d # c /\ Holding(d)' =>
        /\ Holding(d) /\ client'[d] = client[d]
        /\ client[d].id \in Ids /\ client[d].id < nextId
  BY <1>1 DEF Holding, Owned, UcmIInv, IdsGiven, HoldsId
<1>5. nextId \in Nat /\ nextId' = nextId + 1
  BY UcmAssumption DEF TakeId, Ids
<1>6. ASSUME NEW d \in Clients, d # c, Holding(d)' PROVE Owned(d)'
  <2>1. /\ Holding(d) /\ client'[d] = client[d] /\ Owned(d)
        /\ client[d].id \in Ids /\ client[d].id < nextId
    BY <1>4, <1>6
  <2>2. client[d].id \in Nat /\ client[d].id # nextId /\ client[d].id < nextId'
    BY <1>5, <2>1, UcmAssumption DEF Ids
  <2>3. /\ sessions'[client[d].id] = sessions[client[d].id]
        /\ zip'[client[d].id] = zip[client[d].id]
    BY <2>1, <2>2 DEF TypeOK
  <2>4. \A e \in Clients : Holding(e)' /\ client'[e].id = client'[d].id => e = d
    <3> SUFFICES ASSUME NEW e \in Clients, Holding(e)', client'[e].id = client'[d].id
                 PROVE  e = d
      OBVIOUS
    <3>1. e # c
      BY <1>2, <1>3, <2>1, <2>2
    <3>2. Holding(e) /\ client'[e] = client[e]
      BY <1>4, <3>1
    <3> QED BY <2>1, <3>2 DEF Owned
  <2> QED BY <2>1, <2>2, <2>3, <2>4 DEF Owned, At
<1>7. ASSUME Holding(c)' PROVE Owned(c)'
  <2>1. client'[c].id = nextId /\ client'[c].step = "data"
    BY <1>2, <1>3, <1>7
  <2>2. client'[c].id < nextId'
    BY <1>5, <2>1
  <2>3. \A e \in Clients : Holding(e)' /\ client'[e].id = client'[c].id => e = c
    <3> SUFFICES ASSUME NEW e \in Clients, Holding(e)', client'[e].id = client'[c].id, e # c
                 PROVE  FALSE
      OBVIOUS
    <3>1. client[e].id = nextId /\ client[e].id < nextId
      BY <1>4, <2>1
    <3> QED BY <1>5, <3>1
  <2>4. sessions'[nextId] = Session(Size[c], 0) /\ zip'[nextId] = <<>>
    BY DEF TypeOK
  <2>5. SubSeq(Package(c), 1, 0) = <<>>
    BY SubSeqEmpty
  <2>6. ~At(c, "process")'
    BY <2>1 DEF At
  <2> QED BY <2>1, <2>2, <2>3, <2>4, <2>5, <2>6, OpenedType DEF Owned
<1> QED BY <1>6, <1>7

\* A block that is accepted is the next one of the client the transfer
\* belongs to, and there is room for it.
LEMMA DataOwns ==
  ASSUME TypeOK, UcmIInv, DiskFits, NothingLoaded, AmpleDisk, restarts = 0,
         \A d \in Clients : Holding(d) => Owned(d),
         NEW c \in Clients, NEW id, NEW n, id = client[c].id, n = client[c].next,
         At(c, "data"), Found(id) \notin {None, Torn}, BlockError(id, n) = "kSuccess",
         zip' = Appended(id, <<c, n>>),
         sessions' = [sessions EXCEPT ![id] = Advanced(id)],
         Answer(c, AfterBlock(c, n)) \/ NoAnswer(c), nextId' = nextId
  PROVE  \A d \in Clients : Holding(d)' => Owned(d)'
<1>1. id \in Ids /\ n \in Nat /\ Holding(c) /\ client[c] \in ClientStates
  BY DEF UcmIInv, IdsGiven, HoldsId, At, ClientStates, Holding
<1>2. /\ zip \in [Ids -> Files] /\ img \in [Ids -> Files]
      /\ sessions \in [Ids -> Sessions \cup {None}]
  BY DEF TypeOK
<1>3. sessions[id] # None /\ Found(id) = sessions[id]
  BY <1>1 DEF NothingLoaded, Found
<1> DEFINE r == sessions[id].received_bytes
<1>4. /\ sessions[id].expected_bytes = Size[c]
      /\ zip[id] = SubSeq(Package(c), 1, r)
  BY <1>1, <1>3 DEF Owned
<1>5. /\ n = r + 1 /\ r \in Nat /\ n \in 1..Size[c] /\ Advanced(id) # None
      /\ Advanced(id).expected_bytes = Size[c] /\ Advanced(id).received_bytes = n
  <2>1. /\ n = r + 1 /\ n \in 1..Size[c] /\ Advanced(id) # None
        /\ Advanced(id).expected_bytes = Size[c] /\ Advanced(id).received_bytes = n
    BY <1>1, <1>3, <1>4, AdvancedType
  <2>2. sessions[id] \in Sessions
    BY <1>1, <1>2, <1>3
  <2>3. r \in Nat
    BY <2>2, SessionFields
  <2> QED BY <2>1, <2>3
<1> HIDE DEF r
<1>6. Package(c) \in Seq(Clients \X Nat) /\ Len(Package(c)) = Size[c] /\ Size[c] \in Nat
  BY PackageType
<1>7. zip[id] \in Seq(Clients \X Nat) /\ Blocks(zip[id]) = r /\ zip[id] # None
  <2>1. \A i \in 1..r : Package(c)[i] \in Clients \X Nat
    BY <1>5, <1>6
  <2>2. zip[id] \in Seq(Clients \X Nat) /\ Len(zip[id]) = r
    BY <1>4, <1>5, <2>1, SubSeqProperties
  <2> QED BY <2>2, UcmAssumption DEF Blocks
<1>8. Available >= 1
  <2>1. PICK b \in 0..Capacity : RoomFor(b)
    BY DEF AmpleDisk
  <2>2. b \in Nat /\ MaxRestarts \in Nat
    BY UcmAssumption
  <2>3. \A i \in Ids : FilesWithin(i, b)
    BY <2>1 DEF DiskFits, AmpleDisk, MetaCurrent
  <2>4. Available + r >= b
    <3>1. \A i \in Ids : Blocks(zip[i]) <= b /\ Blocks(img[i]) <= b
      BY <2>3 DEF FilesWithin
    <3>2. Available + Blocks(zip[id]) >= b
      BY <1>1, <1>2, <2>1, <2>2, <3>1, RoomForOne
    <3> QED BY <1>7, <3>2
  <2>5. Size[c] + MaxRestarts <= b
    BY <1>1, <1>3, <1>4, <2>3 DEF FilesWithin
  <2>6. Available \in Nat
    BY <1>2, AvailableType
  <2> QED BY <1>5, <1>6, <2>2, <2>4, <2>5, <2>6
<1>9. zip'[id] = SubSeq(Package(c), 1, n)
  <2>1. <<c, n>> \in Clients \X Nat
    BY <1>1
  <2>2. zip'[id] = zip[id] \o << <<c, n>> >>
    BY <1>1, <1>2, <1>7, <1>8, <2>1, AppendedType
  <2>3. 1 \in 1..Len(Package(c)) /\ n \in 1..Len(Package(c))
    BY <1>5, <1>6
  <2>4. SubSeq(Package(c), 1, n) = SubSeq(Package(c), 1, n - 1) \o <<Package(c)[n]>>
    BY <1>6, <2>3, SubSeqRecursiveSecond
  <2>5. Package(c)[n] = <<c, n>> /\ n - 1 = r
    BY <1>5 DEF Package
  <2> QED BY <1>4, <2>2, <2>4, <2>5
<1>10. /\ \A d \in Clients : d # c => client'[d] = client[d]
       /\ Holding(c)' => client'[c].id = id /\ client'[c].step # "process"
  <2>1. /\ \A d \in Clients : d # c => client'[d] = client[d]
        /\ \/ client'[c] = client[c] \/ client'[c] = AfterBlock(c, n)
           \/ client'[c].step = "failed"
    BY AnswerMoves
  <2>2. AfterBlock(c, n).id = id /\ AfterBlock(c, n).step # "process"
    BY <1>1 DEF AfterBlock, ClientStates
  <2> QED BY <2>1, <2>2 DEF Holding, At
<1>11. ASSUME NEW d \in Clients, d # c, Holding(d)' PROVE Owned(d)'
  <2>1. Holding(d) /\ client'[d] = client[d] /\ Owned(d)
    BY <1>10, <1>11 DEF Holding
  <2>2. client[d].id \in Ids /\ client[d].id # id
    BY <1>1, <1>11, <2>1 DEF Owned, Holding, UcmIInv, IdsGiven, HoldsId
  <2>3. /\ sessions'[client[d].id] = sessions[client[d].id]
        /\ zip'[client[d].id] = zip[client[d].id]
    BY <1>1, <1>2, <2>2 DEF Appended
  <2>4. \A e \in Clients : Holding(e)' /\ client'[e].id = client'[d].id => e = d
    <3> SUFFICES ASSUME NEW e \in Clients, Holding(e)', client'[e].id = client'[d].id
                 PROVE  e = d
      OBVIOUS
    <3>1. e # c
      BY <1>10, <2>1, <2>2
    <3>2. Holding(e) /\ client'[e] = client[e]
      BY <1>10, <3>1 DEF Holding
    <3> QED BY <2>1, <3>2 DEF Owned
  <2> QED BY <2>1, <2>3, <2>4 DEF Owned, At
<1>12. ASSUME Holding(c)' PROVE Owned(c)'
  <2>1. client'[c].id = id /\ ~At(c, "process")'
    BY <1>10, <1>12 DEF At
  <2>2. client'[c].id < nextId'
    BY <1>1, <2>1 DEF Owned
  <2>3. \A e \in Clients : Holding(e)' /\ client'[e].id = client'[c].id => e = c
    <3> SUFFICES ASSUME NEW e \in Clients, Holding(e)', client'[e].id = client'[c].id, e # c
                 PROVE  FALSE
      OBVIOUS
    <3>1. Holding(e) /\ client[e].id = id
      BY <1>10, <2>1 DEF Holding
    <3> QED BY <1>1, <3>1 DEF Owned
  <2>4. sessions'[id] = Advanced(id)
    BY <1>1, <1>2
  <2> QED BY <1>5, <1>9, <2>1, <2>2, <2>3, <2>4 DEF Owned
<1> QED BY <1>11, <1>12

\* A client that gives up, or is not answered, takes over no transfer.
LEMMA FailOwns ==
  ASSUME TypeOK, TypeOK', UcmIInv, \A d \in Clients : Holding(d) => Owned(d),
         NEW c \in Clients, NEW e, Fail(c, e), nextId <= nextId',
         \A i \in Ids : sessions'[i] # None => sessions'[i] = sessions[i] /\ zip'[i] = zip[i]
  PROVE  \A d \in Clients : Holding(d)' => Owned(d)'
<1>1. /\ \A d \in Clients : d # c => client'[d] = client[d]
      /\ client'[c] = client[c] \/ client'[c].step = "failed"
  BY FailMoves
<1>2. ASSUME NEW d \in Clients, Holding(d)'
      PROVE  Holding(d) /\ client'[d].id = client[d].id /\ (At(d, "process")' => At(d, "process"))
  BY <1>1, <1>2 DEF Holding, At
<1> QED BY <1>2, OwnersKept

\* Until the first restart every step keeps the owners.
LEMMA StepOwners ==
  ASSUME TypeOK, TypeOK', UcmIInv, DiskFits, NothingLoaded, AmpleDisk, restarts' = 0,
         restarts = 0 => \A d \in Clients : Holding(d) => Owned(d), [Next]_vars
  PROVE  \A d \in Clients : Holding(d)' => Owned(d)'
<1> USE NoRestart
<1>a. /\ sessions \in [Ids -> Sessions \cup {None}] /\ zip \in [Ids -> Files]
      /\ nextId \in Nat
  BY UcmAssumption DEF TypeOK
<1>0. CASE UNCHANGED <<sessions, zip, nextId, client, restarts>>
  <2>1. nextId <= nextId'
    BY <1>0, <1>a
  <2>2. \A d \in Clients : Holding(d)' =>
          Holding(d) /\ client'[d].id = client[d].id /\ (At(d, "process")' => At(d, "process"))
    BY <1>0 DEF Holding, At
  <2> QED BY <1>0, <2>1, <2>2, OwnersKept
<1>1. ASSUME NEW c \in Clients, TransferStart(c)
      PROVE  \A d \in Clients : Holding(d)' => Owned(d)'
  <2>1. /\ nextId \in Ids /\ At(c, "start") /\ UNCHANGED restarts
        /\ \A d \in Clients : Holding(d) => Owned(d)
    BY <1>1, UcmAssumption DEF TransferStart, UcmIInv, IdsGiven, Ids
  <2>2. CASE /\ Fail(c, "kInsufficientMemory")
             /\ UNCHANGED <<sessions, zip>> /\ (UNCHANGED nextId \/ TakeId)
    <3>1. nextId <= nextId'
      BY <1>a, <2>2 DEF TakeId
    <3> QED BY <2>1, <2>2, <3>1, FailOwns
  <2>3. CASE /\ TakeId
             /\ zip' = [zip EXCEPT ![nextId] = <<>>]
             /\ sessions' = [sessions EXCEPT ![nextId] = Session(Size[c], 0)]
             /\ \/ Answer(c, [Idle EXCEPT !.step = "data", !.id = nextId])
                \/ NoAnswer(c)
    BY <2>1, <2>3, StartOwns
  <2> QED BY <1>1, <2>2, <2>3 DEF TransferStart
<1>2. ASSUME NEW c \in Clients, TransferData(c)
      PROVE  \A d \in Clients : Holding(d)' => Owned(d)'
  <2> DEFINE id == client[c].id
             n == client[c].next
  <2>1. /\ id \in Ids /\ At(c, "data") /\ UNCHANGED <<restarts, nextId>>
        /\ \A d \in Clients : Holding(d) => Owned(d)
    BY <1>2 DEF TransferData, UcmIInv, IdsGiven, HoldsId, At
  <2>2. nextId <= nextId' /\ restarts = 0
    BY <1>a, <2>1
  <2>3. CASE (\E e : Fail(c, e)) /\ UNCHANGED <<sessions, zip>>
    BY <2>1, <2>2, <2>3, FailOwns
  <2>4. CASE /\ Found(id) \notin {None, Torn} /\ BlockError(id, n) = "kSuccess"
             /\ zip' = Appended(id, <<c, n>>)
             /\ sessions' = [sessions EXCEPT ![id] = Advanced(id)]
             /\ Answer(c, AfterBlock(c, n)) \/ NoAnswer(c)
    BY <2>1, <2>2, <2>4, DataOwns
  <2>5. Found(id) \notin {None, Torn} /\ LoadSession(id) => UNCHANGED sessions
    BY <1>a, <2>1, <2>2 DEF LoadSession, Found, NothingLoaded
  <2> QED BY <1>2, <2>3, <2>4, <2>5 DEF TransferData
<1>3. ASSUME NEW c \in Clients, TransferExit(c)
      PROVE  \A d \in Clients : Holding(d)' => Owned(d)'
  <2> DEFINE id == client[c].id
  <2>1. /\ At(c, "exit") /\ UNCHANGED <<sessions, zip, restarts, nextId>>
        /\ \A d \in Clients : Holding(d) => Owned(d)
    BY <1>3 DEF TransferExit
  <2>2. nextId <= nextId'
    BY <1>a, <2>1
  <2>3. CASE Fail(c, ExitError(id))
    BY <2>1, <2>2, <2>3, FailOwns
  <2>4. CASE ExitError(id) = "kSuccess" /\ Answer(c, [client[c] EXCEPT !.step = "process"])
    <3>1. client[c] \in ClientStates /\ client \in [Clients -> ClientStates] /\ id \in Ids
      BY <2>1 DEF UcmIInv, IdsGiven, At, HoldsId
    <3>2. client'[c] = [client[c] EXCEPT !.step = "process"]
      BY <2>4, <3>1 DEF Answer
    <3>3. client'[c].id = client[c].id
      BY <3>1, <3>2 DEF ClientStates
    <3>4. \A d \in Clients : d # c => client'[d] = client[d]
      BY <2>4, <3>1 DEF Answer
    <3>5. sessions[id].received_bytes = Size[c]
      <4>1. /\ sessions[id] # None
            /\ sessions[id].received_bytes = sessions[id].expected_bytes
        BY <2>4 DEF ExitError
      <4>2. Holding(c)
        BY <2>1 DEF Holding, At
      <4> QED BY <2>1, <4>1, <4>2 DEF Owned
    <3>6. ASSUME NEW d \in Clients, Holding(d)'
          PROVE  /\ Holding(d) /\ client'[d].id = client[d].id
                 /\ At(d, "process")' =>
                      \/ At(d, "process")
                      \/ sessions[client[d].id].received_bytes = Size[d]
      <4>1. CASE d = c
        BY <2>1, <3>3, <3>5, <4>1 DEF Holding, At
      <4>2. CASE d # c
        BY <3>4, <3>6, <4>2 DEF Holding, At
      <4> QED BY <4>1, <4>2
    <3> QED BY <2>1, <2>2, <3>6, OwnersKept
  <2> QED BY <1>3, <2>3, <2>4 DEF TransferExit
<1>4. ASSUME NEW c \in Clients, DeleteTransfer(c) \/ ProcessSwPackage(c)
      PROVE  \A d \in Clients : Holding(d)' => Owned(d)'
  <2> DEFINE id == client[c].id
  <2>1. /\ UNCHANGED <<restarts, nextId>>
        /\ \/ UNCHANGED <<sessions, zip>>
           \/ /\ sessions' = [sessions EXCEPT ![id] = None]
              /\ zip' = [zip EXCEPT ![id] = None]
        /\ \/ \E e : Fail(c, e)
           \/ Answer(c, Idle) \/ Answer(c, [client[c] EXCEPT !.step = "done"]) \/ NoAnswer(c)
    <3>1. CASE DeleteTransfer(c)
      BY <3>1 DEF DeleteTransfer, RemoveSessionFiles
    <3>2. CASE ProcessSwPackage(c)
      BY <3>2 DEF ProcessSwPackage, RemoveSessionFiles
    <3> QED BY <1>4, <3>1, <3>2
  <2>2. nextId <= nextId' /\ \A d \in Clients : Holding(d) => Owned(d)
    BY <1>a, <2>1
  <2>3. \A i \in Ids : sessions'[i] # None => sessions'[i] = sessions[i] /\ zip'[i] = zip[i]
    BY <1>a, <2>1
  <2>4. CASE \E e : Fail(c, e)
    BY <2>2, <2>3, <2>4, FailOwns
  <2>5. CASE Answer(c, Idle) \/ Answer(c, [client[c] EXCEPT !.step = "done"]) \/ NoAnswer(c)
    <3>1. client \in [Clients -> ClientStates] /\ client[c] \in ClientStates
      BY DEF UcmIInv, IdsGiven
    <3>2. Idle.step = "start" /\ [client[c] EXCEPT !.step = "done"].step = "done"
      BY <3>1 DEF Idle, ClientStates
    <3>3. /\ \A d \in Clients : d # c => client'[d] = client[d]
          /\ client'[c] = client[c] \/ client'[c].step \in {"start", "done", "failed"}
      BY <2>5, <3>2, AnswerMoves
    <3>4. ASSUME NEW d \in Clients, Holding(d)'
          PROVE  /\ Holding(d) /\ client'[d].id = client[d].id
                 /\ At(d, "process")' => At(d, "process")
      BY <3>3, <3>4 DEF Holding, At
    <3> QED BY <2>2, <2>3, <3>4, OwnersKept
  <2> QED BY <2>1, <2>4, <2>5
<1>5. ASSUME NEW c \in Clients, RunAgain(c)
      PROVE  \A d \in Clients : Holding(d)' => Owned(d)'
  <2>1. /\ UNCHANGED <<sessions, zip, restarts, nextId>>
        /\ \A d \in Clients : Holding(d) => Owned(d)
    BY <1>5 DEF RunAgain
  <2>2. nextId <= nextId'
    BY <1>a, <2>1
  <2>3. client \in [Clients -> ClientStates] /\ Idle.step = "start"
    BY DEF UcmIInv, IdsGiven, Idle
  <2>4. /\ \A d \in Clients : d # c => client'[d] = client[d]
        /\ client'[c].step = "start"
    BY <1>5, <2>3 DEF RunAgain
  <2>5. ASSUME NEW d \in Clients, Holding(d)'
        PROVE  /\ Holding(d) /\ client'[d].id = client[d].id
               /\ At(d, "process")' => At(d, "process")
    BY <2>4, <2>5 DEF Holding, At
  <2> QED BY <2>1, <2>2, <2>5, OwnersKept
<1> QED
  BY <1>0, <1>1, <1>2, <1>3, <1>4, <1>5
  DEF Next, vars, Service, RestartIdle, OtaSettles, TransferStartStopped,
      TransferDataStopped, DeleteTransferStopped, ProcessStopped

-----------------------------------------------------------------------------
(* The invariant and the two theorems *)

\* The files never outgrow the disk, no .meta is loaded before a restart, and
\* until then every transfer has one owner.
LEMMA TransferInvariant == Spec => []TransferIInv
<1>1. Init => TransferIInv
  <2> SUFFICES ASSUME Init PROVE TransferIInv
    OBVIOUS
  <2>1. \A id \in Ids : Found(id) = None /\ Blocks(zip[id]) = 0 /\ Blocks(img[id]) = 0
    BY DEF Init, Found, Blocks
  <2>2. \A b \in 0..Capacity : 0 <= b
    BY UcmAssumption
  <2>3. DiskFits /\ NothingLoaded
    BY <2>1, <2>2 DEF Init, DiskFits, FilesWithin, NothingLoaded
  <2>4. TransfersOwned
    BY DEF Init, TransfersOwned, Holding, Idle
  <2> QED BY <2>3, <2>4 DEF TransferIInv
<1>2. TypeOK /\ TypeOK' /\ UcmIInv /\ TransferIInv /\ [Next]_vars => TransferIInv'
  <2> SUFFICES ASSUME TypeOK, TypeOK', UcmIInv, TransferIInv, [Next]_vars
               PROVE  TransferIInv'
    OBVIOUS
  <2>1. DiskFits' /\ NothingLoaded'
    BY StepDiskFits, StepNothingLoaded DEF TransferIInv
  <2>2. TransfersOwned'
    BY StepOwners DEF TransferIInv, TransfersOwned
  <2> QED BY <2>1, <2>2 DEF TransferIInv
<1> QED BY <1>1, <1>2, UcmInvariant, UcmTypeCorrect, PTL DEF Spec

\* With room on the disk and files that can be written, whatever the OTA
\* manager is given is a whole package as its client built it, under the
\* version of its own manifest: for any clients, lost answers, restarts in the
\* middle of any method, transfers resumed from disk and ids given out twice.
THEOREM HandedAlwaysSent ==
  ASSUME AmpleDisk, {"meta", "img"} \cap Faults = {}
  PROVE  Spec => []HandedIsSent
<1>1. Init => HandedIsSent
  BY DEF Init, HandedIsSent
<1>2. /\ TypeOK /\ UcmIInv /\ TransferIInv /\ HandedIsSent /\ [Next]_vars
      => HandedIsSent'
  BY StepHanded DEF TransferIInv
<1> QED BY <1>1, <1>2, UcmInvariant, UcmTypeCorrect, TransferInvariant, PTL DEF Spec

\* With room on the disk, a transfer that TransferExit accepted holds exactly
\* the package of its client until the service is restarted: however often
\* answers are lost and blocks sent again, transfers deleted and started anew,
\* and whichever files cannot be created, opened or written.
THEOREM WholeUntilRestart ==
  ASSUME AmpleDisk
  PROVE  Spec => []WholeUnlessRestarted
<1>1. TransferIInv => WholeUnlessRestarted
  <2> SUFFICES ASSUME TransferIInv, restarts = 0, NEW c \in Clients,
                      At(c, "process"), sessions[client[c].id] # None
               PROVE  zip[client[c].id] = Package(c)
    BY DEF WholeUnlessRestarted, ExitMeansWhole
  <2>1. Owned(c)
    BY DEF TransferIInv, TransfersOwned, Holding, At
  <2>2. Package(c) \in Seq(Clients \X Nat) /\ Len(Package(c)) = Size[c]
    BY PackageType
  <2>3. SubSeq(Package(c), 1, Size[c]) = Package(c)
    BY <2>2, SubSeqFull
  <2> QED BY <2>1, <2>3 DEF Owned
<1> QED BY <1>1, TransferInvariant, PTL
=============================================================================
