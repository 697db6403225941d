------------------------ MODULE ChunkedUploadProofs -------------------------
(***************************************************************************)
(* Theorems about ChunkedUpload, for any file, stream and announced sizes  *)
(* and any width of the integers.  The inductive invariant follows the two *)
(* counters: what was folded into the digest covers the stream up to       *)
(* `lastIndex`, which is up to `emitted` except for a chunk on its way;    *)
(* the parts are the digest's contents at their offsets; and no two parts  *)
(* of the session share an offset.                                         *)
(***************************************************************************)
EXTENDS ChunkedUpload, FiniteSetTheorems, TLAPS

\* Nothing has happened before the session exists.
FreshInv ==
    pc = "session" =>
        emitted = 0 /\ lastIndex = -1 /\ parts = <<>> /\ fileHash = <<>>

\* The digest covers the stream as far as the call has come.
DigestInv ==
    /\ pc = "next" => lastIndex + 1 = emitted /\ Covers(fileHash, emitted)
    /\ pc = "upload" =>
         /\ Covers(fileHash, chunk.start)
         /\ lastIndex + 1 = chunk.start
         /\ emitted = chunk.start + chunk.size
         /\ chunk.size > 0
    /\ pc = "list" \/ requested => Covers(fileHash, fileSize)

\* Zero is no part size for a file that is not empty.
PartSizeInv == pc \in {"next", "upload"} => partSize # 0 \/ fileSize = 0

\* The parts are what the digest was made of, at their offsets.
PartsInv ==
    /\ Len(parts) = Len(fileHash)
    /\ \A i \in 1 .. Len(parts) :
         /\ parts[i].sha1 = fileHash[i]
         /\ parts[i].offset = parts[i].sha1.start
         /\ parts[i].size = parts[i].sha1.size
         /\ parts[i].size > 0
         /\ parts[i].offset + parts[i].size <= lastIndex + 1

\* The session holds one part per offset.
StoredInv ==
    \A p, q \in stored : p.offset = q.offset => p = q

\* The file comes after the request, and is returned after it has come.
FileInv ==
    /\ pc \in {"commit", "file"} => requested
    /\ requested => pc \in {"commit", "file", "error"}
    /\ file.exists => requested /\ Covers(file.contents, fileSize)
    /\ pc = "file" => file.exists

IInv ==
    /\ TypeOK
    /\ FreshInv
    /\ DigestInv
    /\ PartSizeInv
    /\ PartsInv
    /\ StoredInv
    /\ VerifiedIsStored
    /\ FileInv

\* A chunk read where a sequence ends extends what the sequence covers.
LEMMA CoversAppend ==
    ASSUME NEW c \in Seq(Content), NEW x \in Content, Covers(c, x.start)
    PROVE  Covers(Append(c, x), x.start + x.size)
<1> DEFINE d == Append(c, x)
<1>1. /\ Len(d) = Len(c) + 1
      /\ d[Len(c) + 1] = x
      /\ \A i \in 1 .. Len(c) : d[i] = c[i]
    OBVIOUS
<1>2. Len(c) \in Nat
    OBVIOUS
<1> HIDE DEF d
<1>3. Covers(d, x.start + x.size)
    BY <1>1, <1>2 DEF Covers
<1> QED BY <1>3 DEF d

LEMMA CoversNothing == Covers(<<>>, 0)
BY DEF Covers

\* No part of size zero passes for a file that is not empty.
LEMMA ZeroInsufficient == \A t \in Int : Wrapped(0 * t) = 0
BY SizesAssumption DEF Wrapped

LEMMA InitIInv == Init => IInv
<1> SUFFICES ASSUME Init PROVE IInv
    OBVIOUS
<1>1. TypeOK
    <2>1. fileSize \in Nat
        BY SizesAssumption DEF Init
    <2>2. parts \in Seq(Part) /\ fileHash \in Seq(Content) /\ NoFile.contents \in Seq(Sha1)
        BY DEF Init, NoFile
    <2>3. file \in [exists : BOOLEAN, contents : Seq(Sha1)]
        BY <2>2 DEF Init, NoFile
    <2>4. emitted \in 0 .. fileSize /\ lastIndex \in -1 .. fileSize
        BY <2>1 DEF Init
    <2>5. chunk \in Content
        BY DEF Init, Content
    <2> QED BY <2>2, <2>3, <2>4, <2>5 DEF Init, TypeOK, Locations
<1>2. FreshInv /\ DigestInv /\ PartSizeInv /\ FileInv
    BY DEF Init, FreshInv, DigestInv, PartSizeInv, FileInv, NoFile
<1>3. PartsInv /\ StoredInv /\ VerifiedIsStored
    BY DEF Init, PartsInv, StoredInv, VerifiedIsStored
<1> QED BY <1>1, <1>2, <1>3 DEF IInv

\* A chunk is read.
LEMMA ReadStep == IInv /\ NextChunk => IInv'
<1> SUFFICES ASSUME IInv, NextChunk PROVE IInv'
    OBVIOUS
<1> USE DEF NextChunk, ReadFull, session, service
<1>1. /\ partSize \in Int /\ fileSize \in Nat /\ emitted \in 0 .. fileSize
      /\ emitted < fileSize /\ partSize # 0 /\ ChunkSize \in Nat
    BY SizesAssumption
       DEF IInv, TypeOK, PartSizeInv, Exhausted, ChunkSize, Remaining
<1>2. ChunkSize \in 1 .. fileSize - emitted
    BY <1>1 DEF ChunkSize, Remaining
<1> USE <1>1, <1>2
<1> HIDE DEF ChunkSize
<1>3. TypeOK'
    BY DEF IInv, TypeOK, Content, Locations
<1>4. FreshInv' /\ PartSizeInv' /\ FileInv'
    BY DEF IInv, FreshInv, PartSizeInv, FileInv
<1>5. DigestInv'
    BY DEF IInv, DigestInv, FileInv, Covers
<1>6. PartsInv' /\ StoredInv' /\ VerifiedIsStored'
    BY DEF IInv, PartsInv, StoredInv, VerifiedIsStored
<1> QED BY <1>3, <1>4, <1>5, <1>6 DEF IInv

\* What the chunk becomes in the session when it arrives whole.
Whole == [offset |-> BytesStart, size |-> chunk.size, sha1 |-> chunk]

LEMMA WholeIsPart == TypeOK => Whole \in Part
BY DEF TypeOK, Whole, BytesStart, Part, Sha1, Content

\* A verified answer describes the whole chunk, and it is what is stored.
LEMMA VerifiedIsWhole ==
    ASSUME TypeOK, NEW part \in Arriving, NEW answer \in Answers(part), Verified(answer)
    PROVE  answer = part /\ part = Whole
<1>1. chunk.start \in Nat /\ chunk.size \in Nat /\ lastIndex \in Int
    BY DEF TypeOK, Content
<1>2. chunk # Damaged
    BY <1>1 DEF Damaged
<1>3. part = [offset |-> BytesStart, size |-> BytesEnd - BytesStart + 1, sha1 |-> part.sha1]
    BY DEF Arriving
<1>4. BytesEnd - BytesStart + 1 = chunk.size /\ BytesStart \in Int
    BY <1>1 DEF BytesEnd, BytesStart
<1>5. answer # [part EXCEPT !.offset = @ + 1]
    BY <1>3, <1>4 DEF Verified
<1>6. answer # [part EXCEPT !.size = @ - 1]
    BY <1>1, <1>3, <1>4 DEF Verified
<1>7. answer # [part EXCEPT !.sha1 = Damaged]
    BY <1>2, <1>3 DEF Verified
<1>8. answer = part
    BY <1>5, <1>6, <1>7 DEF Answers
<1>9. part.sha1 = chunk
    BY <1>8 DEF Verified
<1> QED BY <1>3, <1>4, <1>8, <1>9 DEF Whole

\* A part that was verified joins the others.
LEMMA VerifyStep == IInv /\ PartVerified => IInv'
<1> SUFFICES ASSUME IInv, PartVerified PROVE IInv'
    OBVIOUS
<1> USE DEF session, service
<1>0. PICK part \in Arriving :
        /\ stored' = Put(part)
        /\ \E answer \in Answers(part) : Verified(answer) /\ parts' = Append(parts, answer)
    BY DEF PartVerified
<1>1. PICK answer \in Answers(part) : Verified(answer) /\ parts' = Append(parts, answer)
    BY <1>0
<1>2. /\ TypeOK
      /\ pc = "upload" /\ pc' = "next" /\ fileHash' = Append(fileHash, chunk)
      /\ lastIndex' = BytesEnd
      /\ UNCHANGED <<fileSize, streamSize, partSize, totalParts, emitted, chunk, requested, file>>
    BY DEF PartVerified, IInv
<1>3. stored' = Put(Whole) /\ parts' = Append(parts, Whole)
    BY <1>0, <1>1, <1>2, VerifiedIsWhole
<1>4. /\ chunk.start \in Nat /\ chunk.size \in Nat /\ chunk.size > 0
      /\ lastIndex \in Int /\ lastIndex + 1 = chunk.start
      /\ emitted = chunk.start + chunk.size
      /\ emitted \in 0 .. fileSize /\ fileSize \in Nat
      /\ Covers(fileHash, chunk.start)
      /\ parts \in Seq(Part) /\ fileHash \in Seq(Content) /\ chunk \in Content
      /\ stored \subseteq Part
    BY <1>2, SizesAssumption DEF IInv, DigestInv, TypeOK, Content
<1>5. /\ Whole \in Part
      /\ Whole.offset = chunk.start /\ Whole.size = chunk.size /\ Whole.sha1 = chunk
    BY <1>2, <1>4, WholeIsPart DEF Whole, BytesStart
<1>6. lastIndex' + 1 = emitted'
    BY <1>2, <1>4 DEF BytesEnd
<1>7. TypeOK'
    <2>1. parts' \in Seq(Part) /\ fileHash' \in Seq(Content) /\ stored' \subseteq Part
        BY <1>2, <1>3, <1>4, <1>5 DEF Put
    <2>2. lastIndex' \in -1 .. fileSize'
        BY <1>2, <1>4, <1>6 DEF BytesEnd
    <2> QED BY <1>2, <2>1, <2>2 DEF TypeOK, Locations
<1>8. Covers(fileHash', emitted')
    BY <1>2, <1>4, CoversAppend
<1>9. FreshInv' /\ DigestInv' /\ FileInv'
    BY <1>2, <1>6, <1>8 DEF IInv, FreshInv, DigestInv, FileInv
<1>10. PartSizeInv'
    BY <1>2 DEF IInv, PartSizeInv
<1>11. lastIndex \in Int /\ lastIndex' \in Int /\ lastIndex < lastIndex'
    BY <1>2, <1>4 DEF BytesEnd
<1>12. PartsInv'
    <2>1. /\ Len(parts') = Len(parts) + 1 /\ parts'[Len(parts) + 1] = Whole
          /\ \A i \in 1 .. Len(parts) : parts'[i] = parts[i]
          /\ Len(fileHash') = Len(fileHash) + 1 /\ fileHash'[Len(fileHash) + 1] = chunk
          /\ \A i \in 1 .. Len(fileHash) : fileHash'[i] = fileHash[i]
        BY <1>2, <1>3, <1>4, <1>5
    <2>2. Len(parts) \in Nat /\ Len(parts) = Len(fileHash) /\ PartsInv
        BY <1>4 DEF IInv, PartsInv
    <2>3. ASSUME NEW i \in 1 .. Len(parts)
          PROVE  parts[i].offset + parts[i].size <= lastIndex' + 1
        <3>1. parts[i] \in Part
            BY <1>4, <2>2
        <3>2. parts[i].offset \in Int /\ parts[i].size \in Int
            BY <3>1 DEF Part
        <3>3. parts[i].offset + parts[i].size <= lastIndex + 1
            BY <2>2 DEF PartsInv
        <3> QED BY <1>11, <3>2, <3>3
    <2>4. ASSUME NEW i \in 1 .. Len(parts')
          PROVE  /\ parts'[i].sha1 = fileHash'[i]
                 /\ parts'[i].offset = parts'[i].sha1.start
                 /\ parts'[i].size = parts'[i].sha1.size
                 /\ parts'[i].size > 0
                 /\ parts'[i].offset + parts'[i].size <= lastIndex' + 1
        <3>1. CASE i \in 1 .. Len(parts)
            BY <2>1, <2>2, <2>3, <3>1 DEF PartsInv
        <3>2. CASE i = Len(parts) + 1
            BY <1>2, <1>4, <1>5, <1>6, <2>1, <2>2, <3>2
        <3> QED BY <2>1, <2>2, <3>1, <3>2
    <2> QED BY <2>1, <2>2, <2>4 DEF PartsInv
<1>13. StoredInv'
    BY <1>3, <1>5 DEF IInv, StoredInv, Put
<1>14. VerifiedIsStored'
    <2>1. ASSUME NEW i \in 1 .. Len(parts) PROVE parts[i] \in Put(Whole)
        <3>1. parts[i] \in stored /\ parts[i] \in Part
            BY <1>4 DEF IInv, VerifiedIsStored
        <3>2. parts[i].offset + parts[i].size <= lastIndex + 1 /\ parts[i].size > 0
            BY DEF IInv, PartsInv
        <3>3. parts[i].offset # Whole.offset
            BY <1>4, <1>5, <3>1, <3>2 DEF Part
        <3> QED BY <3>1, <3>3 DEF Put
    <2>2. Whole \in Put(Whole)
        BY DEF Put
    <2> QED BY <1>3, <1>4, <1>5, <2>1, <2>2 DEF VerifiedIsStored
<1> QED BY <1>7, <1>9, <1>10, <1>12, <1>13, <1>14 DEF IInv

\* A call that ends or asks for nothing more keeps what it has.
LEMMA SessionStep == IInv /\ (SessionRefused \/ SessionCreated) => IInv'
<1> SUFFICES ASSUME IInv, SessionRefused \/ SessionCreated PROVE IInv'
    OBVIOUS
<1> USE DEF SessionRefused, SessionCreated, EndFrom, session, local, service
<1>1. TypeOK'
    BY DEF IInv, TypeOK, Locations
<1>2. FreshInv' /\ FileInv' /\ DigestInv'
    BY CoversNothing DEF IInv, FreshInv, FileInv, DigestInv
<1>3. PartSizeInv'
    <2> SUFFICES ASSUME pc' = "next", partSize' = 0, fileSize' # 0 PROVE FALSE
        BY DEF PartSizeInv
    <2>1. totalParts' \in Int /\ fileSize \in Nat /\ fileSize # 0
        BY SizesAssumption DEF IInv, TypeOK
    <2>2. Wrapped(partSize' * totalParts') = 0
        BY <2>1, ZeroInsufficient
    <2> QED BY <2>1, <2>2 DEF Sufficient
<1>4. PartsInv' /\ StoredInv' /\ VerifiedIsStored'
    BY DEF IInv, PartsInv, StoredInv, VerifiedIsStored
<1> QED BY <1>1, <1>2, <1>3, <1>4 DEF IInv

LEMMA QuietStep ==
    IInv /\ (ChunkPanics \/ StreamFails \/ NoMoreChunks \/ PartsCounted
             \/ PartsMiscounted \/ PartsUnlisted \/ CommitAnswered \/ CommitFails)
        => IInv'
<1> SUFFICES ASSUME IInv, ChunkPanics \/ StreamFails \/ NoMoreChunks \/ PartsCounted
                         \/ PartsMiscounted \/ PartsUnlisted \/ CommitAnswered
                         \/ CommitFails
             PROVE  IInv'
    OBVIOUS
<1> USE DEF EndFrom, session, local, service, AfterFailedRead
<1>1. UNCHANGED <<fileSize, streamSize, partSize, totalParts, chunk, parts, fileHash,
                  lastIndex, stored, file>>
    BY DEF ChunkPanics, StreamFails, NoMoreChunks, PartsCounted, PartsMiscounted,
           PartsUnlisted, CommitAnswered, CommitFails
<1>2. emitted' \in 0 .. fileSize
    <2>1. emitted \in 0 .. fileSize /\ fileSize \in Nat /\ partSize \in Int
        BY SizesAssumption DEF IInv, TypeOK
    <2>2. CASE StreamFails
        BY <2>1, <2>2 DEF StreamFails, ChunkSize, Remaining
    <2> QED BY <2>1, <2>2
            DEF ChunkPanics, NoMoreChunks, PartsCounted, PartsMiscounted,
                PartsUnlisted, CommitAnswered, CommitFails
<1>3. TypeOK'
    BY <1>1, <1>2
       DEF IInv, TypeOK, Locations, ChunkPanics, StreamFails, NoMoreChunks,
           PartsCounted, PartsMiscounted, PartsUnlisted, CommitAnswered, CommitFails
<1>4. FreshInv' /\ PartSizeInv'
    BY <1>1
       DEF IInv, FreshInv, PartSizeInv, ChunkPanics, StreamFails, NoMoreChunks,
           PartsCounted, PartsMiscounted, PartsUnlisted, CommitAnswered, CommitFails
<1>5. FileInv'
    BY <1>1
       DEF IInv, FileInv, ChunkPanics, StreamFails, NoMoreChunks, Committed,
           PartsCounted, PartsMiscounted, PartsUnlisted, CommitAnswered, CommitFails
<1>6. DigestInv'
    <2>1. CASE NoMoreChunks
        <3>1. emitted = fileSize
            BY <2>1, SizesAssumption DEF NoMoreChunks, Exhausted, IInv, TypeOK
        <3> QED BY <1>1, <2>1, <3>1 DEF NoMoreChunks, IInv, DigestInv
    <2> QED BY <1>1, <2>1
            DEF IInv, DigestInv, ChunkPanics, StreamFails,
                PartsCounted, PartsMiscounted, PartsUnlisted, CommitAnswered, CommitFails
<1>7. PartsInv' /\ StoredInv' /\ VerifiedIsStored'
    BY <1>1 DEF IInv, PartsInv, StoredInv, VerifiedIsStored
<1> QED BY <1>3, <1>4, <1>5, <1>6, <1>7 DEF IInv

\* A part that is stored and not verified ends the call; it cannot lie where a
\* verified part does.
LEMMA RejectStep == IInv /\ (PartRejected \/ PartUnanswered) => IInv'
<1> SUFFICES ASSUME IInv, PartRejected \/ PartUnanswered PROVE IInv'
    OBVIOUS
<1> USE DEF EndFrom, session, local, service
<1>1. /\ pc = "upload" /\ pc' \in {"error", "panic"}
      /\ UNCHANGED <<fileSize, streamSize, partSize, totalParts, emitted, chunk, parts,
                     fileHash, lastIndex, requested, file>>
      /\ stored' = stored \/ \E part \in Arriving : stored' = Put(part)
    BY DEF PartRejected, PartUnanswered
<1>2. CASE stored' = stored
    BY <1>1, <1>2
       DEF IInv, TypeOK, Locations, FreshInv, DigestInv, PartSizeInv, PartsInv,
           StoredInv, VerifiedIsStored, FileInv
<1>3. ASSUME NEW part \in Arriving, stored' = Put(part) PROVE IInv'
    <2>1. /\ part \in Part /\ part.offset = lastIndex + 1
          /\ lastIndex \in Int /\ parts \in Seq(Part) /\ stored \subseteq Part
        <3>1. /\ chunk.size \in Int /\ lastIndex \in Int /\ chunk \in Content
              /\ parts \in Seq(Part) /\ stored \subseteq Part
            BY SizesAssumption DEF IInv, TypeOK, Content
        <3> QED BY <3>1 DEF Arriving, BytesStart, BytesEnd, Part, Sha1
    <2>2. TypeOK'
        BY <1>1, <1>3, <2>1 DEF IInv, TypeOK, Locations, Put
    <2>3. FreshInv' /\ DigestInv' /\ PartSizeInv' /\ PartsInv' /\ FileInv'
        BY <1>1 DEF IInv, FreshInv, DigestInv, PartSizeInv, PartsInv, FileInv
    <2>4. StoredInv'
        BY <1>3 DEF IInv, StoredInv, Put
    <2>5. VerifiedIsStored'
        <3>1. ASSUME NEW i \in 1 .. Len(parts) PROVE parts[i] \in Put(part)
            <4>1. parts[i] \in stored /\ parts[i] \in Part
                BY <2>1 DEF IInv, VerifiedIsStored
            <4>2. parts[i].offset + parts[i].size <= lastIndex + 1 /\ parts[i].size > 0
                BY DEF IInv, PartsInv
            <4>3. parts[i].offset # part.offset
                BY <2>1, <4>1, <4>2 DEF Part
            <4> QED BY <4>1, <4>3 DEF Put
        <3> QED BY <1>1, <1>3, <3>1 DEF VerifiedIsStored
    <2> QED BY <2>2, <2>3, <2>4, <2>5 DEF IInv
<1> QED BY <1>1, <1>2, <1>3

\* What the service assembles from the parts it holds is what was verified.
LEMMA AssembledContents ==
    IInv => [i \in 1 .. Len(parts) |-> Held(parts[i]).sha1] = fileHash
<1> SUFFICES ASSUME IInv
             PROVE  [i \in 1 .. Len(parts) |-> Held(parts[i]).sha1] = fileHash
    OBVIOUS
<1>1. ASSUME NEW i \in 1 .. Len(parts) PROVE Held(parts[i]) = parts[i]
    <2>1. parts[i] \in stored
        BY DEF IInv, VerifiedIsStored
    <2>2. Held(parts[i]) \in stored /\ Held(parts[i]).offset = parts[i].offset
        BY <2>1 DEF Held
    <2> QED BY <2>1, <2>2 DEF IInv, StoredInv
<1>2. ASSUME NEW i \in 1 .. Len(parts) PROVE Held(parts[i]).sha1 = fileHash[i]
    BY <1>1, <1>2 DEF IInv, PartsInv
<1>3. fileHash = [i \in 1 .. Len(parts) |-> fileHash[i]]
    BY DEF IInv, TypeOK, PartsInv
<1> QED BY <1>2, <1>3

LEMMA AssembleStep == IInv /\ Assemble => IInv'
<1> SUFFICES ASSUME IInv, Assemble PROVE IInv'
    OBVIOUS
<1> USE DEF session, local
<1>1. file' = [exists |-> TRUE, contents |-> fileHash]
    BY AssembledContents DEF Assemble
<1>2. fileHash \in Seq(Content) /\ Covers(fileHash, fileSize)
    BY DEF Assemble, IInv, TypeOK, DigestInv
<1>3. UNCHANGED <<pc, fileSize, streamSize, partSize, totalParts, emitted, chunk, parts,
                  fileHash, lastIndex, stored, requested>> /\ requested
    BY DEF Assemble
<1>4. fileHash \in Seq(Sha1)
    BY <1>2 DEF Sha1
<1>5. TypeOK'
    BY <1>1, <1>3, <1>4 DEF IInv, TypeOK
<1>6. FileInv'
    BY <1>1, <1>2, <1>3 DEF IInv, FileInv
<1>7. FreshInv' /\ DigestInv' /\ PartSizeInv' /\ PartsInv' /\ StoredInv' /\ VerifiedIsStored'
    BY <1>3 DEF IInv, FreshInv, DigestInv, PartSizeInv, PartsInv, StoredInv, VerifiedIsStored
<1> QED BY <1>5, <1>6, <1>7 DEF IInv

LEMMA Inductive == IInv /\ [Next]_vars => IInv'
<1> SUFFICES ASSUME IInv, [Next]_vars PROVE IInv'
    OBVIOUS
<1>1. CASE UploadBigFile
    BY <1>1, SessionStep, ReadStep, VerifyStep, RejectStep, QuietStep DEF UploadBigFile
<1>2. CASE Assemble
    BY <1>2, AssembleStep
<1>3. CASE UNCHANGED vars
    BY <1>3
       DEF vars, session, local, service, IInv, TypeOK, FreshInv, DigestInv,
           PartSizeInv, PartsInv, StoredInv, VerifiedIsStored, FileInv
<1> QED BY <1>1, <1>2, <1>3 DEF Next

LEMMA Invariance == Spec => []IInv
<1>1. Init => IInv
    BY InitIInv
<1>2. IInv /\ [Next]_vars => IInv'
    BY Inductive
<1> QED BY <1>1, <1>2, PTL DEF Spec
-----------------------------------------------------------------------------
\* The variables of UploadBigFile keep their types: no chunk reaches beyond the
\* announced size, whatever part size the service chose (chunks.go:27-35).
THEOREM TypeCorrect == Spec => []TypeOK
<1>1. IInv => TypeOK
    BY DEF IInv
<1> QED BY <1>1, Invariance, PTL

\* A commit asks for the whole file (chunked_uploads.go:261).
THEOREM CommitIsWhole == Spec => []CommitIsWholeFile
<1>1. IInv => CommitIsWholeFile
    <2> SUFFICES ASSUME IInv, requested PROVE CommitIsWholeFile
        BY DEF CommitIsWholeFile
    <2>1. Contents = fileHash
        <3>1. fileHash = [i \in 1 .. Len(parts) |-> fileHash[i]]
            BY DEF IInv, TypeOK, PartsInv
        <3> QED BY <3>1 DEF IInv, PartsInv, Contents
    <2>2. Covers(fileHash, fileSize)
        BY DEF IInv, DigestInv
    <2> QED BY <2>1, <2>2 DEF CommitIsWholeFile, IInv, PartsInv
<1> QED BY <1>1, Invariance, PTL

\* A verified part stays in the session as it was verified
\* (chunked_uploads.go:222-249).
THEOREM VerifiedStays == Spec => []VerifiedIsStored
<1>1. IInv => VerifiedIsStored
    BY DEF IInv
<1> QED BY <1>1, Invariance, PTL
-----------------------------------------------------------------------------
(* The number of parts.  All chunks but the last are of the part size, so   *)
(* there are no more of them than were announced to suffice.                *)
Busy == pc \in {"next", "upload", "list"} \/ requested

CountInv ==
    /\ Busy =>
         /\ totalParts \in Nat
         /\ partSize > 0 => partSize * totalParts >= fileSize
         /\ IsFiniteSet(stored) /\ Cardinality(stored) = Len(parts)
         /\ Len(parts) > 0 => partSize > 0 /\ (Len(parts) - 1) * partSize < fileSize
    /\ pc \in {"next", "upload"} => \A p \in stored : p.offset <= lastIndex
    /\ pc = "next" => emitted = fileSize \/ emitted = Len(parts) * partSize
    /\ pc = "upload" =>
         /\ partSize > 0
         /\ chunk.start < fileSize
         /\ chunk.start = Len(parts) * partSize
         /\ emitted = fileSize \/ chunk.size = partSize
    /\ pc = "session" => stored = {} /\ ~requested
    /\ requested => Len(parts) >= totalParts

\* An overflow makes the product small, never large enough.
LEMMA WrappedIsSmall == \A n \in Nat : Wrapped(n) \in Int /\ Wrapped(n) <= n
<1> SUFFICES ASSUME NEW n \in Nat PROVE Wrapped(n) \in Int /\ Wrapped(n) <= n
    OBVIOUS
<1>1. IntLimit \in Nat /\ IntLimit > 0
    BY SizesAssumption
<1>2. CASE n \in -IntLimit .. IntLimit - 1
    BY <1>2 DEF Wrapped
<1>3. CASE n \notin -IntLimit .. IntLimit - 1
    <2>1. n >= IntLimit
        BY <1>1, <1>3
    <2>2. \A x, y \in Int : y > 0 => x % y \in 0 .. y - 1
        OBVIOUS
    <2>3. (n + IntLimit) % (2 * IntLimit) \in 0 .. 2 * IntLimit - 1
        BY <1>1, <2>2
    <2> QED
        BY <1>1, <1>3, <2>1, <2>3 DEF Wrapped
<1> QED
    BY <1>2, <1>3

LEMMA ProductIsNatural == \A a \in Int, b \in Nat : a > 0 => a * b \in Nat
OBVIOUS

LEMMA CountStep == IInv /\ CountInv /\ [Next]_vars => CountInv'
<1> SUFFICES ASSUME IInv, CountInv, [Next]_vars PROVE CountInv'
    OBVIOUS
<1> USE DEF EndFrom, session, local, service
<1>0. /\ fileSize \in Nat /\ partSize \in Int /\ totalParts \in Int
      /\ emitted \in 0 .. fileSize /\ parts \in Seq(Part) /\ lastIndex \in Int
      /\ Len(parts) \in Nat /\ stored \subseteq Part
      /\ requested => pc \in {"commit", "file", "error"}
    BY SizesAssumption DEF IInv, TypeOK, FileInv
<1>1. CASE SessionCreated
    <2>0. /\ pc = "session"
          /\ partSize' \in PartSizes
          /\ totalParts' \in PartTotals
          /\ \/ pc' \in {"error", "panic"}
             \/ Sufficient /\ Allocatable /\ pc' = "next"
          /\ UNCHANGED <<fileSize, emitted, parts, stored, requested>>
        BY <1>1 DEF SessionCreated
    <2>1. parts = <<>> /\ stored = {} /\ ~requested /\ emitted = 0
        BY <2>0 DEF IInv, FreshInv, CountInv
    <2>2. IsFiniteSet({}) /\ Cardinality({}) = 0
        BY FS_EmptySet
    <2>3. CASE pc' = "next"
        <3>1. totalParts' \in Nat /\ partSize' \in Int
            BY <2>0, <2>3, SizesAssumption DEF Allocatable
        <3>2. ASSUME partSize' > 0 PROVE partSize' * totalParts' >= fileSize
            <4> DEFINE n == partSize' * totalParts'
            <4>1. n \in Nat
                BY <3>1, <3>2, ProductIsNatural
            <4>2. Wrapped(n) >= fileSize
                BY <2>0, <2>3 DEF Sufficient
            <4> HIDE DEF n
            <4>3. n >= fileSize
                BY <1>0, <4>1, <4>2, WrappedIsSmall
            <4> QED
                BY <4>3 DEF n
        <3>3. UNCHANGED <<fileSize, emitted, parts, stored, requested>>
            BY <2>0
        <3>4. emitted' = 0 /\ stored' = {} /\ ~requested' /\ parts' = <<>>
            BY <2>1, <3>3
        <3>5. Len(parts') = 0
            BY <3>4
        <3>6. \A x \in Int : 0 * x = 0
            OBVIOUS
        <3>7. emitted' = Len(parts') * partSize'
            BY <3>1, <3>4, <3>5, <3>6
        <3>8. IsFiniteSet(stored') /\ Cardinality(stored') = Len(parts')
            BY <2>2, <3>4, <3>5
        <3>9. ~(Len(parts') > 0) /\ \A p \in stored' : p.offset <= lastIndex'
            BY <3>4, <3>5
        <3>10. partSize' > 0 => partSize' * totalParts' >= fileSize'
            BY <3>2, <3>3
        <3> QED
            BY <2>3, <3>1, <3>4, <3>7, <3>8, <3>9, <3>10 DEF CountInv, Busy
    <2>4. CASE pc' # "next"
        BY <2>0, <2>1, <2>4 DEF CountInv, Busy
    <2> QED
        BY <2>3, <2>4
<1>2. CASE NextChunk
    <2> USE <1>2 DEF NextChunk, ReadFull
    <2>1. pc = "next" /\ emitted < fileSize /\ partSize # 0 /\ ChunkSize >= 0 /\ ~requested
        BY <1>0 DEF Exhausted, IInv, PartSizeInv
    <2>2. partSize > 0 /\ ChunkSize \in Nat /\ emitted = Len(parts) * partSize
        BY <1>0, <2>1 DEF ChunkSize, Remaining, CountInv
    <2>3. ChunkSize = partSize \/ emitted + ChunkSize = fileSize
        BY <1>0, <2>1 DEF ChunkSize, Remaining
    <2> HIDE DEF ChunkSize
    <2>4. /\ chunk' = [start |-> emitted, size |-> ChunkSize] /\ emitted' = emitted + ChunkSize
          /\ pc' = "upload"
          /\ UNCHANGED <<fileSize, partSize, totalParts, parts, lastIndex, stored, requested>>
        OBVIOUS
    <2> QED
        BY <1>0, <2>1, <2>2, <2>3, <2>4 DEF CountInv, Busy
<1>3. CASE PartVerified
    <2>1. PICK part \in Arriving :
            /\ stored' = Put(part)
            /\ \E answer \in Answers(part) : Verified(answer) /\ parts' = Append(parts, answer)
        BY <1>3 DEF PartVerified
    <2>2. stored' = Put(Whole) /\ parts' = Append(parts, Whole)
        BY <2>1, VerifiedIsWhole DEF IInv
    <2>3. /\ pc = "upload" /\ pc' = "next" /\ lastIndex' = BytesEnd /\ ~requested
          /\ UNCHANGED <<fileSize, partSize, totalParts, emitted, requested>>
        BY <1>0, <1>3 DEF PartVerified
    <2>4. /\ chunk.start \in Nat /\ chunk.size \in Nat /\ chunk.size > 0
          /\ lastIndex + 1 = chunk.start /\ emitted = chunk.start + chunk.size
        BY <2>3 DEF IInv, DigestInv, TypeOK, Content
    <2>5. /\ Whole \in Part /\ Whole.offset = lastIndex + 1
        BY WholeIsPart DEF IInv, Whole, BytesStart
    <2>6. \A p \in stored : p.offset \in Int /\ p.offset <= lastIndex
        BY <1>0, <2>3 DEF CountInv, Part
    <2>7. stored' = stored \cup {Whole} /\ Whole \notin stored
        BY <1>0, <2>2, <2>5, <2>6 DEF Put
    <2>8. IsFiniteSet(stored) /\ Cardinality(stored) = Len(parts)
        BY <2>3 DEF CountInv, Busy
    <2>9. IsFiniteSet(stored') /\ Cardinality(stored') = Len(parts) + 1
        BY <2>7, <2>8, FS_AddElement
    <2>10. Len(parts') = Len(parts) + 1
        BY <1>0, <2>2, <2>5
    <2>11. lastIndex' = lastIndex + chunk.size
        BY <2>3 DEF BytesEnd
    <2>12. \A p \in stored' : p.offset <= lastIndex'
        BY <1>0, <2>4, <2>5, <2>6, <2>7, <2>11
    <2>13. /\ partSize > 0 /\ chunk.start < fileSize /\ chunk.start = Len(parts) * partSize
           /\ emitted = fileSize \/ chunk.size = partSize
           /\ totalParts \in Nat /\ partSize * totalParts >= fileSize
        BY <2>3 DEF CountInv, Busy
    <2>14. (Len(parts) + 1) * partSize = Len(parts) * partSize + partSize
        BY <1>0
    <2>15. emitted' = fileSize' \/ emitted' = Len(parts') * partSize'
        BY <1>0, <2>3, <2>4, <2>10, <2>13, <2>14
    <2>16. (Len(parts') - 1) * partSize' < fileSize'
        BY <1>0, <2>3, <2>10, <2>13
    <2> QED
        BY <2>3, <2>9, <2>10, <2>12, <2>13, <2>15, <2>16 DEF CountInv, Busy
<1>4. CASE PartsCounted
    <2>1. /\ pc = "list" /\ pc' = "commit" /\ requested'
          /\ UNCHANGED <<fileSize, partSize, totalParts, emitted, chunk, parts, lastIndex, stored>>
          /\ \E count \in 0 .. Cardinality(stored) : count = totalParts
        BY <1>4 DEF PartsCounted, AllParts
    <2>2. Cardinality(stored) = Len(parts)
        BY <2>1 DEF CountInv, Busy
    <2> QED
        BY <1>0, <2>1, <2>2 DEF CountInv, Busy
<1>5. CASE NoMoreChunks \/ PartsMiscounted \/ PartsUnlisted \/ CommitAnswered \/ CommitFails
           \/ Assemble \/ UNCHANGED vars
    <2>1. /\ UNCHANGED <<fileSize, partSize, totalParts, emitted, chunk, parts, lastIndex,
                         stored, requested>>
          /\ \/ pc = "next" /\ pc' = "list"
             \/ pc \in {"list", "commit"} /\ pc' \in {"error", "panic", "file"}
             \/ pc' = pc
        BY <1>5
           DEF NoMoreChunks, PartsMiscounted, PartsUnlisted, CommitAnswered, CommitFails,
               Assemble, vars
    <2> QED
        BY <1>0, <2>1 DEF CountInv, Busy
<1>6. CASE SessionRefused \/ ChunkPanics \/ StreamFails \/ PartRejected \/ PartUnanswered
    <2>1. pc' \in {"error", "panic"} /\ ~requested'
        BY <1>0, <1>6
           DEF SessionRefused, ChunkPanics, StreamFails, AfterFailedRead, PartRejected,
               PartUnanswered, CountInv
    <2> QED
        BY <2>1 DEF CountInv, Busy
<1> QED
    BY <1>1, <1>2, <1>3, <1>4, <1>5, <1>6 DEF Next, UploadBigFile

\* A commit lists as many parts as were announced, whatever the lag of the
\* listing and the width of the integers (chunked_uploads.go:196, 256).
THEOREM CommitIsComplete == Spec => []CommitHasAllParts
<1>1. Init => CountInv
    BY DEF Init, CountInv, Busy
<1>2. IInv /\ CountInv => CommitHasAllParts
    <2> SUFFICES ASSUME IInv, CountInv, requested PROVE Len(parts) = totalParts
        BY DEF CommitHasAllParts
    <2>1. Len(parts) \in Nat /\ partSize \in Int /\ fileSize \in Nat
        BY SizesAssumption DEF IInv, TypeOK
    <2>2. totalParts \in Nat /\ Len(parts) >= totalParts
        BY DEF CountInv, Busy
    <2>3. CASE Len(parts) > 0
        <3>1. /\ partSize > 0 /\ partSize * totalParts >= fileSize
              /\ (Len(parts) - 1) * partSize < fileSize
            BY <2>3 DEF CountInv, Busy
        <3>2. \A a, b, c \in Int : c > 0 /\ a <= b => c * a <= b * c
            OBVIOUS
        <3>3. ~(totalParts <= Len(parts) - 1)
            BY <2>1, <2>2, <3>1, <3>2
        <3> QED
            BY <2>1, <2>2, <3>3
    <2> QED
        BY <2>1, <2>2, <2>3
<1> QED
    BY <1>1, <1>2, CountStep, Invariance, PTL DEF Spec

\* A step that neither asks for the commit nor assembles nor returns the file
\* is a stutter or a failure of the abstract upload.
LEMMA OtherSteps ==
    ASSUME UNCHANGED <<fileSize, requested, file>>,
           pc \in {"session", "next", "upload", "list", "commit"},
           pc' \in {"session", "next", "upload", "list", "commit", "error", "panic"}
    PROVE  [Atomic!Next]_Atomic!vars
<1>1. CASE pc' \in {"error", "panic"}
    BY <1>1 DEF Atomic!Next, Atomic!Fail, Atomic!Running
<1>2. CASE pc' \notin {"error", "panic"}
    BY <1>2 DEF Atomic!vars
<1> QED BY <1>1, <1>2

\* UploadBigFile is atomic: it implements AtomicUpload
\* (chunked_uploads.go:176-269).
THEOREM Refinement == Spec => UploadIsAtomic
<1>1. Init => Atomic!Init
    BY DEF Init, Atomic!Init, NoFile
<1>2. ASSUME IInv, [Next]_vars PROVE [Atomic!Next]_Atomic!vars
    <2> USE <1>2 DEF EndFrom, session, local, service
    <2>1. CASE PartsCounted
        <3>1. pc = "list" /\ pc' = "commit" /\ requested' = TRUE /\ UNCHANGED <<fileSize, file>>
            BY <2>1 DEF PartsCounted
        <3>2. ~requested
            BY <3>1 DEF IInv, FileInv, TypeOK
        <3> QED BY <3>1, <3>2 DEF IInv, TypeOK, Atomic!Next, Atomic!Request, Atomic!Running
    <2>2. CASE Assemble
        <3>1. /\ requested /\ ~file.exists /\ file'.exists
              /\ UNCHANGED <<pc, fileSize, requested>>
            BY <2>2 DEF Assemble
        <3>2. Covers(file'.contents, fileSize')
            BY <2>2, <3>1, AssembleStep DEF IInv, FileInv
        <3> QED BY <3>1, <3>2 DEF Atomic!Next, Atomic!Assemble
    <2>3. CASE CommitAnswered
        <3>1. /\ pc = "commit" /\ pc' = "file" /\ file.exists
              /\ UNCHANGED <<fileSize, requested, file>>
            BY <2>3 DEF CommitAnswered, Committed
        <3>2. Covers(file.contents, fileSize)
            BY <3>1 DEF IInv, FileInv
        <3> QED BY <3>1, <3>2 DEF Atomic!Next, Atomic!Return, Atomic!Running
    <2>4. CASE UNCHANGED vars
        BY <2>4 DEF vars, Atomic!vars
    <2>5. CASE SessionRefused \/ SessionCreated \/ NextChunk \/ ChunkPanics \/ StreamFails
               \/ NoMoreChunks
        BY <2>5, OtherSteps
           DEF SessionRefused, SessionCreated, NextChunk, ChunkPanics, StreamFails,
               NoMoreChunks, AfterFailedRead
    <2>6. CASE PartVerified \/ PartRejected \/ PartUnanswered \/ PartsMiscounted
               \/ PartsUnlisted \/ CommitFails
        BY <2>6, OtherSteps
           DEF PartVerified, PartRejected, PartUnanswered, PartsMiscounted,
               PartsUnlisted, CommitFails
    <2> QED BY <2>1, <2>2, <2>3, <2>4, <2>5, <2>6 DEF Next, UploadBigFile
<1> QED BY <1>1, <1>2, Invariance, PTL DEF Spec, UploadIsAtomic, Atomic!Spec
-----------------------------------------------------------------------------
\* A chunk is read, and it is not empty.
LEMMA ChunkLeavesLess == IInv /\ NextChunk => UploadLeft' \in 0 .. (UploadLeft - 1)
<1> SUFFICES ASSUME IInv, NextChunk PROVE UploadLeft' \in 0 .. (UploadLeft - 1)
    OBVIOUS
<1>1. /\ partSize \in Int /\ fileSize \in Nat /\ emitted \in 0 .. fileSize
      /\ emitted < fileSize /\ partSize # 0 /\ ChunkSize >= 0 /\ pc = "next"
    BY SizesAssumption DEF IInv, TypeOK, PartSizeInv, NextChunk, Exhausted
<1>2. ChunkSize \in 1 .. fileSize - emitted
    BY <1>1 DEF ChunkSize, Remaining
<1>3. emitted' = emitted + ChunkSize /\ fileSize' = fileSize /\ pc' = "upload"
    BY DEF NextChunk, ReadFull
<1> HIDE DEF ChunkSize
<1>4. Stage[pc] = 3 /\ Stage[pc'] = 4
    BY <1>1, <1>3 DEF Stage
<1> QED BY <1>1, <1>2, <1>3, <1>4 DEF UploadLeft

\* The call goes on with what it has read, or ends.
LEMMA OthersLeaveLess ==
    IInv /\ UploadBigFile /\ ~NextChunk => UploadLeft' \in 0 .. (UploadLeft - 1)
<1> SUFFICES ASSUME IInv, UploadBigFile, ~NextChunk
             PROVE  UploadLeft' \in 0 .. (UploadLeft - 1)
    OBVIOUS
<1> USE DEF EndFrom, session, local, service, AfterFailedRead
<1>1. fileSize \in Nat /\ emitted \in 0 .. fileSize /\ partSize \in Int
    BY SizesAssumption DEF IInv, TypeOK
<1>2. Stage[pc] \in 0 .. 4 /\ Stage[pc'] \in 0 .. 4 /\ Stage[pc'] < Stage[pc]
    BY DEF UploadBigFile, SessionRefused, SessionCreated, ChunkPanics, StreamFails,
           NoMoreChunks, PartVerified, PartRejected, PartUnanswered, PartsCounted,
           PartsMiscounted, PartsUnlisted, CommitAnswered, CommitFails, Stage
<1>3. fileSize' = fileSize
    BY DEF UploadBigFile, SessionRefused, SessionCreated, ChunkPanics, StreamFails,
           NoMoreChunks, PartVerified, PartRejected, PartUnanswered, PartsCounted,
           PartsMiscounted, PartsUnlisted, CommitAnswered, CommitFails
<1>4. emitted' \in emitted .. fileSize
    <2>1. CASE StreamFails
        BY <1>1, <2>1 DEF StreamFails, ChunkSize, Remaining
    <2>2. CASE ~StreamFails
        BY <1>1, <2>2
           DEF UploadBigFile, SessionRefused, SessionCreated, ChunkPanics, NoMoreChunks,
               PartVerified, PartRejected, PartUnanswered, PartsCounted,
               PartsMiscounted, PartsUnlisted, CommitAnswered, CommitFails
    <2> QED BY <2>1, <2>2
<1> QED BY <1>1, <1>2, <1>3, <1>4 DEF UploadLeft

\* The loop over the chunks ends, whatever sizes the service announces and
\* however they overflow.
THEOREM UploadEnds == Spec => UploadRunsOut
<1>1. IInv /\ [Next]_vars => [Assemble \/ UploadLeft' \in 0 .. (UploadLeft - 1)]_vars
    BY ChunkLeavesLess, OthersLeaveLess DEF Next
<1> QED BY <1>1, Invariance, PTL DEF Spec, UploadRunsOut
=============================================================================
