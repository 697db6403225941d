---------------------------- MODULE ChunkedUpload ---------------------------
(***************************************************************************)
(* One call of UploadBigFile (managers/chunked_uploads.go) and the upload  *)
(* session of the Box service: create the session, send the stream chunk   *)
(* by chunk, compare what the service says it stored with what was sent,   *)
(* compare the number of parts, commit.  The service may refuse anything,  *)
(* store a chunk damaged, answer with other fields, with nothing, or not   *)
(* at all; the stream may be shorter or longer than announced, or fail.    *)
(*                                                                         *)
(* The content of a chunk is where in the stream it was read, and stands   *)
(* for its SHA1; the digest of the whole file is the sequence of contents  *)
(* folded into it.                                                         *)
(***************************************************************************)
EXTENDS Integers, Sequences, FiniteSets

CONSTANTS
    FileSizes,      \* values of the fileSize argument
    StreamSizes,    \* bytes the stream really holds
    PartSizes,      \* part_size of the sessions the service creates
    PartTotals,     \* total_parts of these sessions
    IntLimit,       \* int64 holds -IntLimit .. IntLimit - 1
    MaxCapacity     \* the largest slice make() allocates

ASSUME SizesAssumption ==
    /\ FileSizes \subseteq Nat
    /\ StreamSizes \subseteq Nat
    /\ PartSizes \subseteq Int
    /\ PartTotals \subseteq Int
    /\ IntLimit \in Nat \ {0}
    /\ MaxCapacity \in Nat

Content == [start : Nat, size : Nat]
Damaged == [start |-> -1, size |-> 0]     \* what no chunk of the stream holds
Sha1    == Content \cup {Damaged}
Part    == [offset : Int, size : Int, sha1 : Sha1]

Locations ==
    {"session", "next", "upload", "list", "commit", "file", "error", "panic"}

VARIABLES
    pc,           \* where the call is, or how it ended
    fileSize,     \* argument of the call
    streamSize,   \* what the io.Reader will yield
    partSize,     \* of the session
    totalParts,   \* of the session
    emitted,      \* ChunkIterator.emitted
    chunk,        \* content of the chunk read last
    parts,        \* the verified parts
    fileHash,     \* contents folded into the whole-file SHA1
    lastIndex,    \* index of the last byte uploaded
    stored,       \* the service: parts of the session
    requested,    \* the service: the commit request has reached it
    file          \* the service: whether the file exists, its contents

session == <<partSize, totalParts>>
local   == <<chunk, parts, fileHash, lastIndex>>
service == <<stored, requested, file>>
vars == <<pc, fileSize, streamSize, session, emitted, local, service>>

TypeOK ==
    /\ pc \in Locations
    /\ fileSize \in FileSizes
    /\ streamSize \in StreamSizes
    /\ partSize \in PartSizes \cup {0}
    /\ totalParts \in PartTotals \cup {0}
    /\ emitted \in 0 .. fileSize
    /\ chunk \in Content
    /\ parts \in Seq(Part)
    /\ fileHash \in Seq(Content)
    /\ lastIndex \in -1 .. fileSize
    /\ stored \subseteq Part
    /\ requested \in BOOLEAN
    /\ file \in [exists : BOOLEAN, contents : Seq(Sha1)]

NoFile == [exists |-> FALSE, contents |-> <<>>]

Init ==
    /\ pc = "session"
    /\ fileSize \in FileSizes
    /\ streamSize \in StreamSizes
    /\ partSize = 0
    /\ totalParts = 0
    /\ emitted = 0
    /\ chunk = [start |-> 0, size |-> 0]
    /\ parts = <<>>
    /\ fileHash = <<>>
    /\ lastIndex = -1
    /\ stored = {}
    /\ requested = FALSE
    /\ file = NoFile
-----------------------------------------------------------------------------
\* The call ends: in an error when an exchange is refused or lost, when its
\* answer lacks a field or an assertion on it fails; in a panic when the answer
\* decodes to nil and is dereferenced.
EndFrom(from, to) == pc = from /\ pc' = to

(* CreateFileUploadSession, and the assertions on its answer.               *)
Wrapped(n) ==
    IF n \in -IntLimit .. IntLimit - 1 THEN n
    ELSE ((n + IntLimit) % (2 * IntLimit)) - IntLimit

\* Mutant: the announced sizes are not asserted to hold the file.
NotAsserted == TRUE

Sufficient == Wrapped(partSize' * totalParts') >= fileSize

\* make([]UploadPart, 0, totalParts) panics beyond its range.
Allocatable == totalParts' \in 0 .. MaxCapacity

SessionRefused ==
    /\ EndFrom("session", "error") \/ EndFrom("session", "panic")
    /\ UNCHANGED <<fileSize, streamSize, session, emitted, local, service>>

SessionCreated ==
    /\ pc = "session"
    /\ partSize' \in PartSizes
    /\ totalParts' \in PartTotals
    /\ \/ ~Sufficient /\ pc' = "error"
       \/ Sufficient /\ ~Allocatable /\ pc' = "panic"
       \/ Sufficient /\ Allocatable /\ pc' = "next"
    /\ UNCHANGED <<fileSize, streamSize, emitted, local, service>>
-----------------------------------------------------------------------------
(* ChunkIterator.Next: io.ReadFull of a chunk, the last one shorter.        *)
Exhausted == emitted >= fileSize
Remaining == fileSize - emitted

\* Mutant: the last chunk is not cut to the announced size.
FullChunk == partSize

ChunkSize == IF Remaining < partSize THEN Remaining ELSE partSize

Available == streamSize - emitted

\* Mutant: Read for ReadFull, the buffer is sent although it was not filled.
ReadSome(n) ==
    /\ chunk' = [start |-> emitted, size |-> n]
    /\ \E got \in 1 .. n : got <= Available /\ emitted' = emitted + got

ReadFull(n) ==
    /\ n <= Available
    /\ chunk' = [start |-> emitted, size |-> n]
    /\ emitted' = emitted + n

NextChunk ==
    /\ pc = "next"
    /\ ~Exhausted
    /\ ChunkSize >= 0
    /\ ReadFull(ChunkSize)
    /\ pc' = "upload"
    /\ UNCHANGED <<fileSize, streamSize, session, parts, fileHash, lastIndex, service>>

\* make([]byte, size) of a negative size.
ChunkPanics ==
    /\ ~Exhausted
    /\ ChunkSize < 0
    /\ EndFrom("next", "panic")
    /\ UNCHANGED <<fileSize, streamSize, session, emitted, local, service>>

\* Mutant: the end of the stream is not an error, the loop reads on.
ReadAgain == "next"

AfterFailedRead == "error"

\* The stream ends early or fails after n bytes of the chunk.
StreamFails ==
    /\ ~Exhausted
    /\ \E n \in 0 .. ChunkSize - 1 : n <= Available /\ emitted' = emitted + n
    /\ EndFrom("next", AfterFailedRead)
    /\ UNCHANGED <<fileSize, streamSize, session, local, service>>

NoMoreChunks ==
    /\ pc = "next"
    /\ Exhausted
    /\ pc' = "list"
    /\ UNCHANGED <<fileSize, streamSize, session, emitted, local, service>>
-----------------------------------------------------------------------------
(* UploadFilePartByURL.  The network client may send the chunk several      *)
(* times; what arrives last at an offset is what is stored there.           *)
BytesStart == lastIndex + 1
BytesEnd   == lastIndex + chunk.size

Arriving ==
    [offset : {BytesStart}, size : {BytesEnd - BytesStart + 1}, sha1 : {chunk, Damaged}]

Put(part) == {other \in stored : other.offset # part.offset} \cup {part}

\* The answer speaks of the part that was stored, but may get fields wrong.
Answers(part) ==
    {part, [part EXCEPT !.offset = @ + 1], [part EXCEPT !.size = @ - 1],
     [part EXCEPT !.sha1 = Damaged]}

\* Mutant: the SHA1 of the stored part is not compared.
VerifiedButSha1(part) == part.size = chunk.size /\ part.offset = BytesStart

Verified(part) ==
    part.sha1 = chunk /\ part.size = chunk.size /\ part.offset = BytesStart

PartVerified ==
    /\ pc = "upload"
    /\ \E part \in Arriving :
         /\ stored' = Put(part)
         /\ \E answer \in Answers(part) :
              Verified(answer) /\ parts' = Append(parts, answer)
    /\ fileHash' = Append(fileHash, chunk)
    /\ lastIndex' = BytesEnd
    /\ pc' = "next"
    /\ UNCHANGED <<fileSize, streamSize, session, emitted, chunk, requested, file>>

PartRejected ==
    /\ pc = "upload"
    /\ \E part \in Arriving :
         /\ stored' = Put(part)
         /\ \E answer \in Answers(part) : ~Verified(answer)
    /\ pc' = "error"
    /\ UNCHANGED <<fileSize, streamSize, session, emitted, local, requested, file>>

\* No answer that decodes to a part; the chunk may have been stored.
PartUnanswered ==
    /\ EndFrom("upload", "error") \/ EndFrom("upload", "panic")
    /\ stored' \in {stored} \cup {Put(part) : part \in Arriving}
    /\ UNCHANGED <<fileSize, streamSize, session, emitted, local, requested, file>>
-----------------------------------------------------------------------------
(* GetFileUploadSessionPartsByURL: the count may lag behind.                *)
\* Mutant: more parts announced than uploaded are accepted.
EnoughParts(count) == count <= totalParts

AllParts(count) == count = totalParts

PartsCounted ==
    /\ pc = "list"
    /\ \E count \in 0 .. Cardinality(stored) : AllParts(count)
    /\ pc' = "commit"
    /\ requested' = TRUE
    /\ UNCHANGED <<fileSize, streamSize, session, emitted, local, stored, file>>

PartsMiscounted ==
    /\ \E count \in 0 .. Cardinality(stored) : ~AllParts(count)
    /\ EndFrom("list", "error")
    /\ UNCHANGED <<fileSize, streamSize, session, emitted, local, service>>

PartsUnlisted ==
    /\ EndFrom("list", "error") \/ EndFrom("list", "panic")
    /\ UNCHANGED <<fileSize, streamSize, session, emitted, local, service>>
-----------------------------------------------------------------------------
(* CreateFileUploadSessionCommitByURL.  The service puts the listed parts   *)
(* together, once, now or after it has answered 202.  Nothing rests on its  *)
(* checking of the parts and the digest in the request.                     *)
Held(part) == CHOOSE held \in stored : held.offset = part.offset

Assemble ==
    /\ requested
    /\ ~file.exists
    /\ \A i \in 1 .. Len(parts) : \E held \in stored : held.offset = parts[i].offset
    /\ file' = [exists   |-> TRUE,
                contents |-> [i \in 1 .. Len(parts) |-> Held(parts[i]).sha1]]
    /\ UNCHANGED <<pc, fileSize, streamSize, session, emitted, local, stored, requested>>

\* Mutant: a 202, which has no file to return, is taken for success.
ProcessingAccepted == TRUE

Committed == file.exists

CommitAnswered ==
    /\ pc = "commit"
    /\ Committed
    /\ pc' = "file"
    /\ UNCHANGED <<fileSize, streamSize, session, emitted, local, service>>

\* Refused, lost, still processing (202), or without an entry.
CommitFails ==
    /\ EndFrom("commit", "error")
    /\ UNCHANGED <<fileSize, streamSize, session, emitted, local, service>>
-----------------------------------------------------------------------------
UploadBigFile ==
    \/ SessionRefused \/ SessionCreated
    \/ NextChunk \/ ChunkPanics \/ StreamFails \/ NoMoreChunks
    \/ PartVerified \/ PartRejected \/ PartUnanswered
    \/ PartsCounted \/ PartsMiscounted \/ PartsUnlisted
    \/ CommitAnswered \/ CommitFails

Next == UploadBigFile \/ Assemble

Spec == Init /\ [][Next]_vars

(* Every exchange ends in an answer or an error (the retries of the network *)
(* client are bounded) and every read of the stream returns.                *)
FairSpec == Spec /\ WF_vars(UploadBigFile)
-----------------------------------------------------------------------------
(* Properties.                                                              *)

\* The contents in sequence are the stream's first n bytes, each once.
Covers(contents, n) ==
    LET end(i) == IF i = 0 THEN 0 ELSE contents[i].start + contents[i].size
    IN  /\ \A i \in 1 .. Len(contents) : contents[i].start = end(i - 1)
        /\ end(Len(contents)) = n

Contents == [i \in 1 .. Len(parts) |-> parts[i].sha1]

\* A commit asks for the whole file: its parts are, in order and each once, the
\* announced bytes of the stream, at the offsets where they belong, and its
\* digest is that of exactly these bytes (the two counters `emitted` and
\* `lastIndex`, and the three assertions at chunked_uploads.go:234-246).
CommitIsWholeFile ==
    requested =>
        /\ Covers(Contents, fileSize)
        /\ fileHash = Contents
        /\ \A i \in 1 .. Len(parts) :
             parts[i].offset = parts[i].sha1.start /\ parts[i].size = parts[i].sha1.size

\* Every part that was verified is in the session as it was verified, whatever
\* was sent after it: the ranges of different parts do not overlap
\* (chunked_uploads.go:222-224).
VerifiedIsStored == \A i \in 1 .. Len(parts) : parts[i] \in stored

\* The commit lists as many parts as the service announced for the session,
\* although the listing it was compared with may lag behind, because there can
\* be no more chunks than announced (chunked_uploads.go:196, 256).
CommitHasAllParts == requested => Len(parts) = totalParts

\* UploadBigFile is atomic: the file appears whole or not at all, once, after
\* the commit request, and is returned only if it exists.
Atomic == INSTANCE AtomicUpload WITH
    requested <- requested,
    file      <- IF ~file.exists THEN "none"
                 ELSE IF Covers(file.contents, fileSize) THEN "whole" ELSE "broken",
    outcome   <- CASE pc = "file" -> "file"
                   [] pc \in {"error", "panic"} -> "failed"
                   [] OTHER -> "running"

UploadIsAtomic == Atomic!Spec

\* UploadBigFile returns, whatever sizes the service announces: the loop makes
\* progress with every chunk (chunks.go:27-35).
UploadReturns == <>(pc \in {"file", "error", "panic"})

\* What is left of the call: two steps for each byte not yet read, and those
\* from here to the next chunk.
Stage == [session |-> 4, next |-> 3, upload |-> 4, list |-> 2, commit |-> 1,
          file |-> 0, error |-> 0, panic |-> 0]
UploadLeft == 2 * (fileSize - emitted) + Stage[pc]

\* Why the call returns: each of its steps leaves less to do, because a chunk is
\* never empty and never reaches beyond the announced size - a part size of zero
\* would read empty chunks for ever (chunked_uploads.go:196, chunks.go:27-35).
UploadRunsOut == [][Assemble \/ UploadLeft' \in 0 .. (UploadLeft - 1)]_vars
=============================================================================
