------------------------------ MODULE Downloads ------------------------------
(***************************************************************************)
(* DownloadFile and GetDownloadFileURL (managers/downloads.go) over one    *)
(* call of Fetch, beside a call that the application makes for itself: who *)
(* owns the open body and the timeout context when the call has returned.  *)
(***************************************************************************)
EXTENDS FetchLoop

VARIABLES
    kind,         \* which of the calls it is
    handed        \* what the caller was given, "none" before the call returns

dvars == <<vars, kind, handed>>

Kinds == {"download", "location", "fetch"}

DownloadTypeOK ==
    /\ TypeOK
    /\ kind \in Kinds
    /\ handed \in {"none", "error", "response", "stream", "nil", "url", "closed"}

\* The FetchOptions of the calls: a stream, or the answer as it is.
DownloadOptions == options.follow /\ options.format = "binary" /\ options.sendable
LocationOptions == ~options.follow /\ options.format = "no_content" /\ options.sendable

DownloadInit ==
    /\ Init
    /\ kind \in Kinds
    /\ kind = "download" => DownloadOptions
    /\ kind = "location" => LocationOptions
    /\ handed = "none"
-----------------------------------------------------------------------------
InFetch == (Step \/ Cancel \/ DeadlinePasses) /\ UNCHANGED <<kind, handed>>

Hand(x) == handed' = x /\ UNCHANGED <<vars, kind>>

Returned == pc = "done" /\ handed = "none"

ReturnFailure == Returned /\ result \notin {"response", "stream"} /\ Hand("error")

\* Fetch has succeeded.
Succeeded(k) == Returned /\ kind = k /\ result \in {"response", "stream"}

GiveResponse == Succeeded("fetch") /\ Hand("response")

\* Mutant: whatever succeeds is content.
AlwaysReady == TRUE

Ready == response.status # 202

(* A 202 has no content yet: the caller gets no reader, and the response is *)
(* dropped as it is.                                                        *)
GiveStream == Succeeded("download") /\ Ready /\ Hand("stream")
NotReady   == Succeeded("download") /\ ~Ready /\ Hand("nil")

GiveURL ==
    Succeeded("location") /\ response.location # "absent" /\ Hand("url")
NoLocation ==
    Succeeded("location") /\ response.location = "absent" /\ Hand("error")

(* The caller closes the stream it has.                                     *)
Close ==
    /\ handed \in {"stream", "response"}
    /\ CloseStream
    /\ handed' = "closed"
    /\ UNCHANGED kind

HandOver == \/ ReturnFailure \/ GiveResponse \/ GiveStream \/ NotReady
            \/ GiveURL \/ NoLocation

DownloadNext == InFetch \/ HandOver \/ Close

(* The call goes on whenever it can: an exchange ends, if only by the       *)
(* timeout or the transport's own error, a backoff timer fires.  Nobody has *)
(* to cancel or to close.                                                   *)
DownloadSpec ==
    /\ DownloadInit
    /\ [][DownloadNext]_dvars
    /\ WF_dvars(Step /\ UNCHANGED <<kind, handed>>)
    /\ WF_dvars(HandOver)
-----------------------------------------------------------------------------
(* Properties.                                                              *)

\* Once the caller has closed the stream it was given, or was given none,
\* nothing of the exchange is left behind - but for the answer 202, whose body
\* and timeout context stay with a response that nobody holds (downloads.go:67).
OnlyNotReadyLeaks ==
    handed \in {"error", "url", "closed"} => ~bodyOpen /\ timer = "off"

\* What a download hands over is content: an open body of a final success and
\* neither a redirect nor a promise, cut off by nobody but the caller and the
\* deadline of the request (downloads.go:67-73, client.go:333).
StreamIsContent ==
    kind = "download" /\ handed = "stream" =>
        /\ bodyOpen
        /\ Readable \/ CutOff
        /\ response.status \in (200 .. 299) \ {202}

\* Asking where the content is neither goes there nor keeps a body open.
LocationNotVisited ==
    kind = "location" => options.url = home /\ ~bodyOpen

\* Every call returns something unless it is redirected for ever.
DownloadReturns == <>(handed # "none") \/ []<><<FollowRedirect>>_dvars
=============================================================================
