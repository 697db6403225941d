-------------------------- MODULE DownloadsProofs ---------------------------
(***************************************************************************)
(* Theorems about Downloads.  A call of DownloadFile or GetDownloadFileURL *)
(* runs Fetch as FetchLoop has it, so what FetchLoopProofs proves of Fetch *)
(* holds of it; HandInv adds what its caller may have at each point.       *)
(***************************************************************************)
EXTENDS Downloads, FetchLoopProofs

\* What the kind of call has fixed, and what a success leaves.
KindInv ==
    /\ kind \in Kinds
    /\ kind = "download" => DownloadOptions
    /\ kind = "location" => LocationOptions /\ options.url = home /\ ~bodyOpen
    /\ bodyOpen => Streams
    /\ pc = "decide" /\ response # Exception /\ Streams => bodyOpen
    /\ pc = "done" /\ result \in {"response", "stream"} =>
           response.status \in 200 .. 399 /\ ~Redirection
    /\ result = "response" => ~Streams
    /\ result = "stream" => Streams

HandInv ==
    /\ handed # "none" => pc = "done"
    /\ handed = "none" /\ result = "stream" => bodyOpen
    /\ handed = "error" => kind = "location" \/ result \notin {"response", "stream"}
    /\ handed = "stream" =>
           kind = "download" /\ result = "stream" /\ bodyOpen /\ Ready
    /\ handed = "url" => kind = "location"
    /\ handed = "closed" => ~bodyOpen /\ timer = "off"
    /\ handed \in {"none", "error", "response", "stream", "nil", "url", "closed"}

DInv == IInv /\ KindInv /\ HandInv

LEMMA FetchIsAStep == [DownloadNext]_dvars => [Next]_vars
    BY DEF DownloadNext, dvars, InFetch, Next, HandOver, ReturnFailure, GiveResponse,
           GiveStream, NotReady, GiveURL, NoLocation, Hand, Close

\* The call keeps its kind and options while Fetch runs.
LEMMA KindStep == IInv /\ KindInv /\ HandInv /\ [DownloadNext]_dvars => KindInv'
<1> SUFFICES ASSUME IInv, KindInv, HandInv, [DownloadNext]_dvars PROVE KindInv'
    OBVIOUS
<1> USE DEF KindInv, DownloadOptions, LocationOptions, Streams, Finish, resources, history,
            Redirection
<1>1. TypeOK
    BY DEF IInv
<1>2. CASE UNCHANGED vars /\ UNCHANGED kind
    BY <1>2 DEF vars, resources, history
<1>3. CASE InFetch
    <2> USE <1>1, <1>3 DEF InFetch
    <2>1. CASE Prepare
        BY <2>1 DEF Prepare
    <2>2. CASE Attempt
        BY <2>2 DEF Attempt, AuthHeaderFails, BuildRequestFails, Send
    <2>3. CASE TransportFails
        BY <2>3 DEF TransportFails
    <2>4. CASE Receive
        BY <2>4 DEF Receive, KeepOpen, ReleaseBody
    <2>5. CASE ReadFails
        BY <2>5 DEF ReadFails, ReleaseBody
    <2>6. CASE Retry \/ RefreshFails \/ RedirectWithoutLocation \/ ReturnError
        BY <2>6 DEF Retry, RefreshFails, RedirectWithoutLocation, ReturnError, ReleaseBody
    <2>7. CASE FollowRedirect
        BY <2>7 DEF FollowRedirect, ReleaseBody, TypeOK, Options
    <2>8. CASE ReturnResponse
        <3>1. response # Exception
            BY <2>8, StrategyAssumption DEF ReturnResponse, Success, Exception
        <3> QED
            BY <2>8, <3>1 DEF ReturnResponse, Settled, Success
    <2>9. CASE Sleep
        BY <2>9 DEF Sleep, Wake, SleepCancelled
    <2>10. CASE Cancel \/ DeadlinePasses
        BY <2>10 DEF Cancel, DeadlinePasses
    <2> QED
        BY <2>1, <2>2, <2>3, <2>4, <2>5, <2>6, <2>7, <2>8, <2>9, <2>10
           DEF Step, Answer, Decide
<1>4. CASE Close
    BY <1>4 DEF Close, CloseStream, ReleaseBody, HandInv
<1>5. InFetch \/ Close \/ UNCHANGED <<vars, kind>>
    BY DEF DownloadNext, dvars, HandOver, ReturnFailure, GiveResponse, GiveStream, NotReady,
           GiveURL, NoLocation, Hand
<1> QED
    BY <1>2, <1>3, <1>4, <1>5

\* Fetch has ended when something is handed over.
LEMMA HandStep == IInv /\ KindInv /\ HandInv /\ [DownloadNext]_dvars => HandInv'
<1> SUFFICES ASSUME IInv, KindInv, HandInv, [DownloadNext]_dvars PROVE HandInv'
    OBVIOUS
<1> USE DEF HandInv, Ready
<1>1. CASE UNCHANGED dvars
    BY <1>1 DEF dvars, vars, resources, history
<1>2. CASE InFetch /\ Step
    <2>1. handed = "none" /\ handed' = "none"
        BY <1>2
           DEF InFetch, Step, Prepare, Attempt, AuthHeaderFails, BuildRequestFails, Send,
               Answer, TransportFails, Receive, Answered, ReadFails, Decide, Retry,
               RefreshFails, RedirectWithoutLocation, FollowRedirect, ReturnResponse,
               ReturnError, Settled, Sleep, Wake, SleepCancelled
    <2>2. pc # "done" => result = "none"
        BY DEF IInv, CountInv
    <2>3. pc # "done"
        BY <1>2
           DEF InFetch, Step, Prepare, Attempt, AuthHeaderFails, BuildRequestFails, Send,
               Answer, TransportFails, Receive, Answered, ReadFails, Decide, Retry,
               RefreshFails, RedirectWithoutLocation, FollowRedirect, ReturnResponse,
               ReturnError, Settled, Sleep, Wake, SleepCancelled
    <2>4. CASE ReturnResponse
        BY <2>1, <2>4 DEF ReturnResponse, Finish, resources
    <2>5. result' # "stream" \/ ReturnResponse
        BY <1>2, <2>2, <2>3
           DEF InFetch, Step, Prepare, Attempt, AuthHeaderFails, BuildRequestFails, Send,
               Answer, TransportFails, Receive, Answered, ReadFails, Decide, Retry,
               RefreshFails, RedirectWithoutLocation, FollowRedirect,
               ReturnError, Settled, Sleep, Wake, SleepCancelled, Finish
    <2> QED
        BY <2>1, <2>4, <2>5
<1>3. CASE InFetch /\ (Cancel \/ DeadlinePasses)
    BY <1>3 DEF InFetch, Cancel, DeadlinePasses, IInv, ResourceInv, resources, history
<1>4. CASE HandOver
    <2> USE DEF Hand, vars, resources, history, Returned, Succeeded
    <2>1. CASE ReturnFailure
        BY <2>1 DEF ReturnFailure
    <2>2. CASE GiveResponse
        BY <2>2 DEF GiveResponse
    <2>3. CASE GiveStream
        BY <2>3 DEF GiveStream, KindInv, DownloadOptions, Streams
    <2>4. CASE NotReady
        BY <2>4 DEF NotReady
    <2>5. CASE GiveURL \/ NoLocation
        BY <2>5 DEF GiveURL, NoLocation
    <2> QED
        BY <1>4, <2>1, <2>2, <2>3, <2>4, <2>5 DEF HandOver
<1>5. CASE Close
    BY <1>5 DEF Close, CloseStream, ReleaseBody
<1> QED
    BY <1>1, <1>2, <1>3, <1>4, <1>5 DEF DownloadNext, InFetch

LEMMA DownloadInvariance == DownloadSpec => []DInv
<1>1. DownloadInit => DInv
    <2> SUFFICES ASSUME DownloadInit PROVE DInv
        OBVIOUS
    <2>1. IInv
        BY InductiveInit DEF DownloadInit
    <2>2. KindInv /\ HandInv
        BY DEF DownloadInit, Init, KindInv, HandInv, Streams
    <2> QED
        BY <2>1, <2>2 DEF DInv
<1>2. DInv /\ [DownloadNext]_dvars => DInv'
    BY FetchIsAStep, TypeStep, CountStep, ResourceStep, AuthStep, ExhaustedStep,
       KindStep, HandStep
       DEF DInv, IInv
<1> QED
    BY <1>1, <1>2, PTL DEF DownloadSpec

\* Whatever they ask for, the calls run Fetch: every theorem about it is about them.
THEOREM DownloadsRunFetch == DownloadSpec => Spec
<1>1. DownloadInit => Init
    BY DEF DownloadInit
<1> QED
    BY <1>1, FetchIsAStep, PTL DEF DownloadSpec, Spec

\* A download, too, goes on for ever only by redirects.
THEOREM DownloadHopEnds == DownloadSpec => OnlyRedirectsProlong
BY DownloadsRunFetch, HopEnds, PTL

\* The variables keep their types.
THEOREM DownloadTypeCorrect == DownloadSpec => []DownloadTypeOK
<1>1. DInv => DownloadTypeOK
    BY DEF DInv, IInv, KindInv, HandInv, DownloadTypeOK
<1> QED
    BY <1>1, DownloadInvariance, PTL

\* The only response nobody can close is the 202 that DownloadFile drops.
THEOREM OnlyThe202Leaks == DownloadSpec => []OnlyNotReadyLeaks
<1>1. DInv => OnlyNotReadyLeaks
    <2> SUFFICES ASSUME DInv, handed \in {"error", "url", "closed"}
                 PROVE  ~bodyOpen /\ timer = "off"
        BY DEF OnlyNotReadyLeaks
    <2>1. pc = "done"
        BY DEF DInv, HandInv
    <2>2. CASE handed = "closed"
        BY <2>2 DEF DInv, HandInv
    <2>3. CASE result # "stream"
        BY <2>1, <2>3 DEF DInv, IInv, NothingLeaks
    <2>4. CASE result = "stream" /\ kind = "location"
        BY <2>4 DEF DInv, KindInv, LocationOptions, Streams
    <2> QED
        BY <2>2, <2>3, <2>4 DEF DInv, HandInv
<1> QED
    BY <1>1, DownloadInvariance, PTL

\* A download's stream is the content: open, of a final success, and not cut off
\* by the client.
THEOREM StreamsAreContent == DownloadSpec => []StreamIsContent
<1>1. DInv => StreamIsContent
    BY DEF DInv, IInv, KindInv, HandInv, StreamIsContent, OnlyCallerOrDeadlineCutsOff,
           DownloadOptions, Redirection, Ready
<1> QED
    BY <1>1, DownloadInvariance, PTL

\* A call that asks where the content is never leaves its origin.
THEOREM LocationStaysHome == DownloadSpec => []LocationNotVisited
<1>1. DInv => LocationNotVisited
    BY DEF DInv, KindInv, LocationNotVisited
<1> QED
    BY <1>1, DownloadInvariance, PTL
=============================================================================
