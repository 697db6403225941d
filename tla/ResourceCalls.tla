---------------------------- MODULE ResourceCalls ----------------------------
(***************************************************************************)
(* The calls of UploadsManager, FilesManager and FoldersManager that make, *)
(* replace, delete or read one file or folder, over the attempts of Fetch  *)
(* (managers/uploads.go, files.go, folders.go, managers.go, and the        *)
(* retries of networking/client.go): many calls on one name, requests that *)
(* are under way longer than anyone waits, and answers that are lost.      *)
(*                                                                         *)
(* Each element of Calls is one call.  The service is external: it serves  *)
(* a request at most once, at any time.  A lost answer needs no action of  *)
(* its own: it leaves the same state as a request that is served after the *)
(* transport has given up on it.                                           *)
(***************************************************************************)
EXTENDS Integers, Sequences

CONSTANTS
    Calls,                  \* the calls the application makes
    MaxAttempts,            \* BoxRetryStrategy.MaxAttempts
    MaxRetriesOnException   \* BoxRetryStrategy.MaxRetriesOnException

ASSUME CallsAssumption ==
    /\ "others" \notin Calls
    /\ MaxAttempts \in Nat
    /\ MaxRetriesOnException \in Nat

VARIABLES
    resource,     \* whether the name is that of a file or of a folder
    history,      \* the service: effects on the name, a version each
    inflight,     \* the service: requests that it has not served
    call,         \* the arguments of each call
    stage,        \* where each call is
    phase,        \* which Fetch of the call it is: "check" or "main"
    attempt,      \* attemptNumber of that Fetch
    exceptions,   \* numRetriesOnException of that Fetch
    answer,       \* the answer to the last attempt
    result,       \* what the call returned
    doubtful      \* history: calls an attempt of which had no clear answer

service == <<resource, history, inflight>>
vars == <<service, call, stage, phase, attempt, exceptions, answer, result, doubtful>>

\* What the caller was told, as far as anybody can know.
Told(c) ==
    IF result[c] = "none" THEN "open"
    ELSE IF result[c] \in {"object", "nil"} THEN "done"
    ELSE IF c \in doubtful THEN "unknown"
    ELSE "refused"

Store == INSTANCE ResourceStore WITH outcome <- [c \in Calls |-> Told(c)]

Version == Store!Version
Exists  == Store!Exists
NoCall  == Store!NoCall

\* "other" does not decode, or is an upload URL of no use; "busy" is a 401 or
\* 429, "failed" a 5xx, "unmodified" a 304, "refused" any other 4xx.
Bodies   == {"object", "null", "other", "unreadable"}
Statuses == {"exception", "ok", "unmodified", "busy", "failed", "refused"}
Answers  == [status : Statuses, body : Bodies]
Nothing  == [status |-> "exception", body |-> "null"]

Init ==
    /\ resource \in {"file", "folder"}
    /\ history \in Store!Histories
    /\ call = [c \in Calls |-> NoCall]
    /\ inflight = {}
    /\ stage = [c \in Calls |-> "new"]
    /\ phase = [c \in Calls |-> "main"]
    /\ attempt = [c \in Calls |-> 1]
    /\ exceptions = [c \in Calls |-> 0]
    /\ answer = [c \in Calls |-> Nothing]
    /\ result = [c \in Calls |-> "none"]
    /\ doubtful = {}
-----------------------------------------------------------------------------
At(c, s)   == stage[c] = s
Goto(c, s) == stage' = [stage EXCEPT ![c] = s]

\* The call returns; the locals of its Fetch are gone.
Return(c, r) ==
    /\ Goto(c, "returned")
    /\ result' = [result EXCEPT ![c] = r]
    /\ attempt' = [attempt EXCEPT ![c] = 1]
    /\ exceptions' = [exceptions EXCEPT ![c] = 0]
    /\ answer' = [answer EXCEPT ![c] = Nothing]

(* The calls.  On an item, IfMatch or IfNoneMatch is an etag the item has   *)
(* had, or empty (0), which prepareParams drops.                            *)
New(checked) == [op : {"create"}, item : {0}, match : {0}, checked : {checked}]

On(op) ==
    {k \in [op : {op}, item : 1 .. Version, match : 0 .. Version, checked : {FALSE}] :
        k.match # 0 => history[k.match].op # "delete" /\ history[k.match].item = k.item}

UploadFile               == New(FALSE)
UploadWithPreflightCheck == New(TRUE)
UploadFileVersion        == On("update")
GetFileByID              == On("get")

CreateFolder     == New(FALSE)
DeleteFolderByID == On("delete")
GetFolderByID    == On("get")
GetFolderItems   == {k \in On("get") : k.match = 0}

Arguments ==
    CASE resource = "file" ->
            UploadFile \cup UploadWithPreflightCheck \cup UploadFileVersion \cup GetFileByID
      [] resource = "folder" ->
            CreateFolder \cup DeleteFolderByID \cup GetFolderByID \cup GetFolderItems

Begin(c) ==
    /\ At(c, "new")
    /\ \E k \in Arguments :
           /\ call' = [call EXCEPT ![c] = k]
           /\ phase' = [phase EXCEPT ![c] = IF k.checked THEN "check" ELSE "main"]
    /\ Goto(c, "prepare")
    /\ UNCHANGED <<service, attempt, exceptions, answer, result, doubtful>>

(* prepareRequest: reads the content, if there is any, once.                *)
HasContent(c) == phase[c] = "main" /\ resource = "file" /\ call[c].op # "get"

Prepared(c) ==
    /\ At(c, "prepare")
    /\ Goto(c, "send")
    /\ UNCHANGED <<service, call, phase, attempt, exceptions, answer, result, doubtful>>

ContentUnreadable(c) ==
    /\ At(c, "prepare")
    /\ HasContent(c)
    /\ Return(c, "error")
    /\ UNCHANGED <<service, call, phase, doubtful>>

\* Mutant: each attempt reads the stream, which has been read to its end.
ReadEachTime(c) == IF attempt[c] = 1 THEN "whole" ELSE "empty"

BodyOf(c) == "whole"

\* Mutant: the merged headers lose the condition.
MatchDropped(c) == 0

MatchHeader(c) == call[c].match

Request(c) ==
    [by |-> c, n |-> attempt[c], item |-> call[c].item, match |-> MatchHeader(c),
     op |-> IF phase[c] = "check" THEN "check" ELSE call[c].op, body |-> BodyOf(c)]

Send(c) ==
    /\ At(c, "send")
    /\ inflight' = inflight \cup {Request(c)}
    /\ Goto(c, "waiting")
    /\ UNCHANGED <<resource, history, call, phase, attempt, exceptions, answer,
                   result, doubtful>>

\* The Authorization header is not to be had.
HeaderFails(c) ==
    /\ At(c, "send")
    /\ Return(c, "error")
    /\ UNCHANGED <<service, call, phase, doubtful>>
-----------------------------------------------------------------------------
(* The service.                                                             *)
Awaited(r) ==
    At(r.by, "waiting") /\ attempt[r.by] = r.n /\ (r.op = "check" <=> phase[r.by] = "check")

Unclear(a) ==
    \/ a.status \in {"exception", "failed"}
    \/ a.status = "ok" /\ a.body = "other"
    \/ a.body = "unreadable"

\* The answer reaches the call if it still waits for this attempt.
Reply(r, status, body) ==
    LET a == [status |-> status, body |-> body] IN
    IF Awaited(r)
      THEN /\ answer' = [answer EXCEPT ![r.by] = a]
           /\ Goto(r.by, "decide")
           /\ doubtful' = doubtful \cup
                  {c \in {r.by} : Unclear(a) /\ r.op # "check"}
      ELSE UNCHANGED <<answer, stage, doubtful>>

Serve(r) ==
    /\ inflight' = inflight \ {r}
    /\ UNCHANGED <<resource, call, phase, attempt, exceptions, result>>

\* A write takes effect; the gateway may still answer with a failure.
Perform(r) ==
    /\ Store!Applicable(r)
    /\ history' = Append(history, Store!Effect(r.by, r, r.body))
    /\ \/ \E b \in IF r.op = "delete" THEN {"object", "unreadable"}
                   ELSE Bodies : Reply(r, "ok", b)
       \/ Reply(r, "failed", "object")
    /\ Serve(r)

\* A read, or a preflight check of a name that is free.
Look(r) ==
    /\ \/ r.op = "check" /\ ~Exists
       \/ r.op = "get" /\ Exists /\ r.item = Store!Last.item
    /\ IF r.op = "get" /\ r.match = Version
         THEN Reply(r, "unmodified", "null")
         ELSE \E b \in Bodies : Reply(r, "ok", b)
    /\ Serve(r)
    /\ UNCHANGED history

\* 404, 409 or 412: there is no such item, the name is taken, or its etag is
\* another.
Refuse(r) ==
    /\ ~Store!Applicable(r)
    /\ r.op = "check" => Exists
    /\ r.op = "get" => ~(Exists /\ r.item = Store!Last.item)
    /\ \E b \in {"object", "unreadable"} : Reply(r, "refused", b)
    /\ Serve(r)
    /\ UNCHANGED history

\* The request is turned away before it is looked at.
TurnAway(r) ==
    /\ \E s \in {"busy", "failed"} : Reply(r, s, "object")
    /\ Serve(r)
    /\ UNCHANGED history

\* The connection breaks, the timeout fires or the context is cancelled.
TransportFails(c) ==
    /\ At(c, "waiting")
    /\ answer' = [answer EXCEPT ![c] = Nothing]
    /\ exceptions' = [exceptions EXCEPT ![c] = @ + 1]
    /\ doubtful' = doubtful \cup {d \in {c} : phase[d] = "main"}
    /\ Goto(c, "decide")
    /\ UNCHANGED <<service, call, phase, attempt, result>>
-----------------------------------------------------------------------------
(* do and ShouldRetry, after an attempt.                                    *)
Readable(c) == At(c, "decide") /\ answer[c].body # "unreadable"

Retried == {"busy", "failed"}

ShouldRetry(c) ==
    \/ answer[c].status = "exception" /\ exceptions[c] <= MaxRetriesOnException
    \/ answer[c].status \in Retried /\ attempt[c] < MaxAttempts

\* Mutant: attempts are counted down, against a limit that counts up.
AttemptBefore(c) == attempt[c] - 1

AttemptAfter(c) == attempt[c] + 1

Retry(c) ==
    /\ Readable(c)
    /\ ShouldRetry(c)
    /\ attempt' = [attempt EXCEPT ![c] = AttemptAfter(c)]
    /\ answer' = [answer EXCEPT ![c] = Nothing]
    /\ Goto(c, "send")
    /\ UNCHANGED <<service, call, phase, exceptions, result, doubtful>>

\* The refresh after a 401 fails, or the wait before the retry is cancelled.
RetryFails(c) ==
    /\ Readable(c)
    /\ ShouldRetry(c)
    /\ Return(c, "error")
    /\ UNCHANGED <<service, call, phase, doubtful>>

Success(c) == answer[c].status = "ok"

\* An error, or a body that cannot be read.  A 304 is an error too: it counts
\* as a redirect, and has no Location.
FetchFails(c) ==
    /\ At(c, "decide")
    /\ ~Readable(c) \/ (~ShouldRetry(c) /\ ~Success(c))
    /\ Return(c, "error")
    /\ UNCHANGED <<service, call, phase, doubtful>>

Succeeds(c, p) == Readable(c) /\ ~ShouldRetry(c) /\ Success(c) /\ phase[c] = p

\* Decode: "null" decodes to a nil pointer, another type not at all.
Decoded(c) ==
    CASE answer[c].body = "null"  -> "nil"
      [] answer[c].body = "other" -> "error"
      [] OTHER                    -> "object"

Finish(c) ==
    /\ Succeeds(c, "main")
    /\ Return(c, Decoded(c))
    /\ UNCHANGED <<service, call, phase, doubtful>>

(* UploadWithPreflightCheck, after the check.                               *)
CheckPassed(c) ==
    /\ Succeeds(c, "check")
    /\ answer[c].body = "object"
    /\ phase' = [phase EXCEPT ![c] = "main"]
    /\ attempt' = [attempt EXCEPT ![c] = 1]
    /\ exceptions' = [exceptions EXCEPT ![c] = 0]
    /\ answer' = [answer EXCEPT ![c] = Nothing]
    /\ Goto(c, "prepare")
    /\ UNCHANGED <<service, call, result, doubtful>>

\* No usable URL, a body of another type, or none: preflight.UploadURL is then
\* read through a nil pointer.
CheckUnusable(c) ==
    /\ Succeeds(c, "check")
    /\ answer[c].body # "object"
    /\ Return(c, IF answer[c].body = "null" THEN "panic" ELSE "error")
    /\ UNCHANGED <<service, call, phase, doubtful>>
-----------------------------------------------------------------------------
Client(c) ==
    \/ Begin(c) \/ Prepared(c) \/ ContentUnreadable(c) \/ Send(c) \/ HeaderFails(c)
    \/ TransportFails(c) \/ Retry(c) \/ RetryFails(c) \/ FetchFails(c) \/ Finish(c)
    \/ CheckPassed(c) \/ CheckUnusable(c)

Service(r) == Perform(r) \/ Look(r) \/ Refuse(r) \/ TurnAway(r)

Next == (\E c \in Calls : Client(c)) \/ (\E r \in inflight : Service(r))

Spec == Init /\ [][Next]_vars
-----------------------------------------------------------------------------
(* Properties.                                                              *)
Requests ==
    [by : Calls, n : Nat, item : Nat, match : Nat,
     op : {"create", "update", "delete", "get", "check"}, body : {"whole", "empty"}]

Effects ==
    [by : Calls \cup {"others"}, op : {"create", "update", "delete"}, item : Nat,
     body : {"whole", "empty"}]

ServiceTypeOK ==
    /\ resource \in {"file", "folder"}
    /\ history \in Seq(Effects)
    /\ inflight \subseteq Requests

CallTypeOK ==
    /\ call \in [Calls -> [op : {"none", "create", "update", "delete", "get"},
                           item : Nat, match : Nat, checked : BOOLEAN]]
    /\ stage \in [Calls -> {"new", "prepare", "send", "waiting", "decide", "returned"}]
    /\ phase \in [Calls -> {"check", "main"}]
    /\ attempt \in [Calls -> Nat]
    /\ exceptions \in [Calls -> Nat]
    /\ answer \in [Calls -> Answers]
    /\ result \in [Calls -> {"none", "object", "nil", "error", "panic"}]
    /\ doubtful \subseteq Calls

TypeOK == ServiceTypeOK /\ CallTypeOK

\* A request that was sent again and again, and served late, takes effect once:
\* twice only for a version uploaded without a condition, and for a name that
\* was deleted in between and is made anew (client.go:258, retries.go:42).
OncePerCall ==
    \A i, j \in 1 .. Len(history) : i < j /\ history[i].by = history[j].by =>
        \/ history[j].op = "update" /\ call[history[j].by].match = 0
        \/ history[j].op = "create" /\ \E d \in i + 1 .. j - 1 : history[d].op = "delete"

\* A call with IfMatch replaces or deletes the very version it names, of the
\* item it names, and no version that came after (uploads.go:112, folders.go:151).
NoLostUpdate ==
    \A i \in 1 .. Len(history) :
        LET k == call[history[i].by] IN
        history[i].by # "others" /\ history[i].op # "create" =>
            /\ history[i].item = k.item
            /\ k.match # 0 => k.match = i - 1

\* The answers are true: a call that returned without an error has stored the
\* whole content; one that failed, with every attempt answered clearly, never
\* takes effect, before or after.
AnswersAreTrue == Store!Spec
=============================================================================
