----------------------------- MODULE HTTPFetcher -----------------------------
(***************************************************************************)
(* The HTTP fetcher of a blob (fs/remote/resolver.go).  A fetcher is made   *)
(* for the first registry host that answers.  The registry serves the blob *)
(* itself or redirects to a URL that expires; a fetch or a check that gets *)
(* 403 asks for a new URL, a fetch that gets 400 falls back to a single    *)
(* range, and each is retried once.  The transport renews its token when   *)
(* the registry answers 401.                                               *)
(*                                                                         *)
(* URL 0 is the blob on the registry, URL v > 0 the v-th redirection, which *)
(* is valid while v > exp.                                                 *)
(***************************************************************************)
EXTENDS Integers

CONSTANTS Hosts, Callers, MaxExpiries

ASSUME FetcherAssumption == Hosts \subseteq Nat /\ MaxExpiries \in Nat

VARIABLES
    up, redirects, multi, authorizer,  \* the hosts; whether they redirect, take several ranges, have an authorizer
    exp, token,                        \* the URLs up to exp and a stale token are refused
    host, url, singleRange,            \* the fetcher; host 0: not made
    call                               \* caller -> [op, pc, retry, several, sr, url, excused, disturbed]

hostVars == <<up, redirects, multi, authorizer, exp, token>>
fetcherVars == <<hostVars, host, url, singleRange, call>>

Idle == [op |-> "none", pc |-> "idle", retry |-> FALSE, several |-> FALSE, sr |-> FALSE, url |-> 0,
         excused |-> FALSE, disturbed |-> FALSE]

FetcherInit ==
    /\ up \in [Hosts -> BOOLEAN] /\ redirects \in BOOLEAN /\ multi \in BOOLEAN /\ authorizer \in BOOLEAN
    /\ exp = 0 /\ token = "valid"
    /\ host = 0 /\ url = 0 /\ singleRange = FALSE
    /\ call = [c \in Callers |-> Idle]

-----------------------------------------------------------------------------
(* Requests.                                                               *)

\* transport.RoundTrip: authorized, and once more with a renewed token after 401.
RoundTrip(status) ==
    IF token = "stale" /\ ~authorizer THEN 401 ELSE status

\* Where redirect ends: a URL, or -1.
redirect == IF ~up[host] \/ RoundTrip(200) = 401 THEN -1 ELSE IF redirects THEN exp + 1 ELSE 0

\* The answer to a GET of the URL with several ranges or one.
Status(u, several) ==
    IF u = 0 THEN (IF ~up[host] THEN 0 ELSE RoundTrip(IF several /\ ~multi THEN 400 ELSE 206))
    ELSE IF u <= exp THEN 403
    ELSE IF several /\ ~multi THEN 400 ELSE 206

\* A request to the registry renews the token.
Renewed == IF authorizer /\ up[host] THEN "valid" ELSE token

-----------------------------------------------------------------------------
\* newHTTPFetcher: the first host that redirects and tells the size of the blob.
NewHTTPFetcher ==
    /\ host = 0
    /\ \E h \in Hosts :
         /\ up[h] /\ (token = "valid" \/ authorizer)
         /\ \A k \in Hosts : up[k] => h <= k
         /\ host' = h
    /\ url' = IF redirects THEN exp + 1 ELSE 0
    /\ singleRange' \in BOOLEAN  \* ForceSingleRangeMode
    /\ token' = "valid"
    /\ UNCHANGED <<up, redirects, multi, authorizer, exp, call>>

\* The registry cannot be used; another caller is about to store a URL that has
\* expired since it was given; or the call needs two retries.
Excused(several) ==
    \/ ~up[host] \/ (token = "stale" /\ ~authorizer)
    \/ \E d \in Callers : call[d].pc = "store" /\ call[d].url \in 1 .. exp
    \/ several /\ ~multi /\ ~singleRange /\ exp > 0

Fetch(c) ==
    /\ host # 0 /\ call[c].pc = "idle"
    /\ \E several \in BOOLEAN :
         call' = [call EXCEPT ![c] = [Idle EXCEPT !.op = "fetch", !.pc = "begin", !.retry = TRUE,
                                                  !.several = several, !.excused = Excused(several)]]
    /\ UNCHANGED <<hostVars, host, url, singleRange>>

Check(c) ==
    /\ host # 0 /\ call[c].pc = "idle"
    /\ call' = [call EXCEPT ![c] = [Idle EXCEPT !.op = "check", !.pc = "request",
                                                !.excused = Excused(FALSE)]]
    /\ UNCHANGED <<hostVars, host, url, singleRange>>

\* A fetch squashes its ranges into one in single range mode; then the URL is read.
Prepare(c) ==
    /\ call[c].pc = "begin"
    /\ call' = [call EXCEPT ![c].pc = "request", ![c].sr = singleRange]
    /\ UNCHANGED <<hostVars, host, url, singleRange>>

ReadURL(c) ==
    /\ call[c].pc = "request"
    /\ call' = [call EXCEPT ![c].pc = "send", ![c].url = url]
    /\ UNCHANGED <<hostVars, host, url, singleRange>>

GoTo(c, p) == call' = [call EXCEPT ![c].pc = p]
Succeed(c) == call' = [call EXCEPT ![c] = Idle]
Fail(c) == call' = [call EXCEPT ![c] = [Idle EXCEPT !.pc = "failed", !.excused = call[c].excused,
                                                    !.disturbed = call[c].disturbed]]

\* Mutant: a fetch that falls back to a single range does not set the mode.
SendForgets(c) ==
    /\ call[c].pc = "send" /\ call[c].op = "fetch"
    /\ LET s == Status(call[c].url, call[c].several /\ ~call[c].sr) IN
       CASE s = 206 -> Succeed(c)
         [] s = 403 /\ call[c].retry -> GoTo(c, "refresh")
         [] s = 400 /\ call[c].retry /\ ~call[c].sr -> call' = [call EXCEPT ![c].pc = "begin", ![c].retry = FALSE]
         [] OTHER -> Fail(c)
    /\ token' = IF call[c].url = 0 THEN Renewed ELSE token
    /\ UNCHANGED <<up, redirects, multi, authorizer, exp, host, url, singleRange>>

singleRangeMode == singleRange' = TRUE

Send(c) ==
    /\ call[c].pc = "send" /\ call[c].op = "fetch"
    /\ LET s == Status(call[c].url, call[c].several /\ ~call[c].sr) IN
       CASE s = 206 -> Succeed(c) /\ UNCHANGED singleRange
         [] s = 403 /\ call[c].retry -> GoTo(c, "refresh") /\ UNCHANGED singleRange
         [] s = 400 /\ call[c].retry /\ ~call[c].sr ->
              singleRangeMode /\ call' = [call EXCEPT ![c].pc = "begin", ![c].retry = FALSE]
         [] OTHER -> Fail(c) /\ UNCHANGED singleRange
    /\ token' = IF call[c].url = 0 THEN Renewed ELSE token
    /\ UNCHANGED <<up, redirects, multi, authorizer, exp, host, url>>

\* A check asks for two bytes; a new URL is all it does about 403.
SendCheck(c) ==
    /\ call[c].pc = "send" /\ call[c].op = "check"
    /\ LET s == Status(call[c].url, FALSE) IN
       CASE s = 206 -> Succeed(c)
         [] s = 403 -> GoTo(c, "refresh")
         [] OTHER -> Fail(c)
    /\ token' = IF call[c].url = 0 THEN Renewed ELSE token
    /\ UNCHANGED <<up, redirects, multi, authorizer, exp, host, url, singleRange>>

\* refreshURL: the request, and the new URL under the lock; a check does not try the URL.
RefreshURL(c) ==
    /\ call[c].pc = "refresh"
    /\ IF redirect = -1 THEN Fail(c)
       ELSE call' = [call EXCEPT ![c].pc = "store", ![c].url = redirect]
    /\ token' = Renewed
    /\ UNCHANGED <<up, redirects, multi, authorizer, exp, host, url, singleRange>>

StoreURL(c) ==
    /\ call[c].pc = "store"
    /\ url' = call[c].url
    /\ call' = [call EXCEPT ![c] = IF call[c].op = "check" THEN Idle
                                   ELSE [call[c] EXCEPT !.pc = "begin", !.retry = FALSE, !.url = 0]]
    /\ UNCHANGED <<hostVars, host, singleRange>>

Return(c) ==
    /\ call[c].pc = "failed"
    /\ call' = [call EXCEPT ![c] = Idle]
    /\ UNCHANGED <<hostVars, host, url, singleRange>>

-----------------------------------------------------------------------------
(* The registry.  What happens during a call disturbs it.                  *)

Disturb == call' = [c \in Callers |-> [call[c] EXCEPT !.disturbed = call[c].pc # "idle"]]

ExpireURL ==
    /\ host # 0 /\ redirects /\ exp < MaxExpiries
    /\ exp' = exp + 1 /\ Disturb
    /\ UNCHANGED <<up, redirects, multi, authorizer, token, host, url, singleRange>>

ExpireToken ==
    /\ token = "valid" /\ token' = "stale" /\ Disturb
    /\ UNCHANGED <<up, redirects, multi, authorizer, exp, host, url, singleRange>>

Outage(h) ==
    /\ host \in {0, h}
    /\ up' = [up EXCEPT ![h] = ~@] /\ Disturb
    /\ UNCHANGED <<redirects, multi, authorizer, exp, token, host, url, singleRange>>

CallStep(c) == Prepare(c) \/ ReadURL(c) \/ Send(c) \/ SendCheck(c) \/ RefreshURL(c) \/ StoreURL(c) \/ Return(c)

FetcherNext ==
    \/ NewHTTPFetcher
    \/ \E c \in Callers : Fetch(c) \/ Check(c) \/ CallStep(c)
    \/ ExpireURL \/ ExpireToken \/ \E h \in Hosts : Outage(h)

FetcherSpec == FetcherInit /\ [][FetcherNext]_fetcherVars

-----------------------------------------------------------------------------
(* Properties. *)

\* A fetch or a check fails only for what happens during it: an expired URL, a stale
\* token or a server without multiple ranges that it meets is dealt with by its one
\* retry, also when another caller replaces the URL or changes the mode meanwhile.
\* Excused are a registry that is down when the call begins, a fetch that needs both
\* fallbacks, and a call that meets an expired URL another caller stores late.
FetchRecovers ==
    \A c \in Callers : call[c].pc = "failed" => call[c].excused \/ call[c].disturbed
=============================================================================
