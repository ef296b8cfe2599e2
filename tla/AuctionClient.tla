--------------------------- MODULE AuctionClient ---------------------------
(***************************************************************************)
(* The client of the auction site: class AuctionClient of                  *)
(* src/bc_auction/client.py, used by one thread.                           *)
(*                                                                         *)
(* An operation (a task) is a sequence of calls of _request, where each    *)
(* page names the URL of the next one.  A call follows redirects, each hop *)
(* is tried several times, and every try waits for the request slot.  The  *)
(* site and the network (external) answer anything, after any time; the    *)
(* timeout of httpx, which limits the wait for each part of the answer and *)
(* not the whole of it, counts as an answer.                               *)
(*                                                                         *)
(* Data.  A URL is a model value; OnHost are the ones with the scheme and  *)
(* the host of base_url.  The fields of a form are present or not.  Time   *)
(* is counted in ticks, as the time since the last request started (since, *)
(* kept up to MinInterval, beyond which it makes no difference) and the    *)
(* rest of a time.sleep (sleep).  The metrics, which the program only adds *)
(* to and reports, are counted anew for every operation.                   *)
(***************************************************************************)
EXTENDS Integers, FiniteSets

CONSTANTS
    Urls, OnHost,
    Sessions,        \* session ids the site hands out
    MaxRedirects, MaxRetries,
    MinInterval,     \* min_request_interval
    RetryBackoff,    \* retry_backoff
    MaxBackoff,      \* the five seconds of _sleep_for_retry
    MaxRetryAfter,   \* bound on the delay the site asks for
    None

ASSUME ClientAssumption ==
    /\ OnHost \subseteq Urls
    /\ None \notin Sessions
    /\ MaxRedirects \in Nat /\ MaxRetries \in Nat
    /\ MinInterval \in Nat /\ RetryBackoff \in Nat /\ MaxBackoff \in Nat
    /\ MaxRetryAfter \in Nat

VARIABLES
    task, left,                   \* the operation, and the pages it still needs
    pc, method, url, data,        \* _request
    redirects, visited,
    retries,                      \* _send_with_retries
    since, sleep,                 \* time
    cookie, form,                 \* sessions of the cookie jar and of _search_form
    closed,                       \* the client has been closed
    metrics,
    sent, dropped                 \* history: requests of this call, and requests of
                                  \* this operation that ended in an unexpected error

operation == <<task, left, cookie, form, closed>>
hop == <<method, url, data, redirects, visited>>
vars == <<task, left, pc, method, url, data, redirects, visited, retries, since, sleep,
          cookie, form, closed, metrics, sent, dropped>>

Kinds == {"prepare", "search", "detail", "page"}

\* SourceRequestMetrics, without the durations
NoMetrics ==
    [requests_attempted |-> 0, responses_received |-> 0, retries |-> 0,
     rate_limit_responses |-> 0, transport_errors |-> 0]

Init ==
    /\ task = "none" /\ left = 0
    /\ pc = "idle" /\ method = "GET" /\ url \in OnHost /\ data = FALSE
    /\ redirects = 0 /\ visited = {} /\ retries = 0
    /\ since = MinInterval /\ sleep = 0
    /\ cookie = None /\ form = None /\ closed = FALSE
    /\ metrics = NoMetrics
    /\ sent = 0 /\ dropped = 0

-----------------------------------------------------------------------------
(* Operations                                                              *)

\* _request up to its loop; _check_host raises before anything is sent.
Request(m, u, d) ==
    /\ method' = m /\ url' = u /\ data' = d
    /\ redirects' = 0 /\ visited' = {<<m, u>>} /\ retries' = 0 /\ sent' = 0
    /\ pc' = IF u \in OnHost THEN "slot" ELSE "raised"

\* Prepare a search, search a product group, fetch an item's detail or the
\* next page of results.  Without a form, _require_search_form raises.
Begin(kind, u) ==
    /\ task = "none" /\ ~closed
    /\ kind = "prepare" => u \in OnHost
    /\ kind = "search" => form # None
    /\ task' = kind
    /\ left' = IF kind \in {"prepare", "detail"} THEN 3 ELSE 1
    /\ IF kind = "search" THEN Request("POST", u, TRUE) ELSE Request("GET", u, FALSE)
    /\ metrics' = NoMetrics /\ dropped' = 0
    /\ UNCHANGED <<since, sleep, cookie, form, closed>>

\* The welcome page of prepare_open_auction_search has a session id, which
\* goes to the cookie, and a frame.
WelcomePage(session, u) ==
    /\ pc = "page" /\ task = "prepare" /\ left = 3
    /\ cookie' = session
    /\ left' = 2
    /\ Request("GET", u, FALSE)
    /\ UNCHANGED <<task, since, sleep, form, closed, metrics, dropped>>

\* Its frame names the form, and a detail frame the next document.
InnerPage(u) ==
    /\ pc = "page"
    /\ (task = "prepare" /\ left = 2) \/ (task = "detail" /\ left > 1)
    /\ left' = left - 1
    /\ Request("GET", u, FALSE)
    /\ UNCHANGED <<task, since, sleep, cookie, form, closed, metrics, dropped>>

Done ==
    /\ task' = "none" /\ left' = 0 /\ pc' = "idle"
    /\ UNCHANGED <<hop, retries, since, sleep, closed, metrics, sent, dropped>>

\* Fault: only the session of the welcome page goes to the cookie.
FaultFormSessionNotSet(session) ==
    /\ pc = "page" /\ task = "prepare" /\ left = 1
    /\ form' = session
    /\ Done
    /\ UNCHANGED cookie

FormPage(session) ==
    /\ pc = "page" /\ task = "prepare" /\ left = 1
    /\ cookie' = session /\ form' = session
    /\ Done

LastPage ==
    /\ pc = "page" /\ task # "prepare" /\ left = 1
    /\ Done
    /\ UNCHANGED <<cookie, form>>

\* ParserContractError on a page that had to name the next one.  The welcome
\* page and the form may have set the cookie before the rest of them fails.
ParseError ==
    /\ pc = "page" /\ (task = "prepare" \/ left > 1)
    /\ pc' = "raised"
    /\ \/ cookie' = cookie
       \/ task = "prepare" /\ left # 2 /\ cookie' \in Sessions
    /\ UNCHANGED <<task, left, form, closed, hop, retries, since, sleep, metrics, sent, dropped>>

\* Fault: a call that fails is made again until it works.
FaultAbortRepeats ==
    /\ pc = "raised"
    /\ Request(method, url, data)
    /\ metrics' = NoMetrics /\ dropped' = 0
    /\ UNCHANGED <<operation, since, sleep>>

\* The exception leaves the operation.  The scrape goes on after a detail page
\* it could not get, and closes the client after anything else.
Abort ==
    /\ pc = "raised"
    /\ task' = "none" /\ left' = 0 /\ pc' = "idle"
    /\ closed' = (task # "detail")
    /\ UNCHANGED <<hop, retries, since, sleep, cookie, form, metrics, sent, dropped>>

-----------------------------------------------------------------------------
(* One try                                                                 *)

\* _wait_for_request_slot: sleep what remains of the interval ...
WaitForRequestSlot ==
    /\ pc = "slot" /\ sleep = 0
    /\ sleep' = MinInterval - since
    /\ pc' = "ready"
    /\ UNCHANGED <<operation, hop, retries, since, metrics, sent, dropped>>

\* ... and note the time before _send_request.
SendRequest ==
    /\ pc = "ready" /\ sleep = 0
    /\ since' = 0
    /\ metrics' = [metrics EXCEPT !.requests_attempted = @ + 1]
    /\ sent' = sent + 1
    /\ pc' = "sent"
    /\ UNCHANGED <<operation, hop, retries, sleep, dropped>>

BoundedBackoff(n) ==
    IF RetryBackoff * 2^n < MaxBackoff THEN RetryBackoff * 2^n ELSE MaxBackoff

\* Fault: one try too many.
FaultOneRetryMore == retries <= MaxRetries

MayRetry == retries < MaxRetries

\* Fault: the retry is sent without waiting for a slot of its own.
FaultRetryWithoutSlot(delay) ==
    /\ sleep' = IF delay = None THEN BoundedBackoff(retries) ELSE delay
    /\ retries' = retries + 1
    /\ pc' = "ready"

\* _sleep_for_retry, and round the loop again
Retry(delay) ==
    /\ sleep' = IF delay = None THEN BoundedBackoff(retries) ELSE delay
    /\ retries' = retries + 1
    /\ pc' = "slot"

\* Connection and read errors, time outs included.
TransportError ==
    /\ pc = "sent"
    /\ IF MayRetry THEN Retry(None) ELSE pc' = "raised" /\ UNCHANGED <<sleep, retries>>
    /\ metrics' = [metrics EXCEPT !.transport_errors = @ + 1,
                                  !.retries = @ + IF MayRetry THEN 1 ELSE 0]
    /\ UNCHANGED <<operation, hop, since, sent, dropped>>

\* Any other error of httpx is neither retried nor counted.
UnexpectedError ==
    /\ pc = "sent"
    /\ pc' = "raised"
    /\ dropped' = dropped + 1
    /\ UNCHANGED <<operation, hop, retries, since, sleep, metrics, sent>>

\* Fault: the busy answers of the rate limit are counted apart.
FaultRateLimitApart(rate_limited) ==
    [metrics EXCEPT !.responses_received = @ + IF rate_limited THEN 0 ELSE 1,
                    !.rate_limit_responses = @ + IF rate_limited THEN 1 ELSE 0,
                    !.retries = @ + IF MayRetry THEN 1 ELSE 0]

BusyMetrics(rate_limited) ==
    [metrics EXCEPT !.responses_received = @ + 1,
                    !.rate_limit_responses = @ + IF rate_limited THEN 1 ELSE 0,
                    !.retries = @ + IF MayRetry THEN 1 ELSE 0]

\* 429, 502, 503 and 504, with the Retry-After the site asks for.  Once the
\* tries are used up the response is returned, and raise_for_status raises.
RetryableResponse(rate_limited, retry_after) ==
    /\ pc = "sent"
    /\ IF MayRetry THEN Retry(retry_after) ELSE pc' = "raised" /\ UNCHANGED <<sleep, retries>>
    /\ metrics' = BusyMetrics(rate_limited)
    /\ UNCHANGED <<operation, hop, since, sent, dropped>>

Received(next) ==
    /\ metrics' = [metrics EXCEPT !.responses_received = @ + 1]
    /\ pc' = next
    /\ UNCHANGED <<operation, since, sleep, sent, dropped>>

\* A page that raise_for_status and _validate_html_response accept, or not.
FinalResponse(accepted) ==
    /\ pc = "sent"
    /\ Received(IF accepted THEN "page" ELSE "raised")
    /\ UNCHANGED <<hop, retries>>

\* Status codes: 302 found, 303 see_other, 301 moved, any other 3xx.
RedirectMethod(status) ==
    IF status \in {"see_other", "found"} \/ (status = "moved" /\ method = "POST")
    THEN "GET" ELSE method

\* Fault: the number of redirects is compared after it was counted.
FaultRedirectLimit(u, m) ==
    \/ redirects > MaxRedirects
    \/ u = None
    \/ u \notin OnHost
    \/ <<m, u>> \in visited

\* Fault: the target of a redirect is not checked.
FaultRedirectUnchecked(u, m) ==
    redirects >= MaxRedirects \/ u = None \/ <<m, u>> \in visited

\* The errors of the redirect branch of _request: limit, no Location, a
\* target outside the host, a request made before.
RedirectRefused(u, m) ==
    \/ redirects >= MaxRedirects
    \/ u = None
    \/ u \notin OnHost
    \/ <<m, u>> \in visited

RedirectData(m) == data /\ m = method

Redirect(status, u) ==
    LET m == RedirectMethod(status) IN
    /\ pc = "sent"
    /\ IF RedirectRefused(u, m)
       THEN Received("raised") /\ UNCHANGED <<hop, retries>>
       ELSE /\ Received("slot")
            /\ redirects' = redirects + 1 /\ visited' = visited \cup {<<m, u>>}
            /\ method' = m /\ url' = u /\ data' = RedirectData(m)
            /\ retries' = 0

Tick ==
    /\ sleep > 0 \/ since < MinInterval
    /\ since' = IF since < MinInterval THEN since + 1 ELSE since
    /\ sleep' = IF sleep > 0 THEN sleep - 1 ELSE 0
    /\ UNCHANGED <<operation, hop, pc, retries, metrics, sent, dropped>>

-----------------------------------------------------------------------------
\* What the site and the network make of a request.
Answer ==
    \/ TransportError
    \/ UnexpectedError
    \/ \E limited \in BOOLEAN, after \in (0..MaxRetryAfter) \cup {None} :
        RetryableResponse(limited, after)
    \/ \E accepted \in BOOLEAN : FinalResponse(accepted)
    \/ \E status \in {"found", "see_other", "moved", "other"}, u \in Urls \cup {None} :
        Redirect(status, u)

Proceed ==
    \/ \E session \in Sessions, u \in Urls : WelcomePage(session, u)
    \/ \E u \in Urls : InnerPage(u)
    \/ \E session \in Sessions : FormPage(session)
    \/ LastPage
    \/ ParseError
    \/ Abort
    \/ WaitForRequestSlot
    \/ SendRequest

Next ==
    \/ \E kind \in Kinds, u \in Urls : Begin(kind, u)
    \/ Proceed
    \/ Answer
    \/ Tick

Spec == Init /\ [][Next]_vars

\* The thread runs and time passes.  That an answer ends is assumed of the
\* site: a body that keeps trickling within the timeout of each read is
\* bounded neither by httpx nor by the size check, which follows the last byte.
FairSpec == Spec /\ WF_vars(Proceed) /\ WF_vars(Answer) /\ WF_vars(Tick)

-----------------------------------------------------------------------------
(* Properties                                                              *)

Counters ==
    [requests_attempted: Nat, responses_received: Nat, retries: Nat,
     rate_limit_responses: Nat, transport_errors: Nat]

\* The locals of _request, the timers, the session state and the counters.
TypeOK ==
    /\ task \in Kinds \cup {"none"} /\ left \in 0..3
    /\ pc \in {"idle", "slot", "ready", "sent", "page", "raised"}
    /\ method \in {"GET", "POST"} /\ url \in Urls /\ data \in BOOLEAN
    /\ redirects \in 0..MaxRedirects /\ visited \subseteq {"GET", "POST"} \X Urls
    /\ retries \in 0..MaxRetries
    /\ since \in 0..MinInterval /\ sleep \in Nat
    /\ cookie \in Sessions \cup {None} /\ form \in Sessions \cup {None} /\ closed \in BOOLEAN
    /\ metrics \in Counters
    /\ sent \in Nat /\ dropped \in Nat

\* However the site mixes redirects, errors and busy answers, one call of
\* _request sends at most (max_redirects + 1) * (max_retries + 1) requests:
\* the two loops multiply, and neither can restart the other.
RequestsBounded == sent <= (MaxRedirects + 1) * (MaxRetries + 1)

\* Nothing is ever sent outside the configured scheme and host, whether the
\* URL comes from the caller, from a page of the site or from a redirect.
StaysOnHost == pc \in {"slot", "ready", "sent"} => url \in OnHost

\* The form goes out exactly with POST: no chain of redirects turns it into a
\* GET with a body, or into a POST that has lost it.
FormFollowsMethod == pc \in {"slot", "ready", "sent"} => (data <=> method = "POST")

\* A call requests each method and URL in one hop only.
HopsDistinct ==
    pc \in {"slot", "ready", "sent"} =>
        Cardinality(visited) = redirects + 1 /\ <<method, url>> \in visited

\* Whatever chain of redirects a call follows, each of its hops is on the host,
\* carries the form exactly with POST, and is a request not made before.
HopsSafe == StaysOnHost /\ FormFollowsMethod /\ HopsDistinct

\* The metrics a run stores explain every request: each one attempted had a
\* response or a counted transport error, except those still in flight or
\* ended by an unexpected error; a rate limit is a response too, and every
\* retry has a response or an error that caused it.
MetricsAddUp ==
    /\ metrics.requests_attempted =
        metrics.responses_received + metrics.transport_errors + dropped
            + IF pc = "sent" THEN 1 ELSE 0
    /\ metrics.rate_limit_responses <= metrics.responses_received
    /\ metrics.retries <= metrics.responses_received + metrics.transport_errors

\* A product group is searched with the cookie of the session the form
\* belongs to, also when the welcome page and the form named different ones.
SearchInSession == task = "search" => cookie = form

\* Two requests are never started closer to each other than
\* min_request_interval, on whatever path the second one comes: a retry after
\* a short backoff or a Retry-After of zero, a redirect, the next page.
RequestsSpaced ==
    [][sent' > sent => since = MinInterval]_vars

\* Every operation ends, with its page or with an error.
TaskEnds == task # "none" ~> task = "none"

=============================================================================
