------------------------ MODULE AuctionClientProofs ------------------------
(***************************************************************************)
(* What AuctionClient guarantees for any site, any bounds on redirects and *)
(* retries, and any request interval.                                      *)
(***************************************************************************)
EXTENDS AuctionClient, FiniteSetTheorems, TLAPS

InCall == {"slot", "ready", "sent"}

\* What a step does to the call of _request it belongs to: begin one, leave
\* it, wait, send, try again, follow a redirect.
CallStep ==
    \/ \E m \in {"GET", "POST"}, u \in Urls, d \in BOOLEAN :
        Request(m, u, d) /\ (d <=> m = "POST")
    \/ pc' \in {"idle", "page", "raised"} /\ UNCHANGED <<hop, retries, sent>>
    \/ pc' = pc /\ UNCHANGED <<hop, retries, sent>>
    \/ pc = "slot" /\ pc' = "ready" /\ UNCHANGED <<hop, retries, sent>>
    \/ pc = "ready" /\ pc' = "sent" /\ sent' = sent + 1 /\ UNCHANGED <<hop, retries>>
    \/ /\ pc = "sent" /\ pc' = "slot" /\ retries < MaxRetries /\ retries' = retries + 1
       /\ UNCHANGED <<hop, sent>>
    \/ \E m \in {"GET", "POST"}, u \in Urls :
        /\ pc = "sent" /\ pc' = "slot" /\ ~RedirectRefused(u, m)
        /\ redirects' = redirects + 1 /\ visited' = visited \cup {<<m, u>>}
        /\ method' = m /\ url' = u /\ data' = RedirectData(m) /\ retries' = 0
        /\ m \in {"GET", method} /\ UNCHANGED sent

\* The locals of _request are well typed.
Locals ==
    /\ pc \in {"idle", "slot", "ready", "sent", "page", "raised"}
    /\ method \in {"GET", "POST"} /\ url \in Urls /\ data \in BOOLEAN
    /\ redirects \in 0..MaxRedirects /\ retries \in 0..MaxRetries /\ sent \in Nat
    /\ visited \subseteq {"GET", "POST"} \X Urls

\* Every step of the client is one of these steps of a call.
LEMMA NextIsCallStep == Locals /\ [Next]_vars => CallStep
<1> SUFFICES ASSUME Locals, [Next]_vars PROVE CallStep
  OBVIOUS
<1> USE DEF operation, hop
<1>1. CASE UNCHANGED vars
  BY <1>1 DEF vars, CallStep
<1>2. CASE Tick
  BY <1>2 DEF Tick, CallStep
<1>3. ASSUME NEW kind \in Kinds, NEW u \in Urls, Begin(kind, u) PROVE CallStep
  <2>1. CASE kind = "search"
    <3>1. Request("POST", u, TRUE)
      BY <1>3, <2>1 DEF Begin
    <3>2. QED  BY <3>1 DEF CallStep
  <2>2. CASE kind # "search"
    <3>1. Request("GET", u, FALSE)
      BY <1>3, <2>2 DEF Begin
    <3>2. QED  BY <3>1 DEF CallStep
  <2>3. QED  BY <2>1, <2>2
<1>4. ASSUME NEW u \in Urls, Request("GET", u, FALSE) PROVE CallStep
  BY <1>4 DEF CallStep
<1>5. CASE Proceed
  BY <1>4, <1>5 DEF Proceed, WelcomePage, InnerPage, FormPage, Done, LastPage, ParseError, Abort,
                    WaitForRequestSlot, SendRequest, CallStep
<1>6. ASSUME NEW status, NEW u \in Urls \cup {None}, Redirect(status, u) PROVE CallStep
  <2> DEFINE m == RedirectMethod(status)
  <2>1. m \in {"GET", "POST"} /\ m \in {"GET", method}
    BY DEF RedirectMethod, Locals
  <2>2. CASE RedirectRefused(u, m)
    BY <1>6, <2>2 DEF Redirect, Received, CallStep
  <2>3. CASE ~RedirectRefused(u, m)
    <3>1. u \in Urls
      BY <2>3 DEF RedirectRefused
    <3>2. QED  BY <1>6, <2>1, <2>3, <3>1 DEF Redirect, Received, CallStep
  <2>4. QED  BY <2>2, <2>3
<1>7. CASE Answer
  BY <1>6, <1>7 DEF Answer, TransportError, Retry, MayRetry, UnexpectedError, RetryableResponse,
                    FinalResponse, Received, CallStep
<1>8. QED  BY <1>1, <1>2, <1>3, <1>5, <1>7 DEF Next

\* The budget of requests: what earlier hops can have used, and the tries of
\* this one.
Budget ==
    LET used == redirects * (MaxRetries + 1) + retries IN
    /\ sent <= (MaxRedirects + 1) * (MaxRetries + 1)
    /\ pc \in {"slot", "ready"} => sent <= used
    /\ pc = "sent" => sent <= used + 1

\* HopsDistinct, with what counting the visited hops needs.
Hops == pc \in InCall => IsFiniteSet(visited) /\ HopsDistinct

CallInv == Locals /\ StaysOnHost /\ FormFollowsMethod /\ Hops /\ Budget

\* A hop leaves room for the next one's tries within the bound.
LEMMA HopBound ==
    ASSUME NEW h \in Nat, NEW H \in Nat, NEW k \in Nat, h <= H
    PROVE  /\ h * (k + 1) \in Nat
           /\ h * (k + 1) + k + 1 <= (H + 1) * (k + 1)
           /\ (h + 1) * (k + 1) = h * (k + 1) + k + 1
<1>1. (h + 1) * (k + 1) = h * (k + 1) + k + 1
  OBVIOUS
<1>2. PICK d \in Nat : H = h + d
  <2>1. H - h \in Nat /\ H = h + (H - h)
    OBVIOUS
  <2>2. QED  BY <2>1
<1>3. (H + 1) * (k + 1) = (h + 1) * (k + 1) + d * (k + 1)
  BY <1>2
<1>4. d * (k + 1) \in Nat /\ h * (k + 1) \in Nat
  OBVIOUS
<1>5. QED  BY <1>1, <1>3, <1>4

\* Before the first call nothing has been sent.
LEMMA InitCallInv == Init => CallInv
<1>1. Init => Budget
  <2>1. 0 <= (MaxRedirects + 1) * (MaxRetries + 1)
    BY ClientAssumption, HopBound
  <2>2. QED  BY <2>1 DEF Init, Budget
<1>2. Init => Locals
  <2>1. Init => data \in BOOLEAN
    BY Zenon DEF Init
  <2>2. QED  BY <2>1, ClientAssumption DEF Init, Locals
<1>3. Init => StaysOnHost /\ FormFollowsMethod /\ Hops
  BY DEF Init, StaysOnHost, FormFollowsMethod, Hops, InCall
<1>4. QED  BY <1>1, <1>2, <1>3 DEF CallInv

\* A step of a call keeps the locals well typed.
LEMMA CallTypes == Locals /\ CallStep => Locals'
<1> SUFFICES ASSUME Locals, CallStep PROVE Locals'
  OBVIOUS
<1>1. data' \in BOOLEAN
  BY Zenon DEF Locals, CallStep, Request, RedirectData, hop
<1>2. /\ pc' \in {"idle", "slot", "ready", "sent", "page", "raised"}
      /\ method' \in {"GET", "POST"} /\ url' \in Urls
  BY DEF Locals, CallStep, Request, hop
<1>3. redirects' \in 0..MaxRedirects /\ retries' \in 0..MaxRetries /\ sent' \in Nat
  <2>1. \A u, m : ~RedirectRefused(u, m) => redirects < MaxRedirects
    BY ClientAssumption DEF RedirectRefused, Locals
  <2>2. redirects' \in 0..MaxRedirects
    BY <2>1, ClientAssumption DEF Locals, CallStep, Request, hop
  <2>3. retries' \in 0..MaxRetries /\ sent' \in Nat
    BY ClientAssumption DEF Locals, CallStep, Request
  <2>4. QED  BY <2>2, <2>3
<1>4. visited' \subseteq {"GET", "POST"} \X Urls
  BY DEF Locals, CallStep, Request, hop
<1>5. QED  BY <1>1, <1>2, <1>3, <1>4 DEF Locals

\* No step of a call leaves the host or parts the form from its method.
LEMMA CallTargets ==
    Locals /\ StaysOnHost /\ FormFollowsMethod /\ CallStep => StaysOnHost' /\ FormFollowsMethod'
<1> SUFFICES ASSUME Locals, StaysOnHost, FormFollowsMethod, CallStep
             PROVE  StaysOnHost' /\ FormFollowsMethod'
  OBVIOUS
<1>1. StaysOnHost'
  BY DEF StaysOnHost, CallStep, Request, RedirectRefused, hop
<1>2. ASSUME pc' \notin InCall PROVE FormFollowsMethod'
  BY Zenon, <1>2 DEF FormFollowsMethod, InCall
<1>3. ASSUME NEW m \in {"GET", "POST"}, NEW u \in Urls, NEW d \in BOOLEAN,
             Request(m, u, d), d <=> m = "POST"
      PROVE  FormFollowsMethod'
  <2>1. data' = d /\ method' = m
    BY Zenon, <1>3 DEF Request
  <2>2. QED  BY Zenon, <1>3, <2>1 DEF FormFollowsMethod
<1>4. ASSUME pc \in InCall, UNCHANGED hop PROVE FormFollowsMethod'
  <2>1. data' = data /\ method' = method
    BY <1>4 DEF hop
  <2>2. data <=> method = "POST"
    BY Zenon, <1>4 DEF FormFollowsMethod, InCall
  <2>3. QED  BY Zenon, <2>1, <2>2 DEF FormFollowsMethod
<1>5. ASSUME NEW m \in {"GET", "POST"}, pc \in InCall, m \in {"GET", method}, method' = m,
             data' = RedirectData(m)
      PROVE  FormFollowsMethod'
  <2>1. data <=> method = "POST"
    BY Zenon, <1>5 DEF FormFollowsMethod, InCall
  <2>2. "GET" # "POST"
    OBVIOUS
  <2>3. QED  BY Zenon, <1>5, <2>1, <2>2 DEF FormFollowsMethod, RedirectData
<1>6. ASSUME pc' \in InCall PROVE FormFollowsMethod'
  <2>1. \/ \E m \in {"GET", "POST"}, u \in Urls, d \in BOOLEAN :
            Request(m, u, d) /\ (d <=> m = "POST")
        \/ pc \in InCall /\ UNCHANGED hop
        \/ \E m \in {"GET", "POST"} :
            pc \in InCall /\ m \in {"GET", method} /\ method' = m /\ data' = RedirectData(m)
    BY <1>6 DEF CallStep, InCall
  <2>2. CASE \E m \in {"GET", "POST"}, u \in Urls, d \in BOOLEAN :
            Request(m, u, d) /\ (d <=> m = "POST")
    BY Zenon, <1>3, <2>2
  <2>3. CASE pc \in InCall /\ UNCHANGED hop
    BY Zenon, <1>4, <2>3
  <2>4. CASE \E m \in {"GET", "POST"} :
            pc \in InCall /\ m \in {"GET", method} /\ method' = m /\ data' = RedirectData(m)
    BY Zenon, <1>5, <2>4
  <2>5. QED  BY Zenon, <2>1, <2>2, <2>3, <2>4
<1>7. QED  BY Zenon, <1>1, <1>2, <1>6

\* Every hop of a call adds one pair to the visited ones.
LEMMA CallHops == Locals /\ Hops /\ CallStep => Hops'
<1> SUFFICES ASSUME Locals, Hops, CallStep, pc' \in InCall
             PROVE  IsFiniteSet(visited') /\ HopsDistinct'
  BY DEF Hops
<1>1. CASE \E m \in {"GET", "POST"}, u \in Urls, d \in BOOLEAN : Request(m, u, d)
  <2>1. PICK m \in {"GET", "POST"}, u \in Urls, d \in BOOLEAN : Request(m, u, d)
    BY <1>1
  <2>2. IsFiniteSet({<<m, u>>}) /\ Cardinality({<<m, u>>}) = 1
    BY FS_Singleton
  <2>3. QED  BY <2>1, <2>2 DEF Request, HopsDistinct
<1>2. CASE pc \in InCall /\ UNCHANGED hop
  BY <1>2 DEF Hops, HopsDistinct, InCall, hop
<1>3. ASSUME NEW m \in {"GET", "POST"}, NEW u \in Urls,
             pc = "sent", ~RedirectRefused(u, m), redirects' = redirects + 1,
             visited' = visited \cup {<<m, u>>}, method' = m, url' = u
      PROVE  IsFiniteSet(visited') /\ HopsDistinct'
  <2>1. IsFiniteSet(visited) /\ Cardinality(visited) = redirects + 1 /\ <<m, u>> \notin visited
    BY <1>3 DEF Hops, HopsDistinct, InCall, RedirectRefused
  <2>2. IsFiniteSet(visited') /\ Cardinality(visited') = Cardinality(visited) + 1
    BY <1>3, <2>1, FS_AddElement
  <2>3. QED  BY <1>3, <2>1, <2>2 DEF HopsDistinct
<1>4. QED  BY <1>1, <1>2, <1>3 DEF CallStep, InCall

\* No step of a call overdraws the budget: a try adds one to both sides, and a
\* redirect gives up the tries its hop has not used.
LEMMA CallBudget == Locals /\ Budget /\ CallStep => Budget'
<1> SUFFICES ASSUME Locals, Budget, CallStep PROVE Budget'
  OBVIOUS
<1> DEFINE k == MaxRetries + 1
<1>1. /\ redirects * k \in Nat
      /\ redirects * k + k <= (MaxRedirects + 1) * k
      /\ (redirects + 1) * k = redirects * k + k
      /\ (MaxRedirects + 1) * k \in Nat
      /\ 0 * k = 0
      /\ retries <= MaxRetries /\ retries \in Nat /\ MaxRetries \in Nat
  BY ClientAssumption, HopBound DEF Locals
<1> HIDE DEF k
<1>2. QED
  BY <1>1, ClientAssumption DEF Budget, CallStep, Locals, Request, hop

\* The invariant of a call.
LEMMA StepCallInv == CallInv /\ [Next]_vars => CallInv'
  BY NextIsCallStep, CallTypes, CallTargets, CallHops, CallBudget DEF CallInv

\* The invariant of a call holds of every operation.
THEOREM CallsSafe == Spec => []CallInv
  BY InitCallInv, StepCallInv, PTL DEF Spec

\* One call of _request sends at most (max_redirects + 1) * (max_retries + 1)
\* requests, whatever the site answers.
THEOREM RequestsAreBounded == Spec => []RequestsBounded
<1>1. CallInv => RequestsBounded
  BY DEF CallInv, Budget, RequestsBounded
<1>2. QED  BY <1>1, CallsSafe, PTL

\* Nothing is sent outside the configured scheme and host.
THEOREM NeverOffHost == Spec => []StaysOnHost
<1>1. CallInv => StaysOnHost
  BY DEF CallInv
<1>2. QED  BY <1>1, CallsSafe, PTL

\* The form goes out exactly with POST, through any chain of redirects.
THEOREM FormWithPost == Spec => []FormFollowsMethod
<1>1. CallInv => FormFollowsMethod
  BY DEF CallInv
<1>2. QED  BY <1>1, CallsSafe, PTL

\* A call requests each method and URL in one hop only.
THEOREM NoHopTwice == Spec => []HopsDistinct
<1>1. CallInv => HopsDistinct
  BY DEF CallInv, Hops, InCall, HopsDistinct
<1>2. QED  BY <1>1, CallsSafe, PTL

\* Every hop of every call is safe.
THEOREM HopsAreSafe == Spec => []HopsSafe
  BY NeverOffHost, FormWithPost, NoHopTwice, PTL DEF HopsSafe

-----------------------------------------------------------------------------
(* The operation: its metrics and its session                              *)

CounterTypes == metrics \in Counters /\ dropped \in Nat

\* No request goes uncounted, on any path of _send_with_retries.
LEMMA StepMetrics ==
    CounterTypes /\ MetricsAddUp /\ [Next]_vars => CounterTypes' /\ MetricsAddUp'
<1> SUFFICES ASSUME CounterTypes, MetricsAddUp, [Next]_vars PROVE CounterTypes' /\ MetricsAddUp'
  OBVIOUS
<1> USE DEF CounterTypes, MetricsAddUp, Counters, operation, hop
<1>1. CASE pc # "sent" /\ pc' # "sent" /\ UNCHANGED <<metrics, dropped>>
  BY <1>1
<1>2. ASSUME NEW m, NEW u, NEW d, Request(m, u, d) PROVE pc' # "sent"
  BY <1>2 DEF Request
<1>3. ASSUME NEW kind \in Kinds, NEW u \in Urls, Begin(kind, u)
      PROVE  CounterTypes' /\ MetricsAddUp'
  <2>1. pc' # "sent" /\ metrics' = NoMetrics /\ dropped' = 0
    BY <1>2, <1>3 DEF Begin
  <2>2. QED  BY <2>1 DEF NoMetrics
<1>4. CASE SendRequest
  BY <1>4 DEF SendRequest
<1>5. CASE Proceed /\ ~SendRequest
  BY <1>1, <1>2, <1>5
  DEF Proceed, WelcomePage, InnerPage, FormPage, Done, LastPage, ParseError, Abort, WaitForRequestSlot
<1>6. CASE TransportError
  <2>1. pc = "sent" /\ pc' # "sent" /\ UNCHANGED dropped
    BY <1>6 DEF TransportError, Retry
  <2>2. PICK n \in {0, 1} : metrics' = [metrics EXCEPT !.transport_errors = @ + 1,
                                                        !.retries = @ + n]
    BY <1>6 DEF TransportError
  <2>3. metrics' \in Counters
    <3>1. metrics.transport_errors + 1 \in Nat /\ metrics.retries + n \in Nat
      OBVIOUS
    <3>2. QED  BY <2>2, <3>1
  <2>4. /\ metrics'.requests_attempted = metrics.requests_attempted
        /\ metrics'.responses_received = metrics.responses_received
        /\ metrics'.rate_limit_responses = metrics.rate_limit_responses
        /\ metrics'.transport_errors = metrics.transport_errors + 1
        /\ metrics'.retries = metrics.retries + n
    BY <2>2
  <2>5. QED  BY <2>1, <2>3, <2>4
<1>7. CASE UnexpectedError
  BY <1>7 DEF UnexpectedError
<1>8. ASSUME NEW limited \in BOOLEAN, NEW after, RetryableResponse(limited, after)
      PROVE  CounterTypes' /\ MetricsAddUp'
  <2>1. pc = "sent" /\ pc' # "sent" /\ UNCHANGED dropped
    BY <1>8 DEF RetryableResponse, Retry
  <2>2. PICK n \in {0, 1}, l \in {0, 1} :
          metrics' = [metrics EXCEPT !.responses_received = @ + 1,
                                     !.rate_limit_responses = @ + l,
                                     !.retries = @ + n]
    BY <1>8 DEF RetryableResponse, BusyMetrics
  <2>3. metrics' \in Counters
    <3>1. /\ metrics.responses_received + 1 \in Nat
          /\ metrics.rate_limit_responses + l \in Nat
          /\ metrics.retries + n \in Nat
      OBVIOUS
    <3>2. QED  BY <2>2, <3>1
  <2>4. /\ metrics'.requests_attempted = metrics.requests_attempted
        /\ metrics'.responses_received = metrics.responses_received + 1
        /\ metrics'.rate_limit_responses = metrics.rate_limit_responses + l
        /\ metrics'.transport_errors = metrics.transport_errors
        /\ metrics'.retries = metrics.retries + n
    BY <2>2
  <2>5. QED  BY <2>1, <2>3, <2>4
<1>9. ASSUME pc = "sent", NEW next \in {"slot", "page", "raised"}, Received(next)
      PROVE  CounterTypes' /\ MetricsAddUp'
  BY <1>9 DEF Received
<1>10. CASE Tick \/ UNCHANGED vars
  BY <1>10 DEF Tick, vars
<1>11. QED
  BY <1>3, <1>4, <1>5, <1>6, <1>7, <1>8, <1>9, <1>10 DEF Next, Answer, FinalResponse, Redirect

\* The metrics a run stores explain every request it made.
THEOREM MetricsExplainRequests == Spec => []MetricsAddUp
<1>1. Init => CounterTypes /\ MetricsAddUp
  BY DEF Init, NoMetrics, CounterTypes, Counters, MetricsAddUp
<1>2. QED  BY <1>1, StepMetrics, PTL DEF Spec

\* An open client whose form is ready has the cookie of the form's session,
\* except while it prepares the next form.
SessionInv ==
    /\ task # "prepare" /\ ~closed /\ form # None => cookie = form
    /\ task # "none" => ~closed
    /\ task = "search" => form # None

\* A search always carries the cookie of the session its form belongs to.
THEOREM SearchesInSession == Spec => []SearchInSession
<1>1. Init => SessionInv
  BY DEF Init, SessionInv
<1>2. ASSUME SessionInv, [Next]_vars PROVE SessionInv'
  <2> USE DEF SessionInv
  <2>1. ASSUME task' = task, cookie' = cookie, form' = form, closed' = closed PROVE SessionInv'
    BY Zenon, <1>2, <2>1
  <2>2. ASSUME NEW kind \in Kinds, NEW u \in Urls, Begin(kind, u) PROVE SessionInv'
    <3>1. /\ task = "none" /\ ~closed /\ (kind = "search" => form # None)
          /\ task' = kind /\ cookie' = cookie /\ form' = form /\ closed' = closed
      BY Zenon, <2>2 DEF Begin
    <3>2. task # "prepare"
      BY <3>1
    <3>3. QED  BY Zenon, <1>2, <3>1, <3>2
  <2>3. CASE \E session \in Sessions, u \in Urls : WelcomePage(session, u)
    <3>1. /\ task = "prepare" /\ task' = "prepare" /\ closed' = closed
          /\ task # "none" /\ task' # "search"
      BY <2>3 DEF WelcomePage
    <3>2. QED  BY Zenon, <1>2, <3>1
  <2>4. CASE \E session \in Sessions : FormPage(session)
    <3>1. task' = "none" /\ cookie' = form'
      BY <2>4 DEF FormPage, Done
    <3>2. QED  BY <3>1
  <2>5. CASE LastPage
    <3>1. /\ task # "prepare" /\ task' = "none"
          /\ cookie' = cookie /\ form' = form /\ closed' = closed
      BY <2>5 DEF LastPage, Done
    <3>2. task' # "search"
      BY <3>1
    <3>3. QED  BY Zenon, <1>2, <3>1, <3>2
  <2>6. CASE Abort
    <3>1. task' = "none" /\ cookie' = cookie /\ form' = form /\ closed' = (task # "detail")
      BY Zenon, <2>6 DEF Abort
    <3>2. task = "detail" => task # "none" /\ task # "prepare"
      OBVIOUS
    <3>3. QED  BY Zenon, <1>2, <3>1, <3>2
  <2>7. CASE (\E u \in Urls : InnerPage(u)) \/ WaitForRequestSlot \/ SendRequest
             \/ Answer \/ Tick \/ UNCHANGED vars
    <3>1. task' = task /\ cookie' = cookie /\ form' = form /\ closed' = closed
      BY <2>7
      DEF InnerPage, WaitForRequestSlot, SendRequest, Tick, Answer, TransportError,
          UnexpectedError, RetryableResponse, FinalResponse, Redirect, Received, vars, operation
    <3>2. QED  BY <2>1, <3>1
  <2>8. CASE ParseError
    <3>1. /\ task' = task /\ form' = form /\ closed' = closed
          /\ cookie' = cookie \/ task = "prepare"
      BY Zenon, <2>8 DEF ParseError
    <3>2. QED  BY Zenon, <1>2, <3>1
  <2>9. QED
    BY <1>2, <2>2, <2>3, <2>4, <2>5, <2>6, <2>7, <2>8 DEF Next, Proceed
<1>3. SessionInv => SearchInSession
  BY DEF SessionInv, SearchInSession
<1>4. QED  BY <1>1, <1>2, <1>3, PTL DEF Spec

-----------------------------------------------------------------------------
(* The request slot                                                        *)

\* While the client waits for its slot, the sleep covers the rest of the
\* interval.
SlotInv ==
    /\ since \in 0..MinInterval
    /\ pc = "ready" => sleep \in Nat /\ since + sleep >= MinInterval

\* The step inside RequestsSpaced.
SpacedStep == sent' > sent => since = MinInterval

\* No path to a request goes round the slot.
LEMMA StepSlot == SlotInv /\ [Next]_vars => SlotInv'
<1> SUFFICES ASSUME SlotInv, [Next]_vars PROVE SlotInv'
  OBVIOUS
<1> USE ClientAssumption DEF SlotInv, operation, hop
<1>1. CASE UNCHANGED since /\ pc' # "ready"
  BY <1>1
<1>2. ASSUME NEW m, NEW u, NEW d, Request(m, u, d) PROVE pc' # "ready"
  BY <1>2 DEF Request
<1>3. CASE WaitForRequestSlot
  BY <1>3 DEF WaitForRequestSlot
<1>4. CASE SendRequest
  BY <1>4 DEF SendRequest
<1>5. CASE Tick
  BY <1>5 DEF Tick
<1>6. CASE UNCHANGED vars
  BY <1>6 DEF vars
<1>7. CASE \E kind \in Kinds, u \in Urls : Begin(kind, u)
  BY <1>1, <1>2, <1>7 DEF Begin
<1>8. CASE Proceed /\ ~WaitForRequestSlot /\ ~SendRequest
  BY <1>1, <1>2, <1>8
  DEF Proceed, WelcomePage, InnerPage, FormPage, Done, LastPage, ParseError, Abort
<1>9. CASE Answer
  BY <1>1, <1>9
  DEF Answer, TransportError, Retry, UnexpectedError, RetryableResponse, FinalResponse,
      Redirect, Received
<1>10. QED  BY <1>3, <1>4, <1>5, <1>6, <1>7, <1>8, <1>9 DEF Next

\* Only SendRequest adds to the requests of a call.
LEMMA StepSpaced == Locals /\ SlotInv /\ [Next]_vars => [SpacedStep]_vars
<1> SUFFICES ASSUME Locals, SlotInv, Next PROVE SpacedStep
  BY DEF vars
<1> USE ClientAssumption DEF SpacedStep, Locals, operation, hop
<1>1. CASE sent' \in {0, sent}
  BY <1>1
<1>2. CASE SendRequest
  BY <1>2 DEF SendRequest, SlotInv
<1>3. ASSUME NEW m, NEW u, NEW d, Request(m, u, d) PROVE sent' = 0
  BY <1>3 DEF Request
<1>4. CASE \E kind \in Kinds, u \in Urls : Begin(kind, u)
  BY <1>1, <1>3, <1>4 DEF Begin
<1>5. CASE Proceed /\ ~SendRequest
  BY <1>1, <1>3, <1>5
  DEF Proceed, WelcomePage, InnerPage, FormPage, Done, LastPage, ParseError, Abort,
      WaitForRequestSlot
<1>6. CASE Answer \/ Tick
  BY <1>1, <1>6
  DEF Answer, TransportError, UnexpectedError, RetryableResponse, FinalResponse, Redirect,
      Received, Tick
<1>7. QED  BY <1>2, <1>4, <1>5, <1>6 DEF Next

\* Two requests are never started closer than min_request_interval.
THEOREM RequestsAreSpaced == Spec => RequestsSpaced
<1>1. Init => SlotInv
  BY ClientAssumption DEF Init, SlotInv
<1>2. CallInv => Locals
  BY DEF CallInv
<1>3. Spec => [][SpacedStep]_vars
  BY <1>1, <1>2, CallsSafe, StepSlot, StepSpaced, PTL DEF Spec
<1>4. QED  BY <1>3 DEF SpacedStep, RequestsSpaced

-----------------------------------------------------------------------------
(* The type invariant                                                      *)

\* A power of two is a natural number: it counts the subsets of an interval.
LEMMA PowerOfTwo == ASSUME NEW n \in Nat PROVE 2^n \in Nat
<1>1. IsFiniteSet(1..n) /\ Cardinality(1..n) = n
  BY FS_Interval
<1>2. IsFiniteSet(SUBSET (1..n)) /\ Cardinality(SUBSET (1..n)) = 2^n
  <2>1. Cardinality(SUBSET (1..n)) = 2^Cardinality(1..n) /\ IsFiniteSet(SUBSET (1..n))
    BY <1>1, FS_SUBSET
  <2>2. QED  BY <1>1, <2>1
<1>3. QED  BY <1>2, FS_CardinalityType

\* _sleep_for_retry sleeps a natural number of ticks, at most MaxBackoff.
LEMMA BackoffBounded ==
    ASSUME NEW n \in Nat
    PROVE  BoundedBackoff(n) \in 0..MaxBackoff
<1> DEFINE p == 2^n
<1>1. p \in Nat
  BY PowerOfTwo
<1> HIDE DEF p
<1>2. RetryBackoff * p \in Nat
  BY <1>1, ClientAssumption
<1>3. BoundedBackoff(n) = IF RetryBackoff * p < MaxBackoff THEN RetryBackoff * p ELSE MaxBackoff
  BY DEF BoundedBackoff, p
<1>4. QED  BY <1>2, <1>3, ClientAssumption

\* The state of the client outside _request.
SessionTypes ==
    /\ task \in Kinds \cup {"none"} /\ left \in 0..3
    /\ cookie \in Sessions \cup {None} /\ form \in Sessions \cup {None}

\* No step mistypes the operation or its sessions.
LEMMA StepSession == SessionTypes /\ [Next]_vars => SessionTypes'
<1> SUFFICES ASSUME SessionTypes, [Next]_vars PROVE SessionTypes'
  OBVIOUS
<1> USE DEF SessionTypes, operation
<1>1. CASE UNCHANGED <<task, left, cookie, form>>
  BY <1>1
<1>2. CASE \E kind \in Kinds, u \in Urls : Begin(kind, u)
  BY <1>2 DEF Begin
<1>3. CASE Proceed
  <2>1. CASE Abort
    <3>1. task' = "none" /\ left' = 0 /\ cookie' = cookie /\ form' = form
      BY Zenon, <2>1 DEF Abort
    <3>2. QED  BY <3>1
  <2>2. CASE ParseError
    <3>1. UNCHANGED <<task, left, form>> /\ (cookie' = cookie \/ cookie' \in Sessions)
      BY Zenon, <2>2 DEF ParseError
    <3>2. QED  BY <3>1
  <2>3. CASE (\E session \in Sessions, u \in Urls : WelcomePage(session, u))
             \/ (\E u \in Urls : InnerPage(u))
    <3>1. /\ task' = task /\ form' = form /\ (cookie' = cookie \/ cookie' \in Sessions)
          /\ left' = 2 \/ (left' = left - 1 /\ (left = 2 \/ left > 1))
      BY Zenon, <2>3 DEF WelcomePage, InnerPage
    <3>2. QED  BY <3>1
  <2>4. CASE (\E session \in Sessions : FormPage(session)) \/ LastPage
    BY <2>4 DEF FormPage, LastPage, Done
  <2>5. CASE WaitForRequestSlot \/ SendRequest
    BY <1>1, <2>5 DEF WaitForRequestSlot, SendRequest
  <2>6. QED  BY <1>3, <2>1, <2>2, <2>3, <2>4, <2>5 DEF Proceed
<1>4. CASE Answer \/ Tick \/ UNCHANGED vars
  BY <1>1, <1>4
  DEF Answer, TransportError, UnexpectedError, RetryableResponse, FinalResponse, Redirect,
      Received, Tick, vars
<1>5. QED  BY <1>2, <1>3, <1>4 DEF Next

\* The client is closed or it is not.
LEMMA StepClosed == closed \in BOOLEAN /\ [Next]_vars => closed' \in BOOLEAN
<1> SUFFICES ASSUME closed \in BOOLEAN, [Next]_vars PROVE closed' \in BOOLEAN
  OBVIOUS
<1> USE DEF operation
<1>1. CASE UNCHANGED closed
  BY Zenon, <1>1
<1>2. CASE \E kind \in Kinds, u \in Urls : Begin(kind, u)
  <2>1. UNCHANGED closed  BY <1>2 DEF Begin
  <2>2. QED  BY <1>1, <2>1
<1>3. CASE Abort
  <2>1. closed' = (task # "detail")
    BY Zenon, <1>3 DEF Abort
  <2>2. QED  BY Zenon, <2>1
<1>4. CASE Proceed /\ ~Abort
  <2>1. UNCHANGED closed
    BY <1>4 DEF Proceed, WelcomePage, InnerPage, FormPage, Done, LastPage, ParseError,
                WaitForRequestSlot, SendRequest
  <2>2. QED  BY <1>1, <2>1
<1>5. CASE Answer \/ Tick \/ UNCHANGED vars
  <2>1. UNCHANGED closed
    BY <1>5 DEF Answer, TransportError, UnexpectedError, RetryableResponse, FinalResponse,
                Redirect, Received, Tick, vars
  <2>2. QED  BY <1>1, <2>1
<1>6. QED  BY <1>2, <1>3, <1>4, <1>5 DEF Next

\* Every sleep is a natural number of ticks: what is left of the interval, the
\* backoff, or what the site asks for.
LEMMA StepSleep == Locals /\ SlotInv /\ sleep \in Nat /\ [Next]_vars => sleep' \in Nat
<1> SUFFICES ASSUME Locals, SlotInv, sleep \in Nat, [Next]_vars PROVE sleep' \in Nat
  OBVIOUS
<1>1. CASE UNCHANGED sleep
  BY <1>1
<1>2. CASE WaitForRequestSlot
  BY <1>2, ClientAssumption DEF WaitForRequestSlot, SlotInv
<1>3. CASE Tick
  BY <1>3 DEF Tick
<1>4. ASSUME NEW delay \in (0..MaxRetryAfter) \cup {None}, Retry(delay) PROVE sleep' \in Nat
  <2>1. BoundedBackoff(retries) \in Nat
    BY BackoffBounded, ClientAssumption DEF Locals
  <2>2. delay # None => delay \in Nat
    BY ClientAssumption
  <2>3. QED  BY <1>4, <2>1, <2>2 DEF Retry
<1>5. CASE Answer
  BY <1>1, <1>4, <1>5
  DEF Answer, TransportError, UnexpectedError, RetryableResponse, FinalResponse, Redirect, Received
<1>6. CASE (\E kind \in Kinds, u \in Urls : Begin(kind, u)) \/ (Proceed /\ ~WaitForRequestSlot)
  BY <1>1, <1>6
  DEF Begin, Proceed, WelcomePage, InnerPage, FormPage, Done, LastPage, ParseError, Abort,
      SendRequest
<1>7. QED  BY <1>1, <1>2, <1>3, <1>5, <1>6 DEF Next, vars

\* The locals of _request, the timers, the session state and the counters keep
\* their types, for any site, limits and delays.
THEOREM ClientTypes == Spec => []TypeOK
<1> DEFINE Inv == /\ CallInv /\ CounterTypes /\ MetricsAddUp /\ SlotInv
                  /\ SessionTypes /\ closed \in BOOLEAN /\ sleep \in Nat
<1>1. Init => Inv
  <2>1. Init => closed \in BOOLEAN
    BY Zenon DEF Init
  <2>2. Init => CounterTypes /\ MetricsAddUp /\ SlotInv /\ SessionTypes /\ sleep \in Nat
    BY ClientAssumption
    DEF Init, NoMetrics, CounterTypes, Counters, MetricsAddUp, SlotInv, SessionTypes
  <2>3. QED  BY <2>1, <2>2, InitCallInv
<1>2. Inv /\ [Next]_vars => Inv'
  <2>1. CallInv => Locals
    BY DEF CallInv
  <2>2. QED
    BY <2>1, StepCallInv, StepMetrics, StepSlot, StepSession, StepClosed, StepSleep
<1>3. Inv => TypeOK
  BY Zenon DEF CallInv, Locals, CounterTypes, SlotInv, SessionTypes, TypeOK
<1>4. QED  BY <1>1, <1>2, <1>3, PTL DEF Spec

-----------------------------------------------------------------------------
(* Operations: what one costs, and why it ends                             *)

\* The pages an operation needs.
PagesOf(kind) == IF kind \in {"prepare", "detail"} THEN 3 ELSE 1

\* The requests one call of _request may send.
PerCall == (MaxRedirects + 1) * (MaxRetries + 1)

\* An operation is under way exactly while pages of it are missing.
UnderWay ==
    /\ task = "none" <=> pc = "idle"
    /\ IF task = "none" THEN left = 0 ELSE left \in 1..PagesOf(task)

\* Earlier pages took at most PerCall requests each.
Attempts ==
    task # "none" =>
        metrics.requests_attempted <= (PagesOf(task) - left) * PerCall + sent

\* The requests of an operation under way, over all its pages, hops and tries.
OperationBounded == task # "none" => metrics.requests_attempted <= PagesOf(task) * PerCall

\* What a step does to the operation it belongs to.
OperationStep ==
    \/ /\ task = "none" /\ task' \in Kinds /\ left' = PagesOf(task') /\ pc' # "idle"
       /\ metrics' = NoMetrics /\ sent' = 0
    \/ /\ pc = "page" /\ left > 1 /\ left' = left - 1 /\ pc' # "idle" /\ sent' = 0
       /\ UNCHANGED <<task, metrics>>
    \/ pc # "idle" /\ task' = "none" /\ left' = 0 /\ pc' = "idle"
    \/ /\ pc = "ready" /\ pc' = "sent" /\ sent' = sent + 1
       /\ metrics' = [metrics EXCEPT !.requests_attempted = @ + 1]
       /\ UNCHANGED <<task, left>>
    \/ /\ UNCHANGED <<task, left, sent>> /\ (pc = "idle" <=> pc' = "idle")
       /\ metrics'.requests_attempted = metrics.requests_attempted

\* Every step of the client is one of these steps of an operation.
LEMMA NextIsOperationStep == TypeOK /\ UnderWay /\ [Next]_vars => OperationStep
<1> SUFFICES ASSUME TypeOK, UnderWay, [Next]_vars PROVE OperationStep
  OBVIOUS
<1> USE DEF operation, hop
<1>1. metrics \in Counters
  BY DEF TypeOK
<1>2. CASE UNCHANGED vars \/ Tick
  BY <1>2 DEF vars, Tick, OperationStep
<1>3. ASSUME NEW m, NEW u, NEW d, Request(m, u, d) PROVE pc' # "idle" /\ sent' = 0
  BY <1>3 DEF Request
<1>4. ASSUME NEW kind \in Kinds, NEW u \in Urls, Begin(kind, u) PROVE OperationStep
  <2>1. pc' # "idle" /\ sent' = 0
    BY <1>3, <1>4 DEF Begin
  <2>2. QED  BY <1>4, <2>1 DEF Begin, PagesOf, OperationStep
<1>5. CASE \E session \in Sessions, u \in Urls : WelcomePage(session, u)
  <2>1. /\ pc = "page" /\ left = 3 /\ left' = 2 /\ UNCHANGED <<task, metrics>>
        /\ pc' # "idle" /\ sent' = 0
    BY <1>3, <1>5 DEF WelcomePage
  <2>2. QED  BY <2>1 DEF OperationStep
<1>6. CASE \E u \in Urls : InnerPage(u)
  <2>1. PICK u \in Urls : InnerPage(u)
    BY <1>6
  <2>2. /\ pc = "page" /\ (left = 2 \/ left > 1) /\ left' = left - 1
        /\ UNCHANGED <<task, metrics>> /\ Request("GET", u, FALSE)
    BY Zenon, <2>1 DEF InnerPage
  <2>3. pc' # "idle" /\ sent' = 0
    BY <1>3, <2>2
  <2>4. QED  BY <2>2, <2>3 DEF OperationStep
<1>7. CASE (\E session \in Sessions : FormPage(session)) \/ LastPage
  BY <1>7 DEF FormPage, LastPage, Done, OperationStep
<1>8. CASE Abort
  <2>1. pc = "raised" /\ task' = "none" /\ left' = 0 /\ pc' = "idle"
    BY Zenon, <1>8 DEF Abort
  <2>2. QED  BY <2>1 DEF OperationStep
<1>9. CASE ParseError
  <2>1. pc = "page" /\ pc' = "raised" /\ UNCHANGED <<task, left, sent, metrics>>
    BY Zenon, <1>9 DEF ParseError
  <2>2. QED  BY <2>1 DEF OperationStep
<1>10. CASE WaitForRequestSlot
  BY <1>10 DEF WaitForRequestSlot, OperationStep
<1>11. CASE SendRequest
  BY <1>11 DEF SendRequest, OperationStep
<1>12. CASE Answer
  <2>1. UNCHANGED <<task, left, sent>> /\ pc = "sent" /\ pc' # "idle"
    BY <1>12
    DEF Answer, TransportError, Retry, UnexpectedError, RetryableResponse, FinalResponse,
        Redirect, Received
  <2>2. metrics'.requests_attempted = metrics.requests_attempted
    BY <1>1, <1>12
    DEF Answer, TransportError, UnexpectedError, RetryableResponse, FinalResponse,
        Redirect, Received, BusyMetrics, Counters
  <2>3. QED  BY <2>1, <2>2 DEF OperationStep
<1>13. QED
  BY <1>2, <1>4, <1>5, <1>6, <1>7, <1>8, <1>9, <1>10, <1>11, <1>12 DEF Next, Proceed

\* A page more gives its requests to the pages that are done.
LEMMA StepOperation ==
    ASSUME TypeOK, RequestsBounded, UnderWay, Attempts, OperationStep
    PROVE  UnderWay' /\ Attempts'
<1>1. /\ MaxRedirects \in Nat /\ MaxRetries \in Nat /\ PerCall \in Nat
      /\ sent \in Nat /\ sent <= PerCall /\ metrics \in Counters
  BY ClientAssumption DEF TypeOK, RequestsBounded, PerCall
<1> HIDE DEF PerCall
<1>2. \A kind : PagesOf(kind) \in {1, 3}
  BY DEF PagesOf
<1>3. UnderWay'
  BY <1>2 DEF UnderWay, OperationStep, Kinds
<1>4. ASSUME task' # "none"
      PROVE  metrics'.requests_attempted <= (PagesOf(task') - left') * PerCall + sent'
  <2>1. CASE /\ task = "none" /\ task' \in Kinds /\ left' = PagesOf(task')
             /\ metrics' = NoMetrics /\ sent' = 0
    <3>1. (PagesOf(task') - left') * PerCall = 0
      BY <1>1, <1>2, <2>1
    <3>2. QED  BY <2>1, <3>1 DEF NoMetrics
  <2>2. CASE task # "none" /\ task' = task
    <3> DEFINE done == PagesOf(task) - left
               n == metrics.requests_attempted
    <3>1. n \in Nat /\ n <= done * PerCall + sent
      BY <1>1, <2>2 DEF Attempts, Counters
    <3>2. done \in Nat
      BY <1>2, <2>2 DEF UnderWay
    <3>3. (done + 1) * PerCall = done * PerCall + PerCall /\ done * PerCall \in Nat
      BY <1>1, <3>2
    <3>4. CASE left' = left - 1 /\ sent' = 0 /\ metrics' = metrics
      <4>1. PagesOf(task') - left' = done + 1
        BY <1>2, <2>2, <3>4 DEF TypeOK
      <4> HIDE DEF done, n
      <4>2. n <= (done + 1) * PerCall
        BY <1>1, <3>1, <3>2, <3>3
      <4>3. QED  BY <1>1, <3>3, <3>4, <4>1, <4>2 DEF n
    <3>5. CASE /\ left' = left /\ sent' = sent + 1
               /\ metrics' = [metrics EXCEPT !.requests_attempted = @ + 1]
      <4>1. metrics'.requests_attempted = n + 1 /\ PagesOf(task') - left' = done
        BY <1>1, <2>2, <3>5 DEF Counters
      <4> HIDE DEF done, n
      <4>2. n + 1 <= done * PerCall + (sent + 1)
        BY <1>1, <3>1, <3>3
      <4>3. QED  BY <3>5, <4>1, <4>2
    <3>6. CASE /\ left' = left /\ sent' = sent
               /\ metrics'.requests_attempted = metrics.requests_attempted
      BY <2>2, <3>1, <3>6
    <3>7. QED  BY <1>4, <2>2, <3>4, <3>5, <3>6 DEF OperationStep
  <2>3. QED  BY <1>4, <2>1, <2>2 DEF OperationStep, UnderWay
<1>5. QED  BY <1>3, <1>4 DEF Attempts

\* The two invariants hold of every operation.
LEMMA OperationsSafe == Spec => [](UnderWay /\ Attempts)
<1>1. Init => UnderWay /\ Attempts
  BY DEF Init, UnderWay, Attempts
<1>2. TypeOK /\ RequestsBounded /\ UnderWay /\ Attempts /\ [Next]_vars => UnderWay' /\ Attempts'
  BY NextIsOperationStep, StepOperation
<1>3. QED  BY <1>1, <1>2, ClientTypes, RequestsAreBounded, PTL DEF Spec

\* Whatever the site answers, preparing a search or fetching a detail sends at
\* most 3 * (max_redirects + 1) * (max_retries + 1) requests, and any other
\* operation a third of it: no page gives a later one tries it has not used.
THEOREM OperationsAreBounded == Spec => []OperationBounded
<1>1. TypeOK /\ RequestsBounded /\ UnderWay /\ Attempts => OperationBounded
  <2> SUFFICES ASSUME TypeOK, RequestsBounded, UnderWay, Attempts, task # "none"
               PROVE  metrics.requests_attempted <= PagesOf(task) * PerCall
    BY DEF OperationBounded
  <2> DEFINE done == PagesOf(task) - left
             n == metrics.requests_attempted
  <2>1. /\ PerCall \in Nat /\ sent \in Nat /\ sent <= PerCall /\ n \in Nat
    BY ClientAssumption DEF TypeOK, RequestsBounded, PerCall, Counters
  <2>2. /\ PagesOf(task) \in {1, 3} /\ left \in 1..PagesOf(task)
        /\ n <= done * PerCall + sent
    BY DEF UnderWay, Attempts, PagesOf
  <2> HIDE DEF PerCall, n
  <2>3. PICK later \in Nat : PagesOf(task) = (done + 1) + later
    <3>1. left - 1 \in Nat /\ PagesOf(task) = (done + 1) + (left - 1)
      BY <2>2
    <3>2. QED  BY <3>1
  <2>4. done \in Nat
    BY <2>2
  <2>5. PagesOf(task) * PerCall = done * PerCall + PerCall + later * PerCall
    <3> HIDE DEF done
    <3>1. QED  BY <2>1, <2>3, <2>4
  <2>6. later * PerCall \in Nat /\ done * PerCall \in Nat
    <3> HIDE DEF done
    <3>1. QED  BY <2>1, <2>3, <2>4
  <2> HIDE DEF done
  <2>7. QED  BY <2>1, <2>2, <2>5, <2>6 DEF n
<1>2. QED  BY <1>1, OperationsSafe, ClientTypes, RequestsAreBounded, PTL

\* How far a try has come.
Rank(at) ==
    CASE at = "slot" -> 5 [] at = "ready" -> 4 [] at = "sent" -> 3
      [] at = "page" -> 2 [] at = "raised" -> 1 [] at = "idle" -> 0

\* What the two clocks of the client still have to run.
Wait == sleep + (MinInterval - since)

\* A page less is missing; or a redirect, a retry or a step of the try is used
\* up and nothing that counts more is given back; or time has passed.
Closer ==
    \/ left' < left
    \/ left' = left /\ redirects' > redirects
    \/ UNCHANGED <<left, redirects>> /\ retries' > retries
    \/ UNCHANGED <<left, redirects, retries>> /\ Rank(pc') < Rank(pc)
    \/ UNCHANGED <<left, redirects, retries, pc>> /\ Wait' < Wait

\* Every step begins an operation or brings the one under way closer to its end.
OperationsAdvance == [][(task = "none" /\ task' # "none") \/ Closer]_vars

\* Redirects, retries and waits are all used up in the end.
LEMMA NextIsCloser ==
    ASSUME TypeOK, UnderWay, Next PROVE (task = "none" /\ task' # "none") \/ Closer
<1> USE DEF operation, hop
<1>1. /\ left \in 0..3 /\ since \in 0..MinInterval /\ sleep \in Nat /\ MinInterval \in Nat
      /\ redirects \in Nat /\ retries \in Nat
  BY ClientAssumption DEF TypeOK
<1>2. pc # "idle" => left > 0
  BY DEF UnderWay, PagesOf
<1>3. \A at : at \in {"slot", "ready", "sent", "page", "raised", "idle"} => Rank(at) \in 0..5
  BY DEF Rank
<1>4. /\ Rank("slot") = 5 /\ Rank("ready") = 4 /\ Rank("sent") = 3
      /\ Rank("page") = 2 /\ Rank("raised") = 1 /\ Rank("idle") = 0
  BY DEF Rank
<1>5. CASE \E kind \in Kinds, u \in Urls : Begin(kind, u)
  BY <1>5 DEF Begin, Kinds
<1>6. CASE \E session \in Sessions, u \in Urls : WelcomePage(session, u)
  <2>1. left = 3 /\ left' = 2
    BY <1>6 DEF WelcomePage
  <2>2. QED  BY <2>1 DEF Closer
<1>7. CASE \E u \in Urls : InnerPage(u)
  <2>1. left' = left - 1
    BY <1>7 DEF InnerPage
  <2>2. QED  BY <1>1, <2>1 DEF Closer
<1>8. CASE (\E session \in Sessions : FormPage(session)) \/ LastPage
  <2>1. left = 1 /\ left' = 0
    BY <1>8 DEF FormPage, LastPage, Done
  <2>2. QED  BY <2>1 DEF Closer
<1>9. CASE Abort
  <2>1. pc = "raised" /\ left' = 0
    BY Zenon, <1>9 DEF Abort
  <2>2. QED  BY <1>1, <1>2, <2>1 DEF Closer
<1>10. CASE ParseError
  <2>1. pc = "page" /\ pc' = "raised" /\ UNCHANGED <<left, redirects, retries>>
    BY Zenon, <1>10 DEF ParseError
  <2>2. QED  BY <1>4, <2>1 DEF Closer
<1>11. CASE WaitForRequestSlot
  <2>1. pc = "slot" /\ pc' = "ready" /\ UNCHANGED <<left, redirects, retries>>
    BY <1>11 DEF WaitForRequestSlot
  <2>2. QED  BY <1>4, <2>1 DEF Closer
<1>12. CASE SendRequest
  <2>1. pc = "ready" /\ pc' = "sent" /\ UNCHANGED <<left, redirects, retries>>
    BY <1>12 DEF SendRequest
  <2>2. QED  BY <1>4, <2>1 DEF Closer
<1>13. CASE Answer
  <2>1. /\ pc = "sent" /\ left' = left
        /\ \/ redirects' = redirects + 1
           \/ redirects' = redirects /\ retries' = retries + 1
           \/ UNCHANGED <<redirects, retries>> /\ pc' \in {"page", "raised"}
    BY <1>13
    DEF Answer, TransportError, Retry, UnexpectedError, RetryableResponse, FinalResponse,
        Redirect, Received
  <2>2. QED  BY <1>1, <1>4, <2>1 DEF Closer
<1>14. CASE Tick
  <2>1. UNCHANGED <<left, redirects, retries, pc>>
    BY <1>14 DEF Tick
  <2>2. Wait' < Wait
    BY <1>1, <1>14 DEF Tick, Wait
  <2>3. QED  BY <2>1, <2>2 DEF Closer
<1>15. QED
  BY <1>5, <1>6, <1>7, <1>8, <1>9, <1>10, <1>11, <1>12, <1>13, <1>14 DEF Next, Proceed

\* Whatever the site answers, an operation cannot go round in circles: the
\* measure of Closer is made of five bounded natural numbers (TypeOK), and no
\* step but the beginning of an operation raises it.  TaskEnds needs no more
\* than that the thread runs, requests have an end and time passes.
THEOREM OperationsTerminate == Spec => OperationsAdvance
<1>1. TypeOK /\ UnderWay /\ [Next]_vars => [(task = "none" /\ task' # "none") \/ Closer]_vars
  BY NextIsCloser
<1>2. QED  BY <1>1, ClientTypes, OperationsSafe, PTL DEF Spec, OperationsAdvance

=============================================================================
