---------------------- MODULE MessageRouterQueryProofs ----------------------
(***************************************************************************)
(* Proofs about MessageRouter: the life of a query from window.cefQuery to *)
(* its last response, in both processes and the pipes between them, for    *)
(* every set of browsers, frames and handlers and every value of the       *)
(* bounds.                                                                 *)
(***************************************************************************)
EXTENDS MessageRouterProofs

\* The queries of b pending at the browser, and the responses on their way to its renderer.
Of(b) == {q \in pending : q.browser = b}
Elements(s) == {s[i] : i \in DOMAIN s}
Coming(b) == Elements(renderTasks[b]) \cup Elements(toRenderer[b])

\* The positions in b's pipe to the browser that hold queries.
Asked(b) == {k \in DOMAIN toBrowser[b] : toBrowser[b][k].type = "query"}

\* The message m cancels the query or request x.
For(m, x) == m.type = "cancel" /\ m.ctx = x.ctx /\ m.req \in {kReservedId, x.req}

\* What a request, a query on its way and a pending query have in common; and all that b knows
\* of its running requests, wherever it is kept.
AsRequest(x) == [ctx |-> x.ctx, req |-> x.req, persistent |-> x.persistent]
Known(b) ==
  requests[b] \cup {AsRequest(toBrowser[b][k]) : k \in Asked(b)} \cup {AsRequest(q) : q \in Of(b)}

-----------------------------------------------------------------------------
(***************************************************************************)
(* The contexts of a renderer.                                             *)
(***************************************************************************)
\* Ids of contexts are given out in order and to one context each; a page's main frame has a
\* context when any frame has; and a request belongs to a context that lives.
ContextsNumbered ==
  \A b \in Browsers :
    /\ \A f \in Frames : context[b][f] <= nextContext[b]
    /\ \A f, g \in Frames : f # g /\ context[b][f] > 0 => context[b][f] # context[b][g]
    /\ context[b][MainFrame] = NoContext => \A f \in Frames : context[b][f] = NoContext
    /\ \A i \in requests[b] : i.ctx > 0 /\ \E f \in Frames : context[b][f] = i.ctx

\* Steps that end requests and leave contexts alone keep it.
LEMMA SameContexts ==
  ASSUME ContextsNumbered, UNCHANGED <<context, nextContext>>,
         \A b \in Browsers : requests'[b] \subseteq requests[b]
  PROVE  ContextsNumbered'
BY DEF ContextsNumbered

\* With the process its contexts and requests are gone.
LEMMA ResetContexts ==
  ASSUME TypeOK, ContextsNumbered, NEW b \in Browsers, ResetRenderer(b)
  PROVE  ContextsNumbered'
<1>1. /\ context' = [context EXCEPT ![b] = [f \in Frames |-> NoContext]]
      /\ nextContext' = [nextContext EXCEPT ![b] = kReservedId]
      /\ requests' = [requests EXCEPT ![b] = {}]
  BY DEF ResetRenderer
<1>2. \A c \in Browsers \ {b} : /\ context'[c] = context[c] /\ nextContext'[c] = nextContext[c]
                                /\ requests'[c] = requests[c]
  BY <1>1 DEF TypeOK
<1>3. /\ \A f \in Frames : context'[b][f] = NoContext
      /\ nextContext'[b] = 0 /\ requests'[b] = {}
  BY <1>1 DEF TypeOK, kReservedId
<1> QED BY <1>2, <1>3 DEF ContextsNumbered, NoContext

\* A context that is used has a positive id that no other frame's context has.
LEMMA UsedContext ==
  ASSUME TypeOK, ContextsNumbered, NEW b \in Browsers, NEW f \in Frames, UseContext(b, f)
  PROVE  /\ ContextId(b, f) \in Nat /\ ContextId(b, f) > 0
         /\ context' = [context EXCEPT ![b][f] = ContextId(b, f)]
         /\ \A g \in Frames \ {f} : context[b][g] # ContextId(b, f)
         /\ nextContext'[b] \in Nat /\ nextContext'[b] >= nextContext[b]
         /\ ContextId(b, f) <= nextContext'[b]
         /\ \A c \in Browsers \ {b} : nextContext'[c] = nextContext[c]
         /\ context[b][f] \in {kReservedId, ContextId(b, f)}
         /\ context[b][f] = kReservedId => ContextId(b, f) = nextContext[b] + 1
<1>1. /\ context[b][f] \in Nat /\ nextContext[b] \in Nat
      /\ \A g \in Frames : context[b][g] \in Nat \cup {NoContext}
  BY DEF TypeOK, UseContext
<1>2. \A g \in Frames : context[b][g] <= nextContext[b] BY DEF ContextsNumbered
<1>3. CASE context[b][f] = kReservedId
  <2>1. ContextId(b, f) = nextContext[b] + 1 BY <1>3 DEF ContextId
  <2>2. nextContext' = [nextContext EXCEPT ![b] = nextContext[b] + 1]
    <3>1. ContextId(b, f) > nextContext[b] BY <1>1, <2>1
    <3> QED BY <2>1, <3>1 DEF UseContext
  <2> QED BY <1>1, <1>2, <1>3, <2>1, <2>2 DEF UseContext, TypeOK, NoContext
<1>4. CASE context[b][f] # kReservedId
  <2>1. ContextId(b, f) = context[b][f] /\ context[b][f] > 0
    BY <1>1, <1>4 DEF ContextId, kReservedId
  <2>2. nextContext' = nextContext
    BY <1>1, <1>2, <2>1 DEF UseContext, TypeOK
  <2>3. \A g \in Frames \ {f} : context[b][g] # ContextId(b, f) BY <2>1 DEF ContextsNumbered
  <2> QED BY <1>1, <1>2, <1>4, <2>1, <2>2, <2>3 DEF UseContext
<1> QED BY <1>3, <1>4

\* Using a context keeps ids apart, and the requests of that context are of a living one.
LEMMA UseKeepsContexts ==
  ASSUME TypeOK, ContextsNumbered, NEW b \in Browsers, NEW f \in Frames, UseContext(b, f),
         \A c \in Browsers \ {b} : requests'[c] \subseteq requests[c],
         \A i \in requests'[b] : i \in requests[b] \/ i.ctx = ContextId(b, f)
  PROVE  ContextsNumbered'
<1> DEFINE id == ContextId(b, f)
<1>1. /\ id \in Nat /\ id > 0 /\ context' = [context EXCEPT ![b][f] = id]
      /\ \A g \in Frames \ {f} : context[b][g] # id
      /\ nextContext'[b] \in Nat /\ nextContext'[b] >= nextContext[b] /\ id <= nextContext'[b]
      /\ \A c \in Browsers \ {b} : nextContext'[c] = nextContext[c]
      /\ context[b][f] \in {kReservedId, id}
  BY UsedContext
<1>2. /\ context'[b][f] = id /\ \A g \in Frames \ {f} : context'[b][g] = context[b][g]
      /\ \A c \in Browsers \ {b} : context'[c] = context[c]
  BY <1>1 DEF TypeOK
<1>3. /\ nextContext[b] \in Nat /\ \A g \in Frames : context[b][g] \in Nat \cup {NoContext}
      /\ context[b][f] # NoContext
  BY DEF TypeOK, UseContext
<1> HIDE DEF id
<1>4. \A g \in Frames : context'[b][g] <= nextContext'[b]
  BY <1>1, <1>2, <1>3 DEF ContextsNumbered, NoContext
<1>5. \A g, h \in Frames : g # h /\ context'[b][g] > 0 => context'[b][g] # context'[b][h]
  BY <1>1, <1>2 DEF ContextsNumbered
<1>6. context'[b][MainFrame] = NoContext => \A g \in Frames : context'[b][g] = NoContext
  <2>1. context'[b][MainFrame] # NoContext
    BY <1>1, <1>2, <1>3, ConstantsAssumption DEF ContextsNumbered, NoContext
  <2> QED BY <2>1
<1>7. ASSUME NEW i \in requests'[b]
      PROVE  i.ctx > 0 /\ \E g \in Frames : context'[b][g] = i.ctx
  <2>1. CASE i \in requests[b]
    <3>1. PICK g \in Frames : context[b][g] = i.ctx BY <2>1 DEF ContextsNumbered
    <3>2. i.ctx > 0 BY <2>1 DEF ContextsNumbered
    <3>3. context'[b][g] = i.ctx BY <1>1, <1>2, <3>1, <3>2 DEF kReservedId
    <3> QED BY <3>2, <3>3
  <2>2. CASE i.ctx = id BY <1>1, <1>2, <2>2
  <2> QED BY <2>1, <2>2 DEF id
<1>8. \A c \in Browsers \ {b} :
        /\ \A g \in Frames : context'[c][g] <= nextContext'[c]
        /\ \A g, h \in Frames : g # h /\ context'[c][g] > 0 => context'[c][g] # context'[c][h]
        /\ context'[c][MainFrame] = NoContext => \A g \in Frames : context'[c][g] = NoContext
        /\ \A i \in requests'[c] : i.ctx > 0 /\ \E g \in Frames : context'[c][g] = i.ctx
  BY <1>1, <1>2 DEF ContextsNumbered
<1> QED BY <1>4, <1>5, <1>6, <1>7, <1>8 DEF ContextsNumbered

\* Every step keeps the contexts in order.
LEMMA NextContexts == TypeOK /\ ContextsNumbered /\ [Next]_vars => ContextsNumbered'
<1> SUFFICES ASSUME TypeOK, ContextsNumbered, [Next]_vars PROVE ContextsNumbered' OBVIOUS
<1> USE DEF rendererVars, browserVars
<1>1. CASE Application \/ RunUiTask
  BY <1>1, SameContexts
     DEF Application, AddHandler, RemoveHandler, CancelPending, PostCancelPending, CallOnUiThread,
         CallOnOtherThread, RunUiTask, RunPostedCall, OnCallbackSuccess, OnCallbackFailure,
         RunCancelPendingFor
<1>2. ASSUME NEW b \in Browsers, QueryReceived(b) \/ CancelReceived(b) PROVE ContextsNumbered'
  BY <1>2, SameContexts
     DEF QueryReceived, QueryWithoutHandlers, OfferQuery, QueryUnhandled, QueryHandled,
         CancelReceived
<1>3. ASSUME NEW b \in Browsers, Navigation(b) PROVE ContextsNumbered'
  BY <1>3, SameContexts, ResetContexts
     DEF Navigation, OnBeforeBrowse, NavigationAborted, OnBeforeClose, Crash,
         OnRenderProcessTerminated, Relaunch
<1>4. ASSUME NEW b \in Browsers, NEW f \in Frames, OnContextCreated(b, f) PROVE ContextsNumbered'
  <2>1. /\ context[b][f] = NoContext /\ (f = MainFrame \/ context[b][MainFrame] # NoContext)
        /\ context' = [context EXCEPT ![b][f] = 0] /\ UNCHANGED <<nextContext, requests>>
    BY <1>4 DEF OnContextCreated, kReservedId
  <2>2. /\ context'[b][f] = 0 /\ \A g \in Frames \ {f} : context'[b][g] = context[b][g]
        /\ \A c \in Browsers \ {b} : context'[c] = context[c]
        /\ nextContext[b] \in Nat
    BY <2>1 DEF TypeOK
  <2>3. \A i \in requests[b] : i.ctx > 0 /\ \E g \in Frames : context'[b][g] = i.ctx
    BY <2>1, <2>2 DEF ContextsNumbered, NoContext
  <2>4. context'[b][MainFrame] # NoContext BY <2>1, <2>2, ConstantsAssumption DEF NoContext
  <2> QED BY <2>1, <2>2, <2>3, <2>4 DEF ContextsNumbered
<1>5. ASSUME NEW b \in Browsers, NEW f \in Frames, OnContextReleased(b, f) PROVE ContextsNumbered'
  <2>1. /\ context' = [context EXCEPT ![b][f] = NoContext] /\ UNCHANGED nextContext
        /\ f = MainFrame => \A g \in Frames \ {f} : context[b][g] = NoContext
    BY <1>5 DEF OnContextReleased
  <2>2. /\ context'[b][f] = NoContext /\ \A g \in Frames \ {f} : context'[b][g] = context[b][g]
        /\ \A c \in Browsers \ {b} : context'[c] = context[c]
        /\ nextContext[b] \in Nat
    BY <2>1 DEF TypeOK
  <2>3. /\ \A c \in Browsers : requests'[c] \subseteq requests[c]
        /\ \A i \in requests'[b] : i.ctx # context[b][f]
    <3>1. CASE context[b][f] = kReservedId
      BY <1>5, <3>1 DEF OnContextReleased, ContextsNumbered, kReservedId
    <3>2. CASE context[b][f] # kReservedId
      <4>1. requests' = [requests EXCEPT ![b] = @ \ Abandoned(b, context[b][f], kReservedId)]
        BY <1>5, <3>2 DEF OnContextReleased, SendCancel
      <4>2. Abandoned(b, context[b][f], kReservedId) = {i \in requests[b] : i.ctx = context[b][f]}
        BY DEF Abandoned
      <4> QED BY <4>1, <4>2 DEF TypeOK
    <3> QED BY <3>1, <3>2
  <2>4. \A i \in requests'[b] : i.ctx > 0 /\ \E g \in Frames : context'[b][g] = i.ctx
    BY <2>2, <2>3 DEF ContextsNumbered
  <2>5. \A g \in Frames : context'[b][g] <= nextContext[b]
    BY <2>2 DEF ContextsNumbered, NoContext
  <2>6. context'[b][MainFrame] = NoContext => \A g \in Frames : context'[b][g] = NoContext
    BY <2>1, <2>2, ConstantsAssumption DEF ContextsNumbered
  <2>7. \A g, h \in Frames : g # h /\ context'[b][g] > 0 => context'[b][g] # context'[b][h]
    BY <2>2 DEF ContextsNumbered, NoContext
  <2> QED BY <2>1, <2>2, <2>3, <2>4, <2>5, <2>6, <2>7 DEF ContextsNumbered
<1>6. ASSUME NEW b \in Browsers, NEW f \in Frames, NEW persistent \in Persistence,
             CefQuery(b, f, persistent)
      PROVE  ContextsNumbered'
  <2> DEFINE i == [ctx |-> ContextId(b, f), req |-> nextRequest[b] + 1, persistent |-> persistent]
  <2>1. UseContext(b, f) /\ requests' = [requests EXCEPT ![b] = @ \cup {i}]
    BY <1>6 DEF CefQuery
  <2>2. /\ \A c \in Browsers \ {b} : requests'[c] \subseteq requests[c]
        /\ requests'[b] = requests[b] \cup {i}
    BY <2>1 DEF TypeOK
  <2> QED BY <2>1, <2>2, UseKeepsContexts
<1>7. ASSUME NEW b \in Browsers, NEW f \in Frames, NEW r \in 1..MaxRequests,
             CefQueryCancel(b, f, r)
      PROVE  ContextsNumbered'
  <2>1. UseContext(b, f) /\ \A c \in Browsers : requests'[c] \subseteq requests[c]
    BY <1>7 DEF CefQueryCancel, SendCancel, TypeOK
  <2> QED BY <2>1, UseKeepsContexts
<1>8. ASSUME NEW b \in Browsers, ResponseReceived(b) \/ ExecuteCallback(b)
      PROVE  ContextsNumbered'
  BY <1>8, SameContexts DEF ResponseReceived, ExecuteCallback, TypeOK
<1>9. CASE UNCHANGED vars BY <1>9, SameContexts DEF vars
<1> QED BY <1>1, <1>2, <1>3, <1>4, <1>5, <1>6, <1>7, <1>8, <1>9 DEF Next, Renderer

\* No context exists to begin with.
LEMMA InitContexts == Init => ContextsNumbered
BY DEF Init, ContextsNumbered, NoContext, kReservedId

\* A registered request belongs to a context that lives, so its JavaScript callback can be run:
\* OnContextReleased takes the requests of its context with it, and those of no other.
THEOREM RequestsOfLiveContexts == Spec => []RequestContextLive
<1>1. Init => TypeOK /\ PendingFinite /\ ContextsNumbered BY InitType, InitContexts
<1>2. (TypeOK /\ PendingFinite /\ ContextsNumbered) /\ [Next]_vars
      => (TypeOK /\ PendingFinite /\ ContextsNumbered)'
  BY NextType, NextContexts
<1>3. ContextsNumbered => RequestContextLive BY DEF ContextsNumbered, RequestContextLive
<1> QED BY <1>1, <1>2, <1>3, PTL DEF Spec
-----------------------------------------------------------------------------
(***************************************************************************)
(* The pipes.                                                              *)
(***************************************************************************)
\* The elements of a queue that is extended, and of one whose head is taken.
LEMMA QueueElements ==
  ASSUME NEW s \in Seq(Response)
  PROVE  /\ \A m \in Seq(Response) : Elements(s \o m) = Elements(s) \cup Elements(m)
         /\ \A m \in Response : /\ Elements(s \o <<m>>) = Elements(s) \cup {m}
                                /\ Elements(Append(s, m)) = Elements(s) \cup {m}
         /\ s # <<>> => Elements(s) = Elements(Tail(s)) \cup {Head(s)} /\ Head(s) \in Response
<1>1. ASSUME NEW m \in Seq(Response) PROVE Elements(s \o m) = Elements(s) \cup Elements(m)
  <2>1. \A i \in DOMAIN s : i \in DOMAIN (s \o m) /\ (s \o m)[i] = s[i] OBVIOUS
  <2>2. \A i \in DOMAIN m : Len(s) + i \in DOMAIN (s \o m) /\ (s \o m)[Len(s) + i] = m[i] OBVIOUS
  <2>3. \A i \in DOMAIN (s \o m) : \/ i \in DOMAIN s /\ (s \o m)[i] = s[i]
                                   \/ i - Len(s) \in DOMAIN m /\ (s \o m)[i] = m[i - Len(s)]
    OBVIOUS
  <2>4. Elements(s) \cup Elements(m) \subseteq Elements(s \o m) BY <2>1, <2>2 DEF Elements
  <2>5. Elements(s \o m) \subseteq Elements(s) \cup Elements(m) BY <2>3 DEF Elements
  <2> QED BY <2>4, <2>5
<1>2. ASSUME NEW m \in Response
      PROVE  /\ Elements(s \o <<m>>) = Elements(s) \cup {m}
             /\ Elements(Append(s, m)) = Elements(s) \cup {m}
  <2>1. Elements(<<m>>) = {m} BY DEF Elements
  <2>2. Append(s, m) = s \o <<m>> /\ <<m>> \in Seq(Response) OBVIOUS
  <2> QED BY <1>1, <2>1, <2>2
<1>3. ASSUME s # <<>>
      PROVE  Elements(s) = Elements(Tail(s)) \cup {Head(s)} /\ Head(s) \in Response
  <2>1. 1 \in DOMAIN s /\ Head(s) = s[1] BY <1>3
  <2>2. \A i \in DOMAIN Tail(s) : i + 1 \in DOMAIN s /\ Tail(s)[i] = s[i + 1] BY <1>3
  <2>3. \A i \in DOMAIN s \ {1} : i - 1 \in DOMAIN Tail(s) /\ Tail(s)[i - 1] = s[i] BY <1>3
  <2>4. Elements(s) \subseteq Elements(Tail(s)) \cup {Head(s)} BY <2>1, <2>3 DEF Elements
  <2>5. Elements(Tail(s)) \cup {Head(s)} \subseteq Elements(s) BY <2>1, <2>2 DEF Elements
  <2>6. Head(s) \in Response BY <1>3
  <2> QED BY <2>4, <2>5, <2>6
<1> QED BY <1>1, <1>2, <1>3

\* A response is added to those on their way to a renderer that is up.
LEMMA ComingSend ==
  ASSUME TypeOK, NEW b \in Browsers, NEW m \in Response, SendToRenderer(b, <<m>>),
         UNCHANGED renderTasks
  PROVE  \A c \in Browsers : Coming(c)' = Coming(c) \cup {t \in {m} : c = b /\ process[b] = "up"}
<1> SUFFICES ASSUME NEW c \in Browsers
             PROVE  Coming(c)' = Coming(c) \cup {t \in {m} : c = b /\ process[b] = "up"}
  OBVIOUS
<1>1. toRenderer[c] \in Seq(Response) BY DEF TypeOK
<1>2. CASE c = b /\ process[b] = "up"
  <2>1. toRenderer'[c] = toRenderer[c] \o <<m>> BY <1>2 DEF SendToRenderer, TypeOK
  <2>2. Elements(toRenderer[c] \o <<m>>) = Elements(toRenderer[c]) \cup {m}
    BY <1>1, QueueElements
  <2>3. Elements(toRenderer'[c]) = Elements(toRenderer[c]) \cup {m} BY <2>1, <2>2
  <2> QED BY <1>2, <2>3 DEF Coming
<1>3. CASE ~(c = b /\ process[b] = "up")
  <2>1. toRenderer'[c] = toRenderer[c] BY <1>3 DEF SendToRenderer, TypeOK
  <2> QED BY <1>3, <2>1 DEF Coming
<1> QED BY <1>2, <1>3

\* CancelQuery's failures are added, one for each query canceled whose renderer is up.
LEMMA ComingNotify ==
  ASSUME TypeOK, PendingFinite, NEW S \in SUBSET pending, NotifyRenderers(S),
         UNCHANGED renderTasks
  PROVE  \A b \in Browsers :
           Coming(b)' = Coming(b) \cup
             {Failure(q) : q \in {p \in S : p.browser = b /\ process[b] = "up"}}
<1>1. PICK order \in [Browsers -> Orders(S)] :
        /\ \A b \in Browsers : InMapOrder(order[b], {q \in S : q.browser = b})
        /\ toRenderer' = [b \in Browsers |->
             IF process[b] = "up"
             THEN toRenderer[b] \o [i \in DOMAIN order[b] |-> Failure(order[b][i])]
             ELSE toRenderer[b]]
  BY DEF NotifyRenderers
<1> SUFFICES ASSUME NEW b \in Browsers
             PROVE  Coming(b)' = Coming(b) \cup
                      {Failure(q) : q \in {p \in S : p.browser = b /\ process[b] = "up"}}
  OBVIOUS
<1>2. toRenderer[b] \in Seq(Response) BY DEF TypeOK
<1>3. CASE process[b] = "up"
  <2> DEFINE s == [i \in DOMAIN order[b] |-> Failure(order[b][i])]
  <2>1. IsFiniteSet(S) BY FS_Subset DEF PendingFinite
  <2>2. Cardinality(S) \in Nat BY <2>1, FS_CardinalityType
  <2>3. PICK n \in 0..Cardinality(S) : order[b] \in [1..n -> S] BY <1>1 DEF Orders
  <2>4. n \in Nat BY <2>2
  <2>5. \A q \in S : Failure(q) \in Response
    BY DEF TypeOK, QueryInfo, Failure, Response, Threads
  <2>6. s \in Seq(Response)
    <3>1. DOMAIN order[b] = 1..n BY <2>3
    <3>2. s \in [1..n -> Response] BY <2>3, <2>5, <3>1
    <3> QED BY <2>4, <3>2
  <2>7. toRenderer'[b] = toRenderer[b] \o s BY <1>1, <1>3
  <2>8. DOMAIN s = DOMAIN order[b] /\ \A i \in DOMAIN s : s[i] = Failure(order[b][i]) OBVIOUS
  <2> HIDE DEF s
  <2>9. Elements(s) = {Failure(q) : q \in {p \in S : p.browser = b}}
    <3>1. {order[b][i] : i \in DOMAIN order[b]} = {q \in S : q.browser = b}
      BY <1>1 DEF InMapOrder
    <3>2. \A i \in DOMAIN s : \E q \in {p \in S : p.browser = b} : s[i] = Failure(q)
      BY <2>8, <3>1
    <3>3. \A q \in {p \in S : p.browser = b} : \E i \in DOMAIN s : s[i] = Failure(q)
      BY <2>8, <3>1
    <3> QED BY <3>2, <3>3 DEF Elements
  <2>10. Elements(toRenderer'[b]) = Elements(toRenderer[b]) \cup Elements(s)
    BY <1>2, <2>6, <2>7, QueueElements
  <2>11. {p \in S : p.browser = b /\ process[b] = "up"} = {p \in S : p.browser = b} BY <1>3
  <2> QED BY <2>9, <2>10, <2>11 DEF Coming
<1>4. CASE process[b] # "up"
  <2>1. toRenderer'[b] = toRenderer[b] BY <1>1, <1>4
  <2> QED BY <1>4, <2>1 DEF Coming
<1> QED BY <1>3, <1>4

\* Nothing is added or lost when a response is posted as a task, and one goes when it runs.
LEMMA ComingTaken ==
  ASSUME TypeOK, NEW b \in Browsers
  PROVE  /\ ResponseReceived(b) => \A c \in Browsers : Coming(c)' = Coming(c)
         /\ ExecuteCallback(b) =>
              /\ Head(renderTasks[b]) \in Response
              /\ Coming(b) = Coming(b)' \cup {Head(renderTasks[b])}
              /\ \A c \in Browsers \ {b} : Coming(c)' = Coming(c)
<1>1. toRenderer[b] \in Seq(Response) /\ renderTasks[b] \in Seq(Response) BY DEF TypeOK
<1>2. ASSUME ResponseReceived(b) PROVE \A c \in Browsers : Coming(c)' = Coming(c)
  <2> DEFINE m == Head(toRenderer[b])
  <2>1. /\ toRenderer[b] # <<>> /\ toRenderer' = [toRenderer EXCEPT ![b] = Tail(toRenderer[b])]
        /\ renderTasks' = [renderTasks EXCEPT ![b] = Append(renderTasks[b], m)]
    BY <1>2 DEF ResponseReceived
  <2>2. /\ toRenderer'[b] = Tail(toRenderer[b]) /\ renderTasks'[b] = Append(renderTasks[b], m)
        /\ \A c \in Browsers \ {b} : toRenderer'[c] = toRenderer[c] /\ renderTasks'[c] = renderTasks[c]
    BY <2>1 DEF TypeOK
  <2>3. /\ Elements(toRenderer[b]) = Elements(toRenderer'[b]) \cup {m}
        /\ m \in Response
    BY <1>1, <2>1, <2>2, QueueElements
  <2> HIDE DEF m
  <2>4. Elements(renderTasks'[b]) = Elements(renderTasks[b]) \cup {m}
    <3>1. Elements(Append(renderTasks[b], m)) = Elements(renderTasks[b]) \cup {m}
      BY <1>1, <2>3, QueueElements
    <3> QED BY <2>2, <3>1
  <2> QED BY <2>2, <2>3, <2>4 DEF Coming
<1>3. ASSUME ExecuteCallback(b)
      PROVE  /\ Head(renderTasks[b]) \in Response
             /\ Coming(b) = Coming(b)' \cup {Head(renderTasks[b])}
             /\ \A c \in Browsers \ {b} : Coming(c)' = Coming(c)
  <2>1. /\ renderTasks[b] # <<>> /\ toRenderer' = toRenderer
        /\ renderTasks' = [renderTasks EXCEPT ![b] = Tail(renderTasks[b])]
    BY <1>3 DEF ExecuteCallback
  <2>2. /\ renderTasks'[b] = Tail(renderTasks[b])
        /\ \A c \in Browsers \ {b} : renderTasks'[c] = renderTasks[c]
    BY <2>1 DEF TypeOK
  <2>3. /\ Elements(renderTasks[b]) = Elements(renderTasks'[b]) \cup {Head(renderTasks[b])}
        /\ Head(renderTasks[b]) \in Response
    BY <1>1, <2>1, <2>2, QueueElements
  <2> QED BY <2>1, <2>2, <2>3 DEF Coming
<1> QED BY <1>2, <1>3

\* What is left in b's pipe to the browser after a message was read.
LEMMA ReadMessage ==
  ASSUME TypeOK, NEW b \in Browsers, NEW type, Receive(b, type)
  PROVE  /\ 1 \in DOMAIN toBrowser[b] /\ Head(toBrowser[b]) = toBrowser[b][1]
         /\ toBrowser[b][1].type = type /\ toBrowser[b][1] \in QueryMsg \cup CancelMsg
         /\ \A k \in DOMAIN toBrowser'[b] :
              /\ k \in Nat /\ k > 0 /\ k + 1 \in DOMAIN toBrowser[b]
              /\ toBrowser'[b][k] = toBrowser[b][k + 1]
         /\ \A k \in DOMAIN toBrowser[b] :
              /\ k \in Nat /\ k > 0
              /\ k # 1 => k - 1 \in DOMAIN toBrowser'[b] /\ toBrowser'[b][k - 1] = toBrowser[b][k]
         /\ \A c \in Browsers \ {b} : toBrowser'[c] = toBrowser[c]
<1>1. toBrowser[b] \in Seq(QueryMsg \cup CancelMsg) /\ toBrowser[b] # <<>>
  BY DEF TypeOK, Receive
<1>2. toBrowser'[b] = Tail(toBrowser[b]) /\ \A c \in Browsers \ {b} : toBrowser'[c] = toBrowser[c]
  BY DEF TypeOK, Receive
<1>3. DOMAIN toBrowser[b] = 1..Len(toBrowser[b]) /\ Len(toBrowser[b]) \in Nat \ {0} BY <1>1
<1>4. 1 \in DOMAIN toBrowser[b] /\ Head(toBrowser[b]) = toBrowser[b][1] BY <1>1
<1>5. toBrowser[b][1].type = type /\ toBrowser[b][1] \in QueryMsg \cup CancelMsg
  BY <1>1, <1>4 DEF Receive
<1>6. \A k \in DOMAIN toBrowser'[b] :
        /\ k \in Nat /\ k > 0 /\ k + 1 \in DOMAIN toBrowser[b]
        /\ toBrowser'[b][k] = toBrowser[b][k + 1]
  BY <1>1, <1>2
<1>7. \A k \in DOMAIN toBrowser[b] :
        /\ k \in Nat /\ k > 0
        /\ k # 1 => k - 1 \in DOMAIN toBrowser'[b] /\ toBrowser'[b][k - 1] = toBrowser[b][k]
  BY <1>1, <1>2
<1> QED BY <1>2, <1>4, <1>5, <1>6, <1>7

\* What is in b's pipe to the browser after a message was written.
LEMMA WriteMessage ==
  ASSUME TypeOK, NEW b \in Browsers, NEW m \in QueryMsg \cup CancelMsg,
         toBrowser' = [toBrowser EXCEPT ![b] = Append(@, m)]
  PROVE  \E n \in Nat :
           /\ DOMAIN toBrowser'[b] = DOMAIN toBrowser[b] \cup {n}
           /\ \A k \in DOMAIN toBrowser[b] :
                k \in Nat /\ k < n /\ toBrowser'[b][k] = toBrowser[b][k]
           /\ toBrowser'[b][n] = m
           /\ \A c \in Browsers \ {b} : toBrowser'[c] = toBrowser[c]
<1>1. toBrowser[b] \in Seq(QueryMsg \cup CancelMsg) BY DEF TypeOK
<1>2. /\ toBrowser'[b] = Append(toBrowser[b], m)
      /\ \A c \in Browsers \ {b} : toBrowser'[c] = toBrowser[c]
  BY DEF TypeOK
<1>3. Len(toBrowser[b]) + 1 \in Nat BY <1>1
<1>4. /\ DOMAIN toBrowser'[b] = DOMAIN toBrowser[b] \cup {Len(toBrowser[b]) + 1}
      /\ \A k \in DOMAIN toBrowser[b] :
           k \in Nat /\ k < Len(toBrowser[b]) + 1 /\ toBrowser'[b][k] = toBrowser[b][k]
      /\ toBrowser'[b][Len(toBrowser[b]) + 1] = m
  BY <1>1, <1>2
<1> QED BY <1>2, <1>3, <1>4
-----------------------------------------------------------------------------
(***************************************************************************)
(* What the steps of the browser process do to queries, whichever function *)
(* takes them.                                                             *)
(***************************************************************************)
Renderers == <<process, epoch, context, nextContext, nextRequest, requests, page>>

\* Nothing; only an aborted navigation clears the flag of one.
Internal ==
  /\ UNCHANGED <<pending, app, toBrowser, Renderers>>
  /\ NavigationMayAbort \/ UNCHANGED navigating
  /\ \A b \in Browsers : Coming(b)' = Coming(b)

\* t is the response to the query or message x, a success or not.
Replies(t, x, ok) == t.req = x.req /\ t.ctx = x.ctx /\ t.ok = ok

Ends == {"answered", "failed", "canceled"}

\* The queries of S leave the map, and each renderer that is up is sent one response for each.
Ended(S, s) ==
  /\ pending' = pending \ S /\ Record({UidOf(q) : q \in S}, s)
  /\ s = "answered" => \A q \in S : ~q.persistent
  /\ s # "canceled" => \E q \in pending : S = {q}
  /\ \A b \in Browsers : /\ Coming(b) \subseteq Coming(b)'
                         /\ \A t \in Coming(b)' \ Coming(b) :
                              \E q \in S : q.browser = b /\ Replies(t, q, s = "answered")
  /\ \A q \in S : process[q.browser] = "up" =>
                    \E t \in Coming(q.browser)' : Replies(t, q, s = "answered")
  /\ UNCHANGED <<toBrowser, navigating, Renderers>>

\* A persistent query is sent one more answer.
Streamed(q) ==
  /\ q.persistent /\ UNCHANGED pending /\ Record({UidOf(q)}, "streaming")
  /\ \A b \in Browsers : /\ Coming(b) \subseteq Coming(b)'
                         /\ \A t \in Coming(b)' \ Coming(b) : q.browser = b /\ Replies(t, q, TRUE)
  /\ UNCHANGED <<toBrowser, navigating, Renderers>>

\* A query read from b's pipe becomes pending, or fails because nobody takes it.
Accepted(b, h) ==
  /\ Receive(b, "query")
  /\ pending' = pending \cup {NewQuery(b, h)} /\ Record({UidOf(NewQuery(b, h))}, "open")
  /\ \A c \in Browsers : Coming(c)' = Coming(c)
  /\ UNCHANGED <<navigating, Renderers>>
Refused(b) ==
  LET m == Head(toBrowser[b]) IN
  /\ Receive(b, "query")
  /\ UNCHANGED pending /\ Record({<<b, epoch[b], m.req>>}, "refused")
  /\ \A c \in Browsers : /\ Coming(c) \subseteq Coming(c)'
                         /\ \A t \in Coming(c)' \ Coming(c) : c = b /\ Replies(t, m, FALSE)
  /\ process[b] = "up" => \E t \in Coming(b)' : Replies(t, m, FALSE)
  /\ UNCHANGED <<navigating, Renderers>>

\* Canceling with notify_renderer = true ends the queries with failures.
LEMMA CancelEnds ==
  ASSUME TypeOK, PendingFinite, NEW bs, NEW hs, CancelPendingFor(bs, hs),
         UNCHANGED <<navigating, rendererVars, toBrowser>>
  PROVE  \E S \in SUBSET pending, s \in Ends : Ended(S, s)
<1> DEFINE S == Matching(bs, hs)
<1>1. S \in SUBSET pending BY DEF Matching
<1>2. CancelQueries(S) /\ NotifyRenderers(S) BY DEF CancelPendingFor
<1> HIDE DEF S
<1>3. \A b \in Browsers :
        Coming(b)' = Coming(b) \cup
          {Failure(q) : q \in {p \in S : p.browser = b /\ process[b] = "up"}}
  BY <1>1, <1>2, ComingNotify DEF rendererVars
<1>4. \A q \in S : Replies(Failure(q), q, FALSE) /\ q.browser \in Browsers
  BY <1>1 DEF Failure, Replies, TypeOK, QueryInfo
<1>5. Ended(S, "canceled")
  <2>1. ASSUME NEW q \in S, process[q.browser] = "up"
        PROVE  \E t \in Coming(q.browser)' : Replies(t, q, FALSE)
    <3>1. q.browser \in Browsers /\ Replies(Failure(q), q, FALSE) BY <1>4
    <3>2. q \in {p \in S : p.browser = q.browser /\ process[q.browser] = "up"} BY <2>1
    <3>3. Failure(q) \in Coming(q.browser)' BY <1>3, <3>1, <3>2
    <3> QED BY <3>1, <3>3
  <2>2. \A b \in Browsers : /\ Coming(b) \subseteq Coming(b)'
                            /\ \A t \in Coming(b)' \ Coming(b) :
                                 \E q \in S : q.browser = b /\ Replies(t, q, FALSE)
    <3> SUFFICES ASSUME NEW b \in Browsers, NEW t, t \in Coming(b)' \ Coming(b)
                 PROVE  \E q \in S : q.browser = b /\ Replies(t, q, FALSE)
      BY <1>3
    <3>1. PICK q \in {p \in S : p.browser = b /\ process[b] = "up"} : t = Failure(q) BY <1>3
    <3> QED BY <1>4, <3>1
  <2> QED BY <1>2, <2>1, <2>2 DEF Ended, CancelQueries, Renderers, rendererVars
<1> QED BY <1>1, <1>5 DEF Ends

\* Every step has one of these effects, or is one of those that touch the renderers, the
\* processes or the navigations.
LEMMA StepEffects ==
  ASSUME TypeOK, PendingFinite, Next
  PROVE  \/ Internal
         \/ \E S \in SUBSET pending, s \in Ends : Ended(S, s)
         \/ \E q \in pending : Streamed(q)
         \/ \E b \in Browsers, h \in Handlers : Accepted(b, h)
         \/ \E b \in Browsers : \/ Refused(b) \/ CancelReceived(b)
                                \/ OnBeforeBrowse(b) \/ OnBeforeClose(b) \/ Crash(b)
                                \/ OnRenderProcessTerminated(b) \/ Relaunch(b)
                                \/ ExecuteCallback(b)
         \/ \E b \in Browsers, f \in Frames :
              \/ OnContextCreated(b, f) \/ OnContextReleased(b, f)
              \/ \E persistent \in Persistence : CefQuery(b, f, persistent)
              \/ \E r \in 1..MaxRequests : CefQueryCancel(b, f, r)
<1> USE DEF rendererVars, browserVars
<1>0. ASSUME UNCHANGED <<pending, app, toBrowser, toRenderer, rendererVars>>,
             NavigationMayAbort \/ UNCHANGED navigating
      PROVE  Internal
  BY <1>0 DEF Internal, Renderers, Coming
<1>1. CASE Application
  <2>1. CASE \E h \in Handlers : AddHandler(h)
    BY <1>0, <2>1 DEF AddHandler
  <2>2. CASE \E h \in Handlers : RemoveHandler(h)
    BY <2>2, CancelEnds DEF RemoveHandler
  <2>3. CASE \E bs \in BrowserSets, hs \in HandlerSets : CancelPending(bs, hs)
    BY <2>3, CancelEnds DEF CancelPending
  <2>4. CASE \E bs \in BrowserSets, hs \in HandlerSets : PostCancelPending(bs, hs)
    BY <1>0, <2>4 DEF PostCancelPending
  <2>5. CASE \E c \in callbacks, kind \in {"Success", "Failure"} :
               CallOnUiThread(c, kind) \/ CallOnOtherThread(c, kind)
    BY <1>0, <2>5 DEF CallOnUiThread, CallOnOtherThread
  <2> QED BY <1>1, <2>1, <2>2, <2>3, <2>4, <2>5 DEF Application
<1>2. CASE RunUiTask
  <2> DEFINE t == Head(uiTasks)
  <2>1. uiTasks # <<>> => t \in CallbackTask \cup CancelTask BY DEF TypeOK
  <2>2. ASSUME t \in CallbackTask, NEW q \in pending
        PROVE  /\ Success(q, t) \in Response /\ Failure(q) \in Response
               /\ Replies(Success(q, t), q, TRUE) /\ Replies(Failure(q), q, FALSE)
               /\ q.browser \in Browsers /\ q.persistent \in BOOLEAN
    BY <2>2 DEF TypeOK, QueryInfo, CallbackTask, Success, Failure, Response, Threads, Replies
  <2>3. CASE RunPostedCall BY <1>0, <2>3 DEF RunPostedCall
  <2>4. CASE OnCallbackSuccess
    <3>1. t \in CallbackTask BY <2>1, <2>4 DEF OnCallbackSuccess, CancelTask
    <3>2. UNCHANGED <<navigating, rendererVars, toBrowser>> BY <2>4 DEF OnCallbackSuccess
    <3>3. CASE UNCHANGED <<pending, toRenderer, app>> BY <1>0, <3>2, <3>3
    <3>4. ASSUME NEW q \in pending,
                 pending' = IF q.persistent THEN pending ELSE pending \ {q},
                 SendToRenderer(q.browser, <<Success(q, t)>>),
                 Record({UidOf(q)}, IF q.persistent THEN "streaming" ELSE "answered")
          PROVE  Streamed(q) \/ Ended({q}, "answered")
      <4> DEFINE m == Success(q, t)
      <4>1. m \in Response /\ Replies(m, q, TRUE) /\ q.browser \in Browsers BY <2>2, <3>1
      <4> HIDE DEF m
      <4>2. \A c \in Browsers :
              Coming(c)' = Coming(c) \cup {x \in {m} : c = q.browser /\ process[q.browser] = "up"}
        BY <3>2, <3>4, <4>1, ComingSend DEF m
      <4>3. CASE q.persistent
        BY <3>2, <3>4, <4>1, <4>2, <4>3 DEF Streamed, Renderers
      <4>4. CASE ~q.persistent
        <5>1. {UidOf(p) : p \in {q}} = {UidOf(q)} OBVIOUS
        <5> QED BY <3>2, <3>4, <4>1, <4>2, <4>4, <5>1 DEF Ended, Renderers
      <4> QED BY <4>3, <4>4
    <3> QED BY <2>4, <3>3, <3>4 DEF OnCallbackSuccess, Ends
  <2>5. CASE OnCallbackFailure
    <3>1. t \in CallbackTask BY <2>1, <2>5 DEF OnCallbackFailure, CancelTask
    <3>2. UNCHANGED <<navigating, rendererVars, toBrowser>> BY <2>5 DEF OnCallbackFailure
    <3>3. CASE UNCHANGED <<pending, toRenderer, app>> BY <1>0, <3>2, <3>3
    <3>4. ASSUME NEW q \in pending, pending' = pending \ {q},
                 SendToRenderer(q.browser, <<Failure(q)>>), Record({UidOf(q)}, "failed")
          PROVE  Ended({q}, "failed")
      <4> DEFINE m == Failure(q)
      <4>1. m \in Response /\ Replies(m, q, FALSE) /\ q.browser \in Browsers BY <2>2, <3>1
      <4> HIDE DEF m
      <4>2. \A c \in Browsers :
              Coming(c)' = Coming(c) \cup {x \in {m} : c = q.browser /\ process[q.browser] = "up"}
        BY <3>2, <3>4, <4>1, ComingSend DEF m
      <4>3. {UidOf(p) : p \in {q}} = {UidOf(q)} OBVIOUS
      <4> QED BY <3>2, <3>4, <4>1, <4>2, <4>3 DEF Ended, Renderers
    <3> QED BY <2>5, <3>3, <3>4 DEF OnCallbackFailure, Ends
  <2>6. CASE RunCancelPendingFor BY <2>6, CancelEnds DEF RunCancelPendingFor
  <2> QED BY <1>2, <2>3, <2>4, <2>5, <2>6 DEF RunUiTask
<1>3. ASSUME NEW b \in Browsers, QueryReceived(b)
      PROVE  Internal \/ Refused(b) \/ \E h \in Handlers : Accepted(b, h)
  <2> DEFINE m == Head(toBrowser[b])
             f == Failure([ctx |-> m.ctx, req |-> m.req, epoch |-> epoch[b]])
  <2>1. ASSUME Receive(b, "query"), CancelUnhandledQuery(b, m), UNCHANGED <<pending, navigating, rendererVars>>
        PROVE  Refused(b)
    <3>0. epoch[b] \in Nat BY Bounds DEF TypeOK
    <3>1. m \in QueryMsg /\ epoch[b] \in Nat BY <2>1, <3>0, ReceiveType
    <3>2. f \in Response BY <3>1 DEF Failure, Response, Threads, QueryMsg
    <3>3. Replies(f, m, FALSE) BY DEF Failure, Replies
    <3>4. SendToRenderer(b, <<f>>) /\ Record({<<b, epoch[b], m.req>>}, "refused")
      BY <2>1 DEF CancelUnhandledQuery
    <3> HIDE DEF f, m
    <3>5. \A c \in Browsers : Coming(c)' = Coming(c) \cup {x \in {f} : c = b /\ process[b] = "up"}
      BY <2>1, <3>2, <3>4, ComingSend
    <3> QED BY <2>1, <3>3, <3>4, <3>5 DEF Refused, Renderers, m
  <2>2. CASE QueryWithoutHandlers(b) BY <2>1, <2>2 DEF QueryWithoutHandlers
  <2>3. ASSUME NEW called, QueryUnhandled(b, called) PROVE Refused(b)
    BY <2>1, <2>3 DEF QueryUnhandled
  <2>4. ASSUME NEW called, NEW h \in Handlers, QueryHandled(b, h, called) PROVE Accepted(b, h)
    BY <2>4 DEF QueryHandled, Accepted, Renderers, Coming
  <2>5. CASE OfferQuery(b) BY <1>0, <2>5 DEF OfferQuery
  <2> QED BY <1>3, <2>2, <2>3, <2>4, <2>5 DEF QueryReceived
<1>4. ASSUME NEW b \in Browsers, NavigationAborted(b) PROVE Internal
  BY <1>0, <1>4 DEF NavigationAborted
<1>5. ASSUME NEW b \in Browsers, ResponseReceived(b) PROVE Internal
  BY <1>5, ComingTaken DEF ResponseReceived, Internal, Renderers
<1> QED BY <1>1, <1>2, <1>3, <1>4, <1>5 DEF Next, Navigation, Renderer
-----------------------------------------------------------------------------
(***************************************************************************)
(* One id, one query, one place.                                           *)
(***************************************************************************)
\* A renderer that ended has no requests, and what it had sent is read before its end is told.
NothingFromTheDead ==
  \A b \in Browsers :
    /\ process[b] # "up" => requests[b] = {}
    /\ process[b] \in {"terminated", "closed"} => toBrowser[b] = <<>>

\* All that is known of an id agrees, wherever it is kept; and ids were given out by the counter.
OnePerId ==
  \A b \in Browsers :
    /\ \A x, y \in Known(b) : x.req = y.req => x = y
    /\ \A x \in Known(b), t \in Coming(b) : x.req = t.req => x.ctx = t.ctx
    /\ \A x \in Known(b) : x.req \in 1..MaxRequests
    /\ \A t \in Coming(b) : t.req \in 1..MaxRequests
    /\ process[b] = "up" => /\ \A x \in Known(b) : x.req <= nextRequest[b]
                            /\ \A t \in Coming(b) : t.req <= nextRequest[b]

\* A query is on its way, pending, or being answered, and pending beside an answer only when it
\* is persistent and that answer is a success.
OnePlace ==
  \A b \in Browsers :
    /\ \A j, k \in Asked(b) : j # k => toBrowser[b][j].req # toBrowser[b][k].req
    /\ \A k \in Asked(b), q \in Of(b) : toBrowser[b][k].req # q.req
    /\ \A k \in Asked(b), t \in Coming(b) : toBrowser[b][k].req # t.req
    /\ \A p, q \in Of(b) : p # q => p.req # q.req
    /\ \A q \in Of(b), t \in Coming(b) : q.req = t.req => t.ok /\ q.persistent

PlacesInv == EpochInv /\ ContextsNumbered /\ NothingFromTheDead /\ OnePerId /\ OnePlace

\* The queries of b only go: by d messages read from its pipe, by responses to queries that were
\* pending, or by the failure of the query that was read.
Fewer(b) ==
  /\ requests'[b] \subseteq requests[b] /\ Of(b)' \subseteq Of(b)
  /\ process'[b] = "up" => \/ process[b] = "up" /\ nextRequest'[b] = nextRequest[b]
                           \/ Known(b)' = {} /\ Coming(b)' = {}
  /\ \E d \in {0, 1} :
       /\ \A k \in Asked(b)' : k + d \in Asked(b) /\ toBrowser'[b][k] = toBrowser[b][k + d]
       /\ \A t \in Coming(b)' \ Coming(b) :
            \/ \E q \in Of(b) : /\ t.req = q.req /\ t.ctx = q.ctx
                                /\ q \in Of(b)' => t.ok /\ q.persistent
            \/ /\ d = 1 /\ 1 \in Asked(b)
               /\ t.req = toBrowser[b][1].req /\ t.ctx = toBrowser[b][1].ctx

\* What is asked and what is pending is known.
LEMMA KnownParts ==
  ASSUME NEW b \in Browsers
  PROVE  /\ requests[b] \subseteq Known(b)
         /\ \A k \in Asked(b) : AsRequest(toBrowser[b][k]) \in Known(b)
         /\ \A q \in Of(b) : AsRequest(q) \in Known(b)
         /\ \A x : /\ AsRequest(x).req = x.req /\ AsRequest(x).ctx = x.ctx
                   /\ AsRequest(x).persistent = x.persistent
BY DEF Known, AsRequest

\* When queries only go, what is left is still in one place, and all that is known agrees.
LEMMA FewerPlaces ==
  ASSUME TypeOK', OnePerId, OnePlace, \A b \in Browsers : Fewer(b)
  PROVE  OnePerId' /\ OnePlace'
<1> SUFFICES ASSUME NEW b \in Browsers
             PROVE  /\ /\ \A x, y \in Known(b)' : x.req = y.req => x = y
                       /\ \A x \in Known(b)', t \in Coming(b)' : x.req = t.req => x.ctx = t.ctx
                       /\ \A x \in Known(b)' : x.req \in 1..MaxRequests
                       /\ \A t \in Coming(b)' : t.req \in 1..MaxRequests
                       /\ process'[b] = "up" => /\ \A x \in Known(b)' : x.req <= nextRequest'[b]
                                                /\ \A t \in Coming(b)' : t.req <= nextRequest'[b]
                    /\ /\ \A j, k \in Asked(b)' : j # k => toBrowser'[b][j].req # toBrowser'[b][k].req
                       /\ \A k \in Asked(b)', q \in Of(b)' : toBrowser'[b][k].req # q.req
                       /\ \A k \in Asked(b)', t \in Coming(b)' : toBrowser'[b][k].req # t.req
                       /\ \A p, q \in Of(b)' : p # q => p.req # q.req
                       /\ \A q \in Of(b)', t \in Coming(b)' : q.req = t.req => t.ok /\ q.persistent
  BY DEF OnePerId, OnePlace
<1>1. PICK d \in {0, 1} :
        /\ \A k \in Asked(b)' : k + d \in Asked(b) /\ toBrowser'[b][k] = toBrowser[b][k + d]
        /\ \A t \in Coming(b)' \ Coming(b) :
             \/ \E q \in Of(b) : /\ t.req = q.req /\ t.ctx = q.ctx
                                 /\ q \in Of(b)' => t.ok /\ q.persistent
             \/ /\ d = 1 /\ 1 \in Asked(b)
                /\ t.req = toBrowser[b][1].req /\ t.ctx = toBrowser[b][1].ctx
  BY DEF Fewer
<1>2. /\ requests'[b] \subseteq requests[b] /\ Of(b)' \subseteq Of(b)
      /\ process'[b] = "up" => \/ process[b] = "up" /\ nextRequest'[b] = nextRequest[b]
                               \/ Known(b)' = {} /\ Coming(b)' = {}
  BY DEF Fewer
<1>3. \A k \in Asked(b)' : k \in Nat /\ k > 0
  <2>1. toBrowser'[b] \in Seq(QueryMsg \cup CancelMsg) BY DEF TypeOK
  <2> QED BY <2>1 DEF Asked
<1>4. Known(b)' \subseteq Known(b)
  <2>1. \A k \in Asked(b)' : AsRequest(toBrowser'[b][k]) \in Known(b) BY <1>1, KnownParts
  <2>2. \A q \in Of(b)' : AsRequest(q) \in Known(b) BY <1>2, KnownParts
  <2>3. requests'[b] \subseteq Known(b) BY <1>2, KnownParts
  <2>4. Known(b)' = requests'[b] \cup {AsRequest(toBrowser'[b][k]) : k \in Asked(b)'}
                      \cup {AsRequest(q) : q \in Of(b)'}
    BY DEF Known, AsRequest
  <2> QED BY <2>1, <2>2, <2>3, <2>4
<1>5. \A t \in Coming(b)' :
        t \in Coming(b) \/ \E x \in Known(b) : t.req = x.req /\ t.ctx = x.ctx
  BY <1>1, KnownParts
<1>6. /\ \A x, y \in Known(b) : x.req = y.req => x = y
      /\ \A x \in Known(b), t \in Coming(b) : x.req = t.req => x.ctx = t.ctx
      /\ \A x \in Known(b) : x.req \in 1..MaxRequests
      /\ \A t \in Coming(b) : t.req \in 1..MaxRequests
      /\ process[b] = "up" => /\ \A x \in Known(b) : x.req <= nextRequest[b]
                              /\ \A t \in Coming(b) : t.req <= nextRequest[b]
  BY DEF OnePerId
<1>7. /\ \A j, k \in Asked(b) : j # k => toBrowser[b][j].req # toBrowser[b][k].req
      /\ \A k \in Asked(b), q \in Of(b) : toBrowser[b][k].req # q.req
      /\ \A k \in Asked(b), t \in Coming(b) : toBrowser[b][k].req # t.req
      /\ \A p, q \in Of(b) : p # q => p.req # q.req
      /\ \A q \in Of(b), t \in Coming(b) : q.req = t.req => t.ok /\ q.persistent
  BY DEF OnePlace
<1>8. /\ \A x, y \in Known(b)' : x.req = y.req => x = y
      /\ \A x \in Known(b)' : x.req \in 1..MaxRequests
  BY <1>4, <1>6
<1>9. \A x \in Known(b)', t \in Coming(b)' : x.req = t.req => x.ctx = t.ctx
  BY <1>4, <1>5, <1>6
<1>10. \A t \in Coming(b)' : t.req \in 1..MaxRequests BY <1>5, <1>6
<1>11. process'[b] = "up" => /\ \A x \in Known(b)' : x.req <= nextRequest'[b]
                             /\ \A t \in Coming(b)' : t.req <= nextRequest'[b]
  BY <1>2, <1>4, <1>5, <1>6
<1>12. \A j, k \in Asked(b)' : j # k => toBrowser'[b][j].req # toBrowser'[b][k].req
  BY <1>1, <1>3, <1>7
<1>13. \A k \in Asked(b)', q \in Of(b)' : toBrowser'[b][k].req # q.req BY <1>1, <1>2, <1>7
<1>14. \A k \in Asked(b)', t \in Coming(b)' : toBrowser'[b][k].req # t.req
  <2> SUFFICES ASSUME NEW k \in Asked(b)', NEW t \in Coming(b)' PROVE toBrowser'[b][k].req # t.req
    OBVIOUS
  <2>1. k + d \in Asked(b) /\ toBrowser'[b][k] = toBrowser[b][k + d] BY <1>1
  <2>2. CASE t \in Coming(b) BY <1>7, <2>1, <2>2
  <2>3. CASE \E q \in Of(b) : t.req = q.req BY <1>7, <2>1, <2>3
  <2>4. CASE d = 1 /\ 1 \in Asked(b) /\ t.req = toBrowser[b][1].req
    <3>1. k + d # 1 BY <1>3, <2>4
    <3> QED BY <1>7, <2>1, <2>4, <3>1
  <2> QED BY <1>1, <2>2, <2>3, <2>4
<1>15. \A p, q \in Of(b)' : p # q => p.req # q.req BY <1>2, <1>7
<1>16. \A q \in Of(b)', t \in Coming(b)' : q.req = t.req => t.ok /\ q.persistent
  <2> SUFFICES ASSUME NEW q \in Of(b)', NEW t \in Coming(b)', q.req = t.req
               PROVE  t.ok /\ q.persistent
    OBVIOUS
  <2>1. q \in Of(b) BY <1>2
  <2>2. CASE t \in Coming(b) BY <1>7, <2>1, <2>2
  <2>3. CASE \E p \in Of(b) : t.req = p.req /\ (p \in Of(b)' => t.ok /\ p.persistent)
    <3>1. PICK p \in Of(b) : t.req = p.req /\ (p \in Of(b)' => t.ok /\ p.persistent) BY <2>3
    <3>2. p = q BY <1>7, <2>1, <3>1
    <3> QED BY <3>1, <3>2
  <2>4. CASE 1 \in Asked(b) /\ t.req = toBrowser[b][1].req BY <1>7, <2>1, <2>4
  <2> QED BY <1>1, <2>2, <2>3, <2>4
<1> QED BY <1>8, <1>9, <1>10, <1>11, <1>12, <1>13, <1>14, <1>15, <1>16

\* A browser whose queries a step does not touch.
LEMMA FewerSame ==
  ASSUME TypeOK, NEW b \in Browsers, requests'[b] \subseteq requests[b], Of(b)' \subseteq Of(b),
         process'[b] = "up" => process[b] = "up" /\ nextRequest'[b] = nextRequest[b],
         toBrowser'[b] = toBrowser[b], Coming(b)' \subseteq Coming(b)
  PROVE  Fewer(b)
<1>1. \A k \in Asked(b)' : /\ k + 0 = k /\ k + 0 \in Asked(b)
                           /\ toBrowser'[b][k] = toBrowser[b][k + 0]
  <2>1. toBrowser[b] \in Seq(QueryMsg \cup CancelMsg) BY DEF TypeOK
  <2> QED BY <2>1 DEF Asked
<1> QED BY <1>1 DEF Fewer

\* The queries that follow a message that is read move up by one.
LEMMA AskedRead ==
  ASSUME TypeOK, NEW b \in Browsers, NEW type, Receive(b, type)
  PROVE  /\ \A k \in Asked(b)' : k + 1 \in Asked(b) /\ toBrowser'[b][k] = toBrowser[b][k + 1]
         /\ type = "query" => 1 \in Asked(b)
         /\ Head(toBrowser[b]) = toBrowser[b][1]
         /\ \A c \in Browsers \ {b} : toBrowser'[c] = toBrowser[c]
BY ReadMessage DEF Asked

\* What SendCancel writes is not a query.
LEMMA AskedCancel ==
  ASSUME TypeOK, NEW b \in Browsers, NEW c \in Nat, NEW r \in Nat, SendCancel(b, c, r)
  PROVE  /\ \A k \in Asked(b)' : /\ k + 0 = k /\ k + 0 \in Asked(b)
                                 /\ toBrowser'[b][k] = toBrowser[b][k + 0]
         /\ \A d \in Browsers \ {b} : toBrowser'[d] = toBrowser[d]
<1>1. toBrowser[b] \in Seq(QueryMsg \cup CancelMsg) BY DEF TypeOK
<1>2. CASE toBrowser' = toBrowser BY <1>1, <1>2 DEF Asked
<1>3. CASE toBrowser' # toBrowser
  <2> DEFINE m == [type |-> "cancel", ctx |-> c, req |-> r]
  <2>1. m \in QueryMsg \cup CancelMsg /\ m.type # "query" BY DEF CancelMsg
  <2>2. toBrowser' = [toBrowser EXCEPT ![b] = Append(@, m)] BY <1>3 DEF SendCancel
  <2> HIDE DEF m
  <2>3. PICK n \in Nat :
          /\ DOMAIN toBrowser'[b] = DOMAIN toBrowser[b] \cup {n}
          /\ \A k \in DOMAIN toBrowser[b] :
               k \in Nat /\ k < n /\ toBrowser'[b][k] = toBrowser[b][k]
          /\ toBrowser'[b][n] = m
          /\ \A d \in Browsers \ {b} : toBrowser'[d] = toBrowser[d]
    BY <2>1, <2>2, WriteMessage
  <2> QED BY <2>1, <2>3 DEF Asked
<1> QED BY <1>2, <1>3

\* What a reset takes from a renderer, and from no other.
LEMMA ResetTakes ==
  ASSUME TypeOK, NEW b \in Browsers, ResetRenderer(b)
  PROVE  /\ requests'[b] = {} /\ Coming(b)' = {} /\ nextRequest'[b] = 0
         /\ \A c \in Browsers \ {b} : /\ requests'[c] = requests[c] /\ Coming(c)' = Coming(c)
                                      /\ nextRequest'[c] = nextRequest[c]
<1>1. /\ requests'[b] = {} /\ renderTasks'[b] = <<>> /\ toRenderer'[b] = <<>> /\ nextRequest'[b] = 0
      /\ \A c \in Browsers \ {b} : /\ requests'[c] = requests[c] /\ nextRequest'[c] = nextRequest[c]
                                   /\ renderTasks'[c] = renderTasks[c]
                                   /\ toRenderer'[c] = toRenderer[c]
  BY DEF ResetRenderer, TypeOK, kReservedId
<1> QED BY <1>1 DEF Coming, Elements

\* Queries leave the map when they are canceled, and never enter it.
LEMMA CanceledOf ==
  ASSUME NEW S, CancelQueries(S)
  PROVE  \A b \in Browsers : Of(b)' = Of(b) \ S
BY DEF CancelQueries, Of

\* Every step but a page's query and its acceptance only lets queries go.
LEMMA StepFewer ==
  ASSUME EpochInv, NothingFromTheDead, Next
  PROVE  \/ \A b \in Browsers : Fewer(b)
         \/ \E b \in Browsers, h \in Handlers : Accepted(b, h)
         \/ \E b \in Browsers, f \in Frames, persistent \in Persistence : CefQuery(b, f, persistent)
<1> USE DEF rendererVars, browserVars
<1>0. TypeOK /\ PendingFinite /\ NothingForTheDead /\ PendingCurrent BY DEF EpochInv
<1>1. CASE Internal
  BY <1>0, <1>1, FewerSame DEF Internal, Renderers, Of
<1>2. ASSUME NEW S \in SUBSET pending, NEW s \in Ends, Ended(S, s) PROVE \A b \in Browsers : Fewer(b)
  <2> TAKE b \in Browsers
  <2>1. Of(b)' = Of(b) \ S BY <1>2 DEF Ended, Of
  <2>2. ASSUME NEW t \in Coming(b)' \ Coming(b)
        PROVE  \E q \in Of(b) : t.req = q.req /\ t.ctx = q.ctx /\ q \notin Of(b)'
    <3>1. PICK q \in S : q.browser = b /\ Replies(t, q, s = "answered") BY <1>2 DEF Ended
    <3> QED BY <2>1, <3>1 DEF Of, Replies
  <2>3. UNCHANGED <<toBrowser, process, nextRequest, requests>> BY <1>2 DEF Ended, Renderers
  <2>4. \A k \in Asked(b)' : k + 0 \in Asked(b) /\ toBrowser'[b][k] = toBrowser[b][k + 0]
    <3>1. toBrowser[b] \in Seq(QueryMsg \cup CancelMsg) BY <1>0 DEF TypeOK
    <3> QED BY <2>3, <3>1 DEF Asked
  <2> QED BY <2>1, <2>2, <2>3, <2>4 DEF Fewer
<1>3. ASSUME NEW q \in pending, Streamed(q) PROVE \A b \in Browsers : Fewer(b)
  <2> TAKE b \in Browsers
  <2>1. Of(b)' = Of(b) BY <1>3 DEF Streamed, Of
  <2>2. ASSUME NEW t \in Coming(b)' \ Coming(b)
        PROVE  q \in Of(b) /\ t.req = q.req /\ t.ctx = q.ctx /\ t.ok /\ q.persistent
    BY <1>3 DEF Streamed, Of, Replies
  <2>3. UNCHANGED <<toBrowser, process, nextRequest, requests>> BY <1>3 DEF Streamed, Renderers
  <2>4. \A k \in Asked(b)' : k + 0 \in Asked(b) /\ toBrowser'[b][k] = toBrowser[b][k + 0]
    <3>1. toBrowser[b] \in Seq(QueryMsg \cup CancelMsg) BY <1>0 DEF TypeOK
    <3> QED BY <2>3, <3>1 DEF Asked
  <2> QED BY <2>1, <2>2, <2>3, <2>4 DEF Fewer
<1>4. ASSUME NEW b \in Browsers, Refused(b) PROVE \A c \in Browsers : Fewer(c)
  <2>1. Receive(b, "query") /\ UNCHANGED <<pending, process, nextRequest, requests>>
    BY <1>4 DEF Refused, Renderers
  <2>2. Of(b)' = Of(b) /\ \A c \in Browsers : Of(c)' = Of(c) BY <2>1 DEF Of
  <2>3. /\ \A k \in Asked(b)' : k + 1 \in Asked(b) /\ toBrowser'[b][k] = toBrowser[b][k + 1]
        /\ 1 \in Asked(b) /\ Head(toBrowser[b]) = toBrowser[b][1]
        /\ \A c \in Browsers \ {b} : toBrowser'[c] = toBrowser[c]
    BY <1>0, <2>1, AskedRead
  <2>4. /\ \A c \in Browsers \ {b} : Coming(c)' \subseteq Coming(c)
        /\ \A t \in Coming(b)' \ Coming(b) :
             t.req = toBrowser[b][1].req /\ t.ctx = toBrowser[b][1].ctx
    BY <1>4, <2>3 DEF Refused, Replies
  <2>5. Fewer(b) BY <2>1, <2>2, <2>3, <2>4 DEF Fewer
  <2>6. \A c \in Browsers \ {b} : Fewer(c) BY <1>0, <2>1, <2>2, <2>3, <2>4, FewerSame
  <2> QED BY <2>5, <2>6
<1>5. ASSUME NEW b \in Browsers, CancelReceived(b) PROVE \A c \in Browsers : Fewer(c)
  <2>1. Receive(b, "cancel") /\ UNCHANGED <<process, nextRequest, requests, renderTasks, toRenderer>>
    BY <1>5 DEF CancelReceived
  <2>2. \A c \in Browsers : Of(c)' \subseteq Of(c) BY <1>5, CanceledOf DEF CancelReceived
  <2>3. /\ \A k \in Asked(b)' : k + 1 \in Asked(b) /\ toBrowser'[b][k] = toBrowser[b][k + 1]
        /\ \A c \in Browsers \ {b} : toBrowser'[c] = toBrowser[c]
    BY <1>0, <2>1, AskedRead
  <2>4. \A c \in Browsers : Coming(c)' = Coming(c) BY <2>1 DEF Coming
  <2>5. Fewer(b) BY <2>1, <2>2, <2>3, <2>4 DEF Fewer
  <2>6. \A c \in Browsers \ {b} : Fewer(c) BY <1>0, <2>1, <2>2, <2>3, <2>4, FewerSame
  <2> QED BY <2>5, <2>6
<1>6. ASSUME NEW b \in Browsers, OnBeforeBrowse(b) \/ OnRenderProcessTerminated(b)
      PROVE  \A c \in Browsers : Fewer(c)
  <2>1. /\ UNCHANGED <<nextRequest, requests, renderTasks, toRenderer, toBrowser>>
        /\ CancelQueries(Matching({b}, Handlers))
        /\ \A c \in Browsers : process'[c] = "up" => process[c] = "up"
    BY <1>0, <1>6 DEF OnBeforeBrowse, OnRenderProcessTerminated, CancelSilently, TypeOK
  <2>2. \A c \in Browsers : Of(c)' \subseteq Of(c) BY <2>1, CanceledOf
  <2>3. \A c \in Browsers : Coming(c)' = Coming(c) BY <2>1 DEF Coming
  <2> QED BY <1>0, <2>1, <2>2, <2>3, FewerSame
<1>7. ASSUME NEW b \in Browsers, OnBeforeClose(b) PROVE \A c \in Browsers : Fewer(c)
  <2>1. /\ ResetRenderer(b) /\ process' = [process EXCEPT ![b] = "closed"]
        /\ toBrowser' = [toBrowser EXCEPT ![b] = <<>>]
    BY <1>7 DEF OnBeforeClose
  <2>2. /\ process'[b] = "closed" /\ toBrowser'[b] = <<>>
        /\ \A c \in Browsers \ {b} : process'[c] = process[c] /\ toBrowser'[c] = toBrowser[c]
    BY <1>0, <2>1 DEF TypeOK
  <2>3. /\ requests'[b] = {} /\ Coming(b)' = {}
        /\ \A c \in Browsers \ {b} : /\ requests'[c] = requests[c] /\ Coming(c)' = Coming(c)
                                     /\ nextRequest'[c] = nextRequest[c]
    BY <1>0, <2>1, ResetTakes
  <2>4. \A c \in Browsers : Of(c)' \subseteq Of(c)
    BY <1>7, CanceledOf DEF OnBeforeClose, CloseInRouter, CloseInCefClient, Of
  <2>5. Asked(b)' = {} BY <2>2 DEF Asked
  <2>6. Fewer(b) BY <2>2, <2>3, <2>4, <2>5 DEF Fewer
  <2>7. \A c \in Browsers \ {b} : Fewer(c) BY <1>0, <2>2, <2>3, <2>4, FewerSame
  <2> QED BY <2>6, <2>7
<1>8. ASSUME NEW b \in Browsers, Crash(b) PROVE \A c \in Browsers : Fewer(c)
  <2>1. /\ ResetRenderer(b) /\ process' = [process EXCEPT ![b] = "crashed"] /\ UNCHANGED pending
    BY <1>8 DEF Crash
  <2>2. PICK n \in 0..Len(toBrowser[b]) :
          toBrowser' = [toBrowser EXCEPT ![b] = SubSeq(@, 1, n)]
    BY <1>8 DEF Crash
  <2>3. /\ process'[b] = "crashed" /\ toBrowser'[b] = SubSeq(toBrowser[b], 1, n)
        /\ \A c \in Browsers \ {b} : process'[c] = process[c] /\ toBrowser'[c] = toBrowser[c]
    BY <1>0, <2>1, <2>2 DEF TypeOK
  <2>4. /\ requests'[b] = {} /\ Coming(b)' = {}
        /\ \A c \in Browsers \ {b} : /\ requests'[c] = requests[c] /\ Coming(c)' = Coming(c)
                                     /\ nextRequest'[c] = nextRequest[c]
    BY <1>0, <2>1, ResetTakes
  <2>5. \A c \in Browsers : Of(c)' = Of(c) BY <2>1 DEF Of
  <2>6. \A k \in Asked(b)' : k + 0 \in Asked(b) /\ toBrowser'[b][k] = toBrowser[b][k + 0]
    <3>1. toBrowser[b] \in Seq(QueryMsg \cup CancelMsg) BY <1>0 DEF TypeOK
    <3>2. \A k \in DOMAIN SubSeq(toBrowser[b], 1, n) :
            k + 0 \in DOMAIN toBrowser[b] /\ SubSeq(toBrowser[b], 1, n)[k] = toBrowser[b][k + 0]
      BY <3>1
    <3> QED BY <2>3, <3>2 DEF Asked
  <2>7. Fewer(b) BY <2>3, <2>4, <2>5, <2>6 DEF Fewer
  <2>8. \A c \in Browsers \ {b} : Fewer(c) BY <1>0, <2>3, <2>4, <2>5, FewerSame
  <2> QED BY <2>7, <2>8
<1>9. ASSUME NEW b \in Browsers, Relaunch(b) PROVE \A c \in Browsers : Fewer(c)
  <2>1. /\ process[b] = "terminated" /\ process' = [process EXCEPT ![b] = "up"]
        /\ UNCHANGED <<pending, nextRequest, requests, renderTasks, toBrowser, toRenderer>>
    BY <1>9 DEF Relaunch
  <2>2. /\ requests[b] = {} /\ toBrowser[b] = <<>> /\ toRenderer[b] = <<>> /\ renderTasks[b] = <<>>
        /\ Of(b) = {}
    BY <1>0, <2>1 DEF NothingFromTheDead, NothingForTheDead, PendingCurrent, Of
  <2>3. /\ requests'[b] = {} /\ Asked(b)' = {} /\ Of(b)' = {} /\ Coming(b)' = {}
    BY <2>1, <2>2 DEF Asked, Of, Coming, Elements
  <2>4. Known(b)' = {}
    <3>1. Known(b)' = requests'[b] \cup {AsRequest(toBrowser'[b][k]) : k \in Asked(b)'}
                        \cup {AsRequest(q) : q \in Of(b)'}
      BY DEF Known, AsRequest
    <3> QED BY <2>3, <3>1
  <2>5. Fewer(b) BY <2>3, <2>4 DEF Fewer
  <2>6. \A c \in Browsers : Of(c)' = Of(c) /\ Coming(c)' = Coming(c) BY <2>1 DEF Of, Coming
  <2>7. \A c \in Browsers \ {b} : process'[c] = process[c] BY <1>0, <2>1 DEF TypeOK
  <2>8. \A c \in Browsers \ {b} : Fewer(c) BY <1>0, <2>1, <2>6, <2>7, FewerSame
  <2> QED BY <2>5, <2>8
<1>10. ASSUME NEW b \in Browsers, ExecuteCallback(b) PROVE \A c \in Browsers : Fewer(c)
  <2>1. /\ UNCHANGED <<pending, process, nextRequest, toBrowser>>
        /\ \A c \in Browsers : requests'[c] \subseteq requests[c]
    BY <1>0, <1>10 DEF ExecuteCallback, TypeOK
  <2>2. \A c \in Browsers : Coming(c)' \subseteq Coming(c) /\ Of(c)' = Of(c)
    BY <1>0, <1>10, <2>1, ComingTaken DEF Of
  <2> QED BY <1>0, <2>1, <2>2, FewerSame
<1>11. ASSUME NEW b \in Browsers, NEW f \in Frames, OnContextCreated(b, f)
       PROVE  \A c \in Browsers : Fewer(c)
  BY <1>0, <1>11, FewerSame DEF OnContextCreated, Of, Coming
<1>12. ASSUME NEW b \in Browsers, NEW c \in Nat, NEW r \in Nat, SendCancel(b, c, r),
              UNCHANGED <<pending, process, nextRequest, renderTasks, toRenderer>>
       PROVE  \A d \in Browsers : Fewer(d)
  <2>1. \A d \in Browsers : requests'[d] \subseteq requests[d] BY <1>0, <1>12 DEF SendCancel, TypeOK
  <2>2. \A d \in Browsers : Of(d)' = Of(d) /\ Coming(d)' = Coming(d) BY <1>12 DEF Of, Coming
  <2>3. /\ \A k \in Asked(b)' : k + 0 \in Asked(b) /\ toBrowser'[b][k] = toBrowser[b][k + 0]
        /\ \A d \in Browsers \ {b} : toBrowser'[d] = toBrowser[d]
    BY <1>0, <1>12, AskedCancel
  <2>4. Fewer(b) BY <1>12, <2>1, <2>2, <2>3 DEF Fewer
  <2>5. \A d \in Browsers \ {b} : Fewer(d) BY <1>0, <1>12, <2>1, <2>2, <2>3, FewerSame
  <2> QED BY <2>4, <2>5
<1>13. ASSUME NEW b \in Browsers, NEW f \in Frames, OnContextReleased(b, f)
       PROVE  \A c \in Browsers : Fewer(c)
  <2>1. CASE context[b][f] = kReservedId
    BY <1>0, <1>13, <2>1, FewerSame DEF OnContextReleased, Of, Coming
  <2>2. CASE context[b][f] # kReservedId
    <3>1. context[b][f] \in Nat /\ kReservedId \in Nat
      BY <1>0, <1>13 DEF TypeOK, OnContextReleased, kReservedId
    <3> QED BY <1>12, <1>13, <2>2, <3>1 DEF OnContextReleased
  <2> QED BY <2>1, <2>2
<1>14. ASSUME NEW b \in Browsers, NEW f \in Frames, NEW r \in 1..MaxRequests, CefQueryCancel(b, f, r)
       PROVE  \A c \in Browsers : Fewer(c)
  <2>1. ContextId(b, f) \in Nat
    BY <1>0, <1>14 DEF TypeOK, CefQueryCancel, UseContext, ContextId
  <2> QED BY <1>12, <1>14, <2>1 DEF CefQueryCancel
<1> QED BY <1>0, <1>1, <1>2, <1>3, <1>4, <1>5, <1>6, <1>7, <1>8, <1>9, <1>10, <1>11, <1>13, <1>14,
           StepEffects

\* A query that is accepted moves from the pipe to the map.
LEMMA AcceptPlaces ==
  ASSUME TypeOK, TypeOK', OnePerId, OnePlace, NEW b \in Browsers, NEW h \in Handlers, Accepted(b, h)
  PROVE  OnePerId' /\ OnePlace'
<1> DEFINE n == NewQuery(b, h)
<1>1. /\ \A k \in Asked(b)' : k + 1 \in Asked(b) /\ toBrowser'[b][k] = toBrowser[b][k + 1]
      /\ 1 \in Asked(b) /\ Head(toBrowser[b]) = toBrowser[b][1]
      /\ \A c \in Browsers \ {b} : toBrowser'[c] = toBrowser[c]
  BY AskedRead DEF Accepted
<1>2. /\ n.browser = b /\ AsRequest(n) = AsRequest(toBrowser[b][1]) /\ n.req = toBrowser[b][1].req
  BY <1>1 DEF NewQuery, AsRequest
<1>3. pending' = pending \cup {n} /\ UNCHANGED <<process, nextRequest, requests>>
  BY DEF Accepted, Renderers
<1> HIDE DEF n
<1>4. Of(b)' = Of(b) \cup {n} /\ \A c \in Browsers \ {b} : Of(c)' = Of(c)
  BY <1>2, <1>3 DEF Of
<1>5. \A c \in Browsers : Coming(c)' = Coming(c) BY DEF Accepted
<1>6. \A c \in Browsers \ {b} : Asked(c)' = Asked(c) BY <1>1 DEF Asked
<1>7. \A c \in Browsers : Known(c)' \subseteq Known(c)
  <2> TAKE c \in Browsers
  <2>1. \A k \in Asked(c)' : AsRequest(toBrowser'[c][k]) \in Known(c)
    BY <1>1, <1>6, KnownParts
  <2>2. \A q \in Of(c)' : AsRequest(q) \in Known(c) BY <1>1, <1>2, <1>4, KnownParts
  <2>3. requests'[c] \subseteq Known(c) BY <1>3, KnownParts
  <2>4. Known(c)' = requests'[c] \cup {AsRequest(toBrowser'[c][k]) : k \in Asked(c)'}
                      \cup {AsRequest(q) : q \in Of(c)'}
    BY DEF Known, AsRequest
  <2> QED BY <2>1, <2>2, <2>3, <2>4
<1>8. OnePerId' BY <1>3, <1>5, <1>7 DEF OnePerId
<1>9. \A k \in Asked(b)' : k \in Nat /\ k + 1 # 1
  <2>1. toBrowser'[b] \in Seq(QueryMsg \cup CancelMsg) BY DEF TypeOK
  <2> QED BY <2>1 DEF Asked
<1>10. /\ \A j, k \in Asked(b) : j # k => toBrowser[b][j].req # toBrowser[b][k].req
       /\ \A k \in Asked(b), q \in Of(b) : toBrowser[b][k].req # q.req
       /\ \A k \in Asked(b), t \in Coming(b) : toBrowser[b][k].req # t.req
       /\ \A p, q \in Of(b) : p # q => p.req # q.req
       /\ \A q \in Of(b), t \in Coming(b) : q.req = t.req => t.ok /\ q.persistent
  BY DEF OnePlace
<1>11. /\ \A j, k \in Asked(b)' : j # k => toBrowser'[b][j].req # toBrowser'[b][k].req
       /\ \A k \in Asked(b)', t \in Coming(b)' : toBrowser'[b][k].req # t.req
  BY <1>1, <1>5, <1>9, <1>10
<1>12. \A k \in Asked(b)', q \in Of(b)' : toBrowser'[b][k].req # q.req
  <2> SUFFICES ASSUME NEW k \in Asked(b)', NEW q \in Of(b)' PROVE toBrowser'[b][k].req # q.req
    OBVIOUS
  <2>1. CASE q = n BY <1>1, <1>2, <1>9, <1>10, <2>1
  <2>2. CASE q \in Of(b) BY <1>1, <1>10, <2>2
  <2> QED BY <1>4, <2>1, <2>2
<1>13. \A p, q \in Of(b)' : p # q => p.req # q.req BY <1>1, <1>2, <1>4, <1>10
<1>14. \A q \in Of(b)', t \in Coming(b)' : q.req = t.req => t.ok /\ q.persistent
  BY <1>1, <1>2, <1>4, <1>5, <1>10
<1>15. \A c \in Browsers \ {b} :
         /\ \A j, k \in Asked(c)' : j # k => toBrowser'[c][j].req # toBrowser'[c][k].req
         /\ \A k \in Asked(c)', q \in Of(c)' : toBrowser'[c][k].req # q.req
         /\ \A k \in Asked(c)', t \in Coming(c)' : toBrowser'[c][k].req # t.req
         /\ \A p, q \in Of(c)' : p # q => p.req # q.req
         /\ \A q \in Of(c)', t \in Coming(c)' : q.req = t.req => t.ok /\ q.persistent
  BY <1>1, <1>4, <1>5, <1>6 DEF OnePlace
<1>16. OnePlace' BY <1>11, <1>12, <1>13, <1>14, <1>15 DEF OnePlace
<1> QED BY <1>8, <1>16

\* What window.cefQuery leaves: a request with the next id, and its message at the pipe's end.
Sent(b, f, persistent, c, r, n) ==
  /\ c = ContextId(b, f) /\ r = nextRequest[b] + 1 /\ r \in 1..MaxRequests
  /\ persistent \in BOOLEAN
  /\ process[b] = "up" /\ nextRequest' = [nextRequest EXCEPT ![b] = r]
  /\ requests'[b] = requests[b] \cup {[ctx |-> c, req |-> r, persistent |-> persistent]}
  /\ DOMAIN toBrowser'[b] = DOMAIN toBrowser[b] \cup {n} /\ n \notin DOMAIN toBrowser[b]
  /\ \A k \in DOMAIN toBrowser[b] :
       k \in Nat /\ k < n /\ toBrowser'[b][k] = toBrowser[b][k]
  /\ toBrowser'[b][n] = [type |-> "query", ctx |-> c, req |-> r, persistent |-> persistent]
  /\ Asked(b)' = Asked(b) \cup {n}
  /\ \A d \in Browsers \ {b} : /\ requests'[d] = requests[d] /\ toBrowser'[d] = toBrowser[d]
                               /\ nextRequest'[d] = nextRequest[d]
  /\ \A d \in Browsers : Of(d)' = Of(d) /\ Coming(d)' = Coming(d)
  /\ UNCHANGED <<process, epoch, pending, app, navigating>>

\* ... as its code says.
LEMMA QuerySent ==
  ASSUME TypeOK, NEW b \in Browsers, NEW f \in Frames, NEW persistent \in Persistence,
         CefQuery(b, f, persistent)
  PROVE  \E c \in Nat, r \in Nat, n \in Nat : Sent(b, f, persistent, c, r, n)
<1> DEFINE c == ContextId(b, f)
           r == nextRequest[b] + 1
           m == [type |-> "query", ctx |-> c, req |-> r, persistent |-> persistent]
<1>1. c \in Nat BY DEF TypeOK, CefQuery, UseContext, ContextId
<1>2. r \in Nat /\ r \in 1..MaxRequests /\ persistent \in BOOLEAN
  BY Bounds, ConstantsAssumption DEF TypeOK, CefQuery
<1>3. m \in QueryMsg \cup CancelMsg /\ m.type = "query" BY <1>1, <1>2 DEF QueryMsg
<1>4. /\ toBrowser' = [toBrowser EXCEPT ![b] = Append(@, m)]
      /\ nextRequest' = [nextRequest EXCEPT ![b] = r]
      /\ requests' = [requests EXCEPT ![b] = @ \cup {[ctx |-> c, req |-> r, persistent |-> persistent]}]
      /\ UNCHANGED <<process, epoch, pending, app, navigating, renderTasks, toRenderer>>
      /\ process[b] = "up"
  BY DEF CefQuery, UseContext, browserVars
<1> HIDE DEF m, c, r
<1>5. PICK n \in Nat :
        /\ DOMAIN toBrowser'[b] = DOMAIN toBrowser[b] \cup {n}
        /\ \A k \in DOMAIN toBrowser[b] :
             k \in Nat /\ k < n /\ toBrowser'[b][k] = toBrowser[b][k]
        /\ toBrowser'[b][n] = m
        /\ \A d \in Browsers \ {b} : toBrowser'[d] = toBrowser[d]
  BY <1>3, <1>4, WriteMessage
<1>6. n \notin DOMAIN toBrowser[b] BY <1>5
<1>7. Asked(b)' = Asked(b) \cup {n} BY <1>3, <1>5 DEF Asked
<1>8. \A d \in Browsers : Of(d)' = Of(d) /\ Coming(d)' = Coming(d) BY <1>4 DEF Of, Coming
<1>9. /\ requests'[b] = requests[b] \cup {[ctx |-> c, req |-> r, persistent |-> persistent]}
      /\ \A d \in Browsers \ {b} : requests'[d] = requests[d] /\ nextRequest'[d] = nextRequest[d]
  BY <1>4 DEF TypeOK
<1> QED BY <1>1, <1>2, <1>4, <1>5, <1>6, <1>7, <1>8, <1>9 DEF m, c, r, Sent

\* A query that is sent has an id of its own.
LEMMA QueryPlaces ==
  ASSUME TypeOK, OnePerId, OnePlace, NEW b \in Browsers, NEW f \in Frames,
         NEW persistent \in Persistence, CefQuery(b, f, persistent)
  PROVE  OnePerId' /\ OnePlace'
<1>0. PICK c \in Nat, r \in Nat, n \in Nat : Sent(b, f, persistent, c, r, n) BY QuerySent
<1>1. /\ r = nextRequest[b] + 1 /\ r \in 1..MaxRequests
      /\ process[b] = "up" /\ nextRequest' = [nextRequest EXCEPT ![b] = r]
      /\ requests'[b] = requests[b] \cup {[ctx |-> c, req |-> r, persistent |-> persistent]}
      /\ \A k \in DOMAIN toBrowser[b] : toBrowser'[b][k] = toBrowser[b][k]
      /\ toBrowser'[b][n] = [type |-> "query", ctx |-> c, req |-> r, persistent |-> persistent]
      /\ Asked(b)' = Asked(b) \cup {n}
      /\ \A d \in Browsers \ {b} : /\ requests'[d] = requests[d] /\ toBrowser'[d] = toBrowser[d]
                                   /\ nextRequest'[d] = nextRequest[d]
      /\ \A d \in Browsers : Of(d)' = Of(d) /\ Coming(d)' = Coming(d)
      /\ UNCHANGED <<process, epoch, pending>>
  BY <1>0 DEF Sent, Asked
<1> DEFINE i == [ctx |-> c, req |-> r, persistent |-> persistent]
<1>2. i.req = r /\ nextRequest'[b] = r /\ nextRequest[b] \in Nat BY <1>1, Bounds DEF TypeOK
<1>3. \A d \in Browsers \ {b} : Asked(d)' = Asked(d) BY <1>1 DEF Asked
<1>4. /\ \A k \in Asked(b) : toBrowser'[b][k] = toBrowser[b][k]
      /\ AsRequest(toBrowser'[b][n]) = i /\ toBrowser'[b][n].req = r
  BY <1>1 DEF Asked, AsRequest
<1>5. \A d \in Browsers :
        Known(d)' = requests'[d] \cup {AsRequest(toBrowser'[d][k]) : k \in Asked(d)'}
                      \cup {AsRequest(q) : q \in Of(d)'}
  BY DEF Known, AsRequest
<1> HIDE DEF i
<1>6. \A d \in Browsers \ {b} : Known(d)' = Known(d) BY <1>1, <1>3, <1>5 DEF Known
<1>7. Known(b)' \subseteq Known(b) \cup {i}
  <2>1. \A k \in Asked(b)' : AsRequest(toBrowser'[b][k]) \in Known(b) \cup {i}
    BY <1>1, <1>4, KnownParts
  <2>2. \A q \in Of(b)' : AsRequest(q) \in Known(b) BY <1>1, KnownParts
  <2>3. requests'[b] \subseteq Known(b) \cup {i} BY <1>1, KnownParts DEF i
  <2> QED BY <1>5, <2>1, <2>2, <2>3
<1>8. /\ \A x \in Known(b) : x.req \in 1..MaxRequests /\ x.req < r
      /\ \A t \in Coming(b) : t.req \in 1..MaxRequests /\ t.req < r
  BY <1>1, <1>2, Bounds DEF OnePerId
<1>9. OnePerId'
  <2>1. /\ \A x, y \in Known(b)' : x.req = y.req => x = y
        /\ \A x \in Known(b)', t \in Coming(b)' : x.req = t.req => x.ctx = t.ctx
    <3>1. /\ \A x, y \in Known(b) : x.req = y.req => x = y
          /\ \A x \in Known(b), t \in Coming(b) : x.req = t.req => x.ctx = t.ctx
      BY DEF OnePerId
    <3> QED BY <1>1, <1>2, <1>7, <1>8, <3>1, Bounds
  <2>2. /\ \A x \in Known(b)' : x.req \in 1..MaxRequests /\ x.req <= nextRequest'[b]
        /\ \A t \in Coming(b)' : t.req \in 1..MaxRequests /\ t.req <= nextRequest'[b]
    BY <1>1, <1>2, <1>7, <1>8, Bounds
  <2>3. \A d \in Browsers \ {b} :
          /\ \A x, y \in Known(d)' : x.req = y.req => x = y
          /\ \A x \in Known(d)', t \in Coming(d)' : x.req = t.req => x.ctx = t.ctx
          /\ \A x \in Known(d)' : x.req \in 1..MaxRequests
          /\ \A t \in Coming(d)' : t.req \in 1..MaxRequests
          /\ process'[d] = "up" => /\ \A x \in Known(d)' : x.req <= nextRequest'[d]
                                   /\ \A t \in Coming(d)' : t.req <= nextRequest'[d]
    BY <1>1, <1>6 DEF OnePerId
  <2> QED BY <2>1, <2>2, <2>3 DEF OnePerId
<1>10. OnePlace'
  <2>1. /\ \A k \in Asked(b) : toBrowser[b][k].req < r /\ toBrowser[b][k].req \in Nat
        /\ \A q \in Of(b) : q.req < r /\ q.req \in Nat
        /\ \A t \in Coming(b) : t.req < r /\ t.req \in Nat
    BY <1>8, Bounds, KnownParts
  <2>2. /\ \A j, k \in Asked(b) : j # k => toBrowser[b][j].req # toBrowser[b][k].req
        /\ \A k \in Asked(b), q \in Of(b) : toBrowser[b][k].req # q.req
        /\ \A k \in Asked(b), t \in Coming(b) : toBrowser[b][k].req # t.req
        /\ \A p, q \in Of(b) : p # q => p.req # q.req
        /\ \A q \in Of(b), t \in Coming(b) : q.req = t.req => t.ok /\ q.persistent
    BY DEF OnePlace
  <2>3. /\ \A j, k \in Asked(b)' : j # k => toBrowser'[b][j].req # toBrowser'[b][k].req
        /\ \A k \in Asked(b)', q \in Of(b)' : toBrowser'[b][k].req # q.req
        /\ \A k \in Asked(b)', t \in Coming(b)' : toBrowser'[b][k].req # t.req
        /\ \A p, q \in Of(b)' : p # q => p.req # q.req
        /\ \A q \in Of(b)', t \in Coming(b)' : q.req = t.req => t.ok /\ q.persistent
    BY <1>1, <1>4, <2>1, <2>2
  <2>4. \A d \in Browsers \ {b} :
          /\ \A j, k \in Asked(d)' : j # k => toBrowser'[d][j].req # toBrowser'[d][k].req
          /\ \A k \in Asked(d)', q \in Of(d)' : toBrowser'[d][k].req # q.req
          /\ \A k \in Asked(d)', t \in Coming(d)' : toBrowser'[d][k].req # t.req
          /\ \A p, q \in Of(d)' : p # q => p.req # q.req
          /\ \A q \in Of(d)', t \in Coming(d)' : q.req = t.req => t.ok /\ q.persistent
    BY <1>1, <1>3 DEF OnePlace
  <2> QED BY <2>3, <2>4 DEF OnePlace
<1> QED BY <1>9, <1>10

\* Every step leaves the dead nothing.
LEMMA NextDead ==
  ASSUME TypeOK, PendingFinite, NothingFromTheDead, [Next]_vars
  PROVE  NothingFromTheDead'
<1> USE DEF rendererVars, browserVars
<1>0. ASSUME \A b \in Browsers : process'[b] = process[b] /\ toBrowser'[b] = toBrowser[b]
                                 /\ requests'[b] \subseteq requests[b]
      PROVE  NothingFromTheDead'
  BY <1>0 DEF NothingFromTheDead
<1>1. ASSUME NEW b \in Browsers, process' = process,
             \/ process[b] = "up"
             \/ process[b] \in {"up", "crashed"} /\ requests' = requests,
             \A c \in Browsers \ {b} : /\ requests'[c] = requests[c] /\ toBrowser'[c] = toBrowser[c]
      PROVE  NothingFromTheDead'
  BY <1>1 DEF NothingFromTheDead
<1>2. ASSUME NEW b \in Browsers, ResetRenderer(b),
             \A c \in Browsers \ {b} : process'[c] = process[c] /\ toBrowser'[c] = toBrowser[c],
             process'[b] = "crashed" \/ toBrowser'[b] = <<>>
      PROVE  NothingFromTheDead'
  BY <1>2, ResetTakes DEF NothingFromTheDead
<1>3. CASE UNCHANGED vars BY <1>0, <1>3 DEF vars
<1>4. CASE Internal BY <1>0, <1>4 DEF Internal, Renderers
<1>5. CASE \E S \in SUBSET pending, s \in Ends : Ended(S, s) BY <1>0, <1>5 DEF Ended, Renderers
<1>6. CASE \E q \in pending : Streamed(q) BY <1>0, <1>6 DEF Streamed, Renderers
<1>7. ASSUME NEW b \in Browsers, NEW type, Receive(b, type), UNCHANGED <<process, requests>>
      PROVE  NothingFromTheDead'
  BY <1>1, <1>7, AskedRead DEF Receive
<1>8. CASE \E b \in Browsers, h \in Handlers : Accepted(b, h)
  BY <1>7, <1>8 DEF Accepted, Renderers
<1>9. ASSUME NEW b \in Browsers, Refused(b) \/ CancelReceived(b) PROVE NothingFromTheDead'
  BY <1>7, <1>9 DEF Refused, CancelReceived, Renderers
<1>10. ASSUME NEW b \in Browsers, OnBeforeBrowse(b) PROVE NothingFromTheDead'
  BY <1>0, <1>10 DEF OnBeforeBrowse
<1>11. ASSUME NEW b \in Browsers, OnBeforeClose(b) \/ Crash(b) PROVE NothingFromTheDead'
  BY <1>2, <1>11 DEF OnBeforeClose, Crash, TypeOK
<1>12. ASSUME NEW b \in Browsers, OnRenderProcessTerminated(b) \/ Relaunch(b)
       PROVE  NothingFromTheDead'
  BY <1>12 DEF OnRenderProcessTerminated, Relaunch, NothingFromTheDead, TypeOK
<1>13. ASSUME NEW b \in Browsers, ExecuteCallback(b) PROVE NothingFromTheDead'
  BY <1>0, <1>13 DEF ExecuteCallback, TypeOK
<1>14. ASSUME NEW b \in Browsers, NEW f \in Frames, OnContextCreated(b, f)
       PROVE  NothingFromTheDead'
  BY <1>0, <1>14 DEF OnContextCreated
<1>15. ASSUME NEW b \in Browsers, NEW f \in Frames,
              \/ OnContextReleased(b, f) \/ \E r \in 1..MaxRequests : CefQueryCancel(b, f, r)
              \/ \E persistent \in Persistence : CefQuery(b, f, persistent)
       PROVE  NothingFromTheDead'
  <2>1. process[b] = "up" /\ process' = process
    BY <1>15 DEF OnContextReleased, CefQueryCancel, CefQuery, UseContext
  <2>2. \A c \in Browsers \ {b} : requests'[c] = requests[c] /\ toBrowser'[c] = toBrowser[c]
    <3>1. ASSUME NEW c, NEW r, SendCancel(b, c, r)
          PROVE  \A d \in Browsers \ {b} : requests'[d] = requests[d] /\ toBrowser'[d] = toBrowser[d]
      BY <3>1 DEF SendCancel, TypeOK
    <3>2. CASE OnContextReleased(b, f) BY <3>1, <3>2 DEF OnContextReleased
    <3>3. CASE \E r \in 1..MaxRequests : CefQueryCancel(b, f, r) BY <3>1, <3>3 DEF CefQueryCancel
    <3>4. CASE \E persistent \in Persistence : CefQuery(b, f, persistent)
      BY <3>4 DEF CefQuery, TypeOK
    <3> QED BY <1>15, <3>2, <3>3, <3>4
  <2> QED BY <1>1, <2>1, <2>2
<1> QED BY <1>3, <1>4, <1>5, <1>6, <1>8, <1>9, <1>10, <1>11, <1>12, <1>13, <1>14, <1>15, StepEffects

\* Initially nothing was asked.
LEMMA InitPlaces == Init => PlacesInv
<1> SUFFICES ASSUME Init PROVE PlacesInv OBVIOUS
<1>1. EpochInv /\ ContextsNumbered BY InitEpoch, InitContexts
<1>2. \A b \in Browsers : /\ toBrowser[b] = <<>> /\ toRenderer[b] = <<>> /\ renderTasks[b] = <<>>
                          /\ requests[b] = {} /\ process[b] = "up" /\ pending = {}
  BY DEF Init
<1>3. \A b \in Browsers : Asked(b) = {} /\ Of(b) = {} /\ Coming(b) = {} /\ Known(b) = {}
  BY <1>2 DEF Asked, Of, Coming, Elements, Known
<1>4. NothingFromTheDead BY <1>2 DEF NothingFromTheDead
<1>5. OnePerId /\ OnePlace BY <1>3 DEF OnePerId, OnePlace
<1> QED BY <1>1, <1>4, <1>5 DEF PlacesInv

\* Every step keeps one query to an id and one place to a query.
LEMMA NextPlaces == PlacesInv /\ [Next]_vars => PlacesInv'
<1> SUFFICES ASSUME PlacesInv, [Next]_vars PROVE PlacesInv' OBVIOUS
<1>1. EpochInv /\ ContextsNumbered /\ NothingFromTheDead /\ OnePerId /\ OnePlace BY DEF PlacesInv
<1>2. TypeOK /\ PendingFinite /\ EpochInv' BY <1>1, NextEpoch DEF EpochInv
<1>3. TypeOK' BY <1>2 DEF EpochInv
<1>4. ContextsNumbered' BY <1>1, <1>2, NextContexts
<1>5. NothingFromTheDead' BY <1>1, <1>2, NextDead
<1>6. OnePerId' /\ OnePlace'
  <2>1. CASE UNCHANGED vars
    BY <1>1, <2>1
       DEF OnePerId, OnePlace, Known, AsRequest, Asked, Of, Coming, Elements, vars, rendererVars,
           browserVars
  <2>2. CASE \A b \in Browsers : Fewer(b) BY <1>1, <1>3, <2>2, FewerPlaces
  <2>3. CASE \E b \in Browsers, h \in Handlers : Accepted(b, h)
    BY <1>1, <1>2, <1>3, <2>3, AcceptPlaces
  <2>4. CASE \E b \in Browsers, f \in Frames, persistent \in Persistence : CefQuery(b, f, persistent)
    BY <1>1, <1>2, <2>4, QueryPlaces
  <2> QED BY <1>1, <2>1, <2>2, <2>3, <2>4, StepFewer
<1> QED BY <1>2, <1>4, <1>5, <1>6 DEF PlacesInv

-----------------------------------------------------------------------------
(***************************************************************************)
(* A query the page gave up is canceled at the browser.                    *)
(***************************************************************************)
\* The query or message x still has its request, or the message that cancels it comes after
\* position k of the pipe.
Backed(b, x, k) ==
  \/ AsRequest(x) \in requests[b]
  \/ \E j \in DOMAIN toBrowser[b] : j > k /\ For(toBrowser[b][j], x)
BackedAt(b) ==
  process[b] = "up" => /\ \A k \in Asked(b) : \A x \in {toBrowser[b][k]} : Backed(b, x, k)
                       /\ \A q \in Of(b) : Backed(b, q, 0)

\* A step that leaves b's requests and messages, and adds nothing to what is pending.
LEMMA BackedSame ==
  ASSUME NEW b \in Browsers, BackedAt(b), toBrowser'[b] = toBrowser[b], requests'[b] = requests[b],
         Of(b)' \subseteq Of(b), process'[b] = "up" => process[b] = "up"
  PROVE  BackedAt(b)'
<1>1. Asked(b)' = Asked(b) BY DEF Asked
<1>2. \A x, k : Backed(b, x, k)' <=> Backed(b, x, k) BY DEF Backed, AsRequest, For
<1> QED BY <1>1, <1>2 DEF BackedAt

\* A message of b's is read: what follows it moves up, and what it cancels leaves the map.
LEMMA BackedRead ==
  ASSUME TypeOK, NEW b \in Browsers, BackedAt(b), NEW type, Receive(b, type), requests' = requests,
         process' = process,
         \A q \in Of(b)' : \/ q \in Of(b) /\ ~For(toBrowser[b][1], q)
                           \/ type = "query" /\ AsRequest(q) = AsRequest(toBrowser[b][1])
  PROVE  BackedAt(b)'
<1> SUFFICES ASSUME process'[b] = "up"
             PROVE  /\ \A k \in Asked(b)' : \A x \in {toBrowser'[b][k]} : Backed(b, x, k)'
                    /\ \A q \in Of(b)' : Backed(b, q, 0)'
  BY DEF BackedAt
<1>1. /\ \A k \in Asked(b) : \A x \in {toBrowser[b][k]} : Backed(b, x, k)
      /\ \A q \in Of(b) : Backed(b, q, 0)
  BY DEF BackedAt
<1>2. /\ \A k \in Asked(b)' : k + 1 \in Asked(b) /\ toBrowser'[b][k] = toBrowser[b][k + 1]
      /\ type = "query" => 1 \in Asked(b)
  BY AskedRead
<1>3. /\ \A k \in DOMAIN toBrowser'[b] : k \in Nat
      /\ \A k \in DOMAIN toBrowser[b] :
           /\ k \in Nat
           /\ k # 1 => k - 1 \in DOMAIN toBrowser'[b] /\ toBrowser'[b][k - 1] = toBrowser[b][k]
  BY ReadMessage
<1>4. ASSUME NEW x, NEW k \in Nat, Backed(b, x, k + 1) PROVE Backed(b, x, k)'
  <2>1. CASE AsRequest(x) \in requests[b] BY <2>1 DEF Backed, AsRequest
  <2>2. ASSUME NEW j \in DOMAIN toBrowser[b], j > k + 1, For(toBrowser[b][j], x)
        PROVE  Backed(b, x, k)'
    <3>1. j - 1 \in DOMAIN toBrowser'[b] /\ toBrowser'[b][j - 1] = toBrowser[b][j] /\ j - 1 > k
      BY <1>3, <2>2
    <3>2. For(toBrowser'[b][j - 1], x) BY <2>2, <3>1
    <3> QED BY <3>1, <3>2 DEF Backed, For
  <2> QED BY <1>4, <2>1, <2>2 DEF Backed
<1>5. ASSUME NEW k \in Asked(b)', NEW x \in {toBrowser'[b][k]} PROVE Backed(b, x, k)'
  <2>1. k \in Nat BY <1>3 DEF Asked
  <2>2. Backed(b, x, k + 1) BY <1>1, <1>2
  <2> QED BY <1>4, <2>1, <2>2
<1>6. ASSUME NEW q \in Of(b)' PROVE Backed(b, q, 0)'
  <2>1. CASE q \in Of(b) /\ ~For(toBrowser[b][1], q)
    <3>1. Backed(b, q, 0) BY <1>1, <2>1
    <3>2. Backed(b, q, 0 + 1) BY <1>3, <2>1, <3>1 DEF Backed
    <3> QED BY <1>4, <3>2
  <2>2. CASE type = "query" /\ AsRequest(q) = AsRequest(toBrowser[b][1])
    <3>1. \A x \in {toBrowser[b][1]} : Backed(b, x, 0 + 1) BY <1>1, <1>2, <2>2
    <3>2. q.ctx = toBrowser[b][1].ctx /\ q.req = toBrowser[b][1].req BY <2>2, KnownParts
    <3>3. Backed(b, q, 0 + 1) BY <2>2, <3>1, <3>2 DEF Backed, For
    <3> QED BY <1>4, <3>3
  <2> QED BY <2>1, <2>2
<1> QED BY <1>5, <1>6

\* The page gives requests up: the message that says so comes after every message of b's.
LEMMA BackedCancel ==
  ASSUME TypeOK, NEW b \in Browsers, BackedAt(b), NEW c \in Nat, NEW r \in Nat, SendCancel(b, c, r),
         UNCHANGED <<process, pending>>
  PROVE  BackedAt(b)'
<1> DEFINE found == Abandoned(b, c, r)
           m == [type |-> "cancel", ctx |-> c, req |-> r]
<1>1. requests'[b] = requests[b] \ found BY DEF SendCancel, TypeOK
<1>2. Of(b)' = Of(b) BY DEF Of
<1>3. CASE found = {}
  <2>1. toBrowser' = toBrowser BY <1>3 DEF SendCancel
  <2> QED BY <1>1, <1>2, <1>3, <2>1, BackedSame
<1>4. CASE found # {}
  <2>1. m \in QueryMsg \cup CancelMsg BY DEF CancelMsg
  <2>2. toBrowser' = [toBrowser EXCEPT ![b] = Append(@, m)] BY <1>4 DEF SendCancel
  <2>3. \A x : AsRequest(x) \in found => For(m, x) BY KnownParts DEF Abandoned, For
  <2> HIDE DEF m, found
  <2>4. PICK n \in Nat :
          /\ DOMAIN toBrowser'[b] = DOMAIN toBrowser[b] \cup {n}
          /\ \A k \in DOMAIN toBrowser[b] :
               k \in Nat /\ k < n /\ toBrowser'[b][k] = toBrowser[b][k]
          /\ toBrowser'[b][n] = m
          /\ \A d \in Browsers \ {b} : toBrowser'[d] = toBrowser[d]
    BY <2>1, <2>2, WriteMessage
  <2>5. /\ \A k \in Asked(b)' : k + 0 = k /\ k + 0 \in Asked(b) /\ toBrowser'[b][k] = toBrowser[b][k + 0]
    BY AskedCancel
  <2>6. ASSUME NEW x, NEW k \in Nat, k < n, Backed(b, x, k) PROVE Backed(b, x, k)'
    <3>1. CASE AsRequest(x) \in found
      <4>1. For(toBrowser'[b][n], x) /\ n \in DOMAIN toBrowser'[b] BY <2>3, <2>4, <3>1
      <4> QED BY <2>6, <4>1 DEF Backed, For
    <3>2. CASE AsRequest(x) \in requests[b] \ found BY <1>1, <3>2 DEF Backed, AsRequest
    <3>3. ASSUME NEW j \in DOMAIN toBrowser[b], j > k, For(toBrowser[b][j], x)
          PROVE  Backed(b, x, k)'
      <4>1. j \in DOMAIN toBrowser'[b] /\ For(toBrowser'[b][j], x) BY <2>4, <3>3
      <4> QED BY <3>3, <4>1 DEF Backed, For
    <3> QED BY <2>6, <3>1, <3>2, <3>3 DEF Backed
  <2>7. process[b] = "up" => /\ \A k \in Asked(b) : \A x \in {toBrowser[b][k]} : Backed(b, x, k)
                             /\ \A q \in Of(b) : Backed(b, q, 0)
    BY DEF BackedAt
  <2>8. \A k \in Asked(b) : k \in Nat /\ k < n BY <2>4 DEF Asked
  <2>9. DOMAIN toBrowser[b] # {} => 0 < n BY <2>4
  <2>10. ASSUME process[b] = "up", NEW q \in Of(b) PROVE Backed(b, q, 0)'
    <3>1. 0 < n
      <4>1. toBrowser'[b] \in Seq(QueryMsg \cup CancelMsg)
        BY <2>1, <2>2 DEF TypeOK
      <4>2. n \in DOMAIN toBrowser'[b] BY <2>4
      <4> QED BY <4>1, <4>2
    <3> QED BY <2>6, <2>7, <2>10, <3>1
  <2>11. ASSUME process[b] = "up", NEW k \in Asked(b)', NEW x \in {toBrowser'[b][k]} PROVE Backed(b, x, k)'
    BY <2>5, <2>6, <2>7, <2>8, <2>11
  <2> QED BY <1>2, <2>10, <2>11 DEF BackedAt
<1> QED BY <1>3, <1>4

\* Every step keeps the requests of what is asked and pending, or the messages that cancel it.
LEMMA NextBacked ==
  ASSUME PlacesInv, \A b \in Browsers : BackedAt(b), [Next]_vars
  PROVE  \A b \in Browsers : BackedAt(b)'
<1> USE DEF rendererVars, browserVars
<1>1. /\ TypeOK /\ PendingFinite /\ NothingForTheDead /\ PendingCurrent
      /\ NothingFromTheDead /\ OnePlace
  BY DEF PlacesInv, EpochInv
<1>2. CASE UNCHANGED vars BY <1>2, BackedSame DEF vars, Of
<1>3. CASE Internal BY <1>3, BackedSame DEF Internal, Renderers, Of
<1>4. CASE \E S \in SUBSET pending, s \in Ends : Ended(S, s)
  BY <1>4, BackedSame DEF Ended, Renderers, Of
<1>5. CASE \E q \in pending : Streamed(q) BY <1>5, BackedSame DEF Streamed, Renderers, Of
<1>6. ASSUME NEW b \in Browsers, NEW type \in {"query", "cancel"}, Receive(b, type),
             UNCHANGED <<process, requests>>,
             BackedAt(b)', \A c \in Browsers \ {b} : Of(c)' \subseteq Of(c)
      PROVE  \A c \in Browsers : BackedAt(c)'
  <2>1. \A c \in Browsers \ {b} : toBrowser'[c] = toBrowser[c] BY <1>1, <1>6, AskedRead
  <2> QED BY <1>6, <2>1, BackedSame
<1>7. ASSUME NEW b \in Browsers, NEW h \in Handlers, Accepted(b, h)
      PROVE  \A c \in Browsers : BackedAt(c)'
  <2> DEFINE n == NewQuery(b, h)
  <2>1. Receive(b, "query") /\ UNCHANGED <<process, requests>> BY <1>7 DEF Accepted, Renderers
  <2>2. Head(toBrowser[b]) = toBrowser[b][1] /\ toBrowser[b][1].type = "query"
    BY <1>1, <2>1, ReadMessage
  <2>3. n.browser = b /\ AsRequest(n) = AsRequest(toBrowser[b][1]) BY <2>2 DEF NewQuery, AsRequest
  <2>4. pending' = pending \cup {n} BY <1>7 DEF Accepted
  <2> HIDE DEF n
  <2>5. Of(b)' = Of(b) \cup {n} /\ \A c \in Browsers \ {b} : Of(c)' = Of(c) BY <2>3, <2>4 DEF Of
  <2>6. \A q : ~For(toBrowser[b][1], q) BY <2>2 DEF For
  <2>7. BackedAt(b)'
    <3>1. \A q \in Of(b)' : \/ q \in Of(b) /\ ~For(toBrowser[b][1], q)
                            \/ AsRequest(q) = AsRequest(toBrowser[b][1])
      BY <2>3, <2>5, <2>6
    <3> QED BY <1>1, <2>1, <3>1, BackedRead
  <2> QED BY <1>6, <2>1, <2>5, <2>7
<1>8. ASSUME NEW b \in Browsers, Refused(b) PROVE \A c \in Browsers : BackedAt(c)'
  <2>1. Receive(b, "query") /\ UNCHANGED <<process, requests, pending>>
    BY <1>8 DEF Refused, Renderers
  <2>2. toBrowser[b][1].type = "query" BY <1>1, <2>1, ReadMessage
  <2>3. \A q : ~For(toBrowser[b][1], q) BY <2>2 DEF For
  <2>4. \A c \in Browsers : Of(c)' = Of(c) BY <2>1 DEF Of
  <2>5. BackedAt(b)' BY <1>1, <2>1, <2>3, <2>4, BackedRead
  <2> QED BY <1>6, <2>1, <2>4, <2>5
<1>9. ASSUME NEW b \in Browsers, CancelReceived(b) PROVE \A c \in Browsers : BackedAt(c)'
  <2>1. /\ Receive(b, "cancel") /\ UNCHANGED <<process, requests>>
        /\ CancelQueries(CanceledBy(b, Head(toBrowser[b])))
    BY <1>9 DEF CancelReceived
  <2>2. Head(toBrowser[b]) = toBrowser[b][1] /\ toBrowser[b][1].type = "cancel"
    BY <1>1, <2>1, ReadMessage
  <2>3. \A c \in Browsers : Of(c)' = Of(c) \ CanceledBy(b, toBrowser[b][1])
    BY <2>1, <2>2, CanceledOf
  <2>4. \A q \in Of(b)' : q \in Of(b) /\ ~For(toBrowser[b][1], q)
    BY <2>2, <2>3 DEF CanceledBy, For, Of
  <2>5. BackedAt(b)' BY <1>1, <2>1, <2>4, BackedRead
  <2> QED BY <1>6, <2>1, <2>3, <2>5
<1>10. ASSUME NEW b \in Browsers, OnBeforeBrowse(b) \/ OnRenderProcessTerminated(b)
       PROVE  \A c \in Browsers : BackedAt(c)'
  <2>1. /\ UNCHANGED <<requests, toBrowser>> /\ CancelQueries(Matching({b}, Handlers))
        /\ \A c \in Browsers : process'[c] = "up" => process[c] = "up"
    BY <1>1, <1>10 DEF OnBeforeBrowse, OnRenderProcessTerminated, CancelSilently, TypeOK
  <2>2. \A c \in Browsers : Of(c)' \subseteq Of(c) BY <2>1, CanceledOf
  <2> QED BY <2>1, <2>2, BackedSame
<1>11. ASSUME NEW b \in Browsers, OnBeforeClose(b) \/ Crash(b)
       PROVE  \A c \in Browsers : BackedAt(c)'
  <2>1. /\ ResetRenderer(b) /\ process'[b] # "up"
        /\ \A c \in Browsers \ {b} : process'[c] = process[c] /\ toBrowser'[c] = toBrowser[c]
    BY <1>1, <1>11 DEF OnBeforeClose, Crash, TypeOK
  <2>2. \A c \in Browsers : Of(c)' \subseteq Of(c)
    BY <1>11, CanceledOf DEF OnBeforeClose, Crash, CloseInRouter, CloseInCefClient, Of
  <2>3. \A c \in Browsers \ {b} : requests'[c] = requests[c] BY <1>1, <2>1, ResetTakes
  <2>4. \A c \in Browsers \ {b} : BackedAt(c)' BY <2>1, <2>2, <2>3, BackedSame
  <2>5. BackedAt(b)' BY <2>1 DEF BackedAt
  <2> QED BY <2>4, <2>5
<1>12. ASSUME NEW b \in Browsers, Relaunch(b) PROVE \A c \in Browsers : BackedAt(c)'
  <2>1. /\ process[b] = "terminated" /\ UNCHANGED <<requests, toBrowser, pending>>
        /\ \A c \in Browsers \ {b} : process'[c] = process[c]
    BY <1>1, <1>12 DEF Relaunch, TypeOK
  <2>2. \A c \in Browsers \ {b} : BackedAt(c)' BY <2>1, BackedSame DEF Of
  <2>3. toBrowser'[b] = <<>> /\ Of(b)' = {}
    BY <1>1, <2>1 DEF NothingFromTheDead, PendingCurrent, Of
  <2>4. Asked(b)' = {} BY <2>3 DEF Asked
  <2>5. BackedAt(b)' BY <2>3, <2>4 DEF BackedAt
  <2> QED BY <2>2, <2>5
<1>13. ASSUME NEW b \in Browsers, ExecuteCallback(b) PROVE \A c \in Browsers : BackedAt(c)'
  <2> DEFINE t == Head(renderTasks[b])
  <2>1. /\ UNCHANGED <<process, pending, toBrowser>> /\ t \in Coming(b)
        /\ requests'[b] = requests[b] \ Answered(b, t)
        /\ \A c \in Browsers \ {b} : requests'[c] = requests[c]
    <3>1. t \in Coming(b) BY <1>1, <1>13, ComingTaken
    <3> QED BY <1>1, <1>13, <3>1 DEF ExecuteCallback, TypeOK
  <2> HIDE DEF t
  <2>2. \A c \in Browsers \ {b} : BackedAt(c)' BY <2>1, BackedSame DEF Of
  <2>3. \A i \in Answered(b, t) : i.req = t.req /\ ~(t.ok /\ i.persistent) BY DEF Answered
  <2>4. \A k \in Asked(b) : AsRequest(toBrowser[b][k]) \notin Answered(b, t)
    BY <1>1, <2>1, <2>3, KnownParts DEF OnePlace
  <2>5. \A q \in Of(b) : AsRequest(q) \notin Answered(b, t)
    BY <1>1, <2>1, <2>3, KnownParts DEF OnePlace
  <2>6. Asked(b)' = Asked(b) /\ Of(b)' = Of(b) BY <2>1 DEF Asked, Of
  <2>7. ASSUME NEW x, NEW k, Backed(b, x, k), AsRequest(x) \notin Answered(b, t)
        PROVE  Backed(b, x, k)'
    BY <2>1, <2>7 DEF Backed, AsRequest, For
  <2>8. BackedAt(b)'
    <3> SUFFICES ASSUME process[b] = "up"
                 PROVE  /\ \A k \in Asked(b) : \A x \in {toBrowser[b][k]} : Backed(b, x, k)'
                        /\ \A q \in Of(b) : Backed(b, q, 0)'
      BY <2>1, <2>6 DEF BackedAt
    <3>1. /\ \A k \in Asked(b) : \A x \in {toBrowser[b][k]} : Backed(b, x, k)
          /\ \A q \in Of(b) : Backed(b, q, 0)
      BY DEF BackedAt
    <3> QED BY <2>4, <2>5, <2>7, <3>1
  <2> QED BY <2>2, <2>8
<1>14. ASSUME NEW b \in Browsers, NEW f \in Frames, OnContextCreated(b, f)
       PROVE  \A c \in Browsers : BackedAt(c)'
  BY <1>14, BackedSame DEF OnContextCreated, Of
<1>15. ASSUME NEW b \in Browsers, NEW c \in Nat, NEW r \in Nat, SendCancel(b, c, r),
              UNCHANGED <<pending, process>>
       PROVE  \A d \in Browsers : BackedAt(d)'
  <2>1. \A d \in Browsers \ {b} : requests'[d] = requests[d] BY <1>1, <1>15 DEF SendCancel, TypeOK
  <2>2. \A d \in Browsers \ {b} : toBrowser'[d] = toBrowser[d] BY <1>1, <1>15, AskedCancel
  <2>3. \A d \in Browsers \ {b} : BackedAt(d)' BY <1>15, <2>1, <2>2, BackedSame DEF Of
  <2>4. BackedAt(b)' BY <1>1, <1>15, BackedCancel
  <2> QED BY <2>3, <2>4
<1>16. ASSUME NEW b \in Browsers, NEW f \in Frames, OnContextReleased(b, f)
       PROVE  \A c \in Browsers : BackedAt(c)'
  <2>1. CASE context[b][f] = kReservedId
    BY <1>16, <2>1, BackedSame DEF OnContextReleased, Of
  <2>2. CASE context[b][f] # kReservedId
    <3>1. context[b][f] \in Nat /\ kReservedId \in Nat
      BY <1>1, <1>16 DEF TypeOK, OnContextReleased, kReservedId
    <3> QED BY <1>15, <1>16, <2>2, <3>1 DEF OnContextReleased
  <2> QED BY <2>1, <2>2
<1>17. ASSUME NEW b \in Browsers, NEW f \in Frames, NEW r \in 1..MaxRequests, CefQueryCancel(b, f, r)
       PROVE  \A c \in Browsers : BackedAt(c)'
  <2>1. ContextId(b, f) \in Nat
    BY <1>1, <1>17 DEF TypeOK, CefQueryCancel, UseContext, ContextId
  <2> QED BY <1>15, <1>17, <2>1 DEF CefQueryCancel
<1>18. ASSUME NEW b \in Browsers, NEW f \in Frames, NEW persistent \in Persistence,
              CefQuery(b, f, persistent)
       PROVE  \A d \in Browsers : BackedAt(d)'
  <2>1. PICK c \in Nat, r \in Nat, n \in Nat : Sent(b, f, persistent, c, r, n)
    BY <1>1, <1>18, QuerySent
  <2>2. \A d \in Browsers \ {b} : BackedAt(d)' BY <2>1, BackedSame DEF Sent
  <2>3. ASSUME NEW x, NEW k, Backed(b, x, k) PROVE Backed(b, x, k)'
    BY <2>1, <2>3 DEF Backed, AsRequest, For, Sent
  <2>4. ASSUME process[b] = "up", NEW k \in Asked(b)', NEW x \in {toBrowser'[b][k]} PROVE Backed(b, x, k)'
    <3>1. CASE k \in Asked(b)
      <4>1. x = toBrowser[b][k] BY <2>1, <2>4, <3>1 DEF Sent, Asked
      <4>2. Backed(b, x, k) BY <2>4, <3>1, <4>1 DEF BackedAt
      <4> QED BY <2>3, <4>2
    <3>2. CASE k = n
      <4>1. AsRequest(x) \in requests'[b] BY <2>1, <2>4, <3>2 DEF Sent, AsRequest
      <4> QED BY <3>2, <4>1 DEF Backed, AsRequest
    <3> QED BY <2>1, <3>1, <3>2 DEF Sent
  <2>5. ASSUME process[b] = "up", NEW q \in Of(b)' PROVE Backed(b, q, 0)'
    <3>1. Backed(b, q, 0) BY <2>1, <2>5 DEF BackedAt, Sent
    <3> QED BY <2>3, <3>1
  <2>6. process' = process BY <2>1 DEF Sent
  <2>7. BackedAt(b)' BY <2>4, <2>5, <2>6 DEF BackedAt
  <2> QED BY <2>2, <2>7
<1> QED BY <1>1, <1>2, <1>3, <1>4, <1>5, <1>7, <1>8, <1>9, <1>10, <1>11, <1>12, <1>13, <1>14, <1>16,
           <1>17, <1>18, StepEffects

\* The browser keeps no query the page gave up: a pending query of a live renderer has its
\* request there, or the message that cancels it is on its way; it is never canceled at one side
\* only, whatever responses, navigations and cancellations cross each other.
THEOREM PendingHasItsRequest == Spec => []PendingHasRequest
<1> DEFINE Inv == PlacesInv /\ \A b \in Browsers : BackedAt(b)
<1>1. Init => Inv
  <2>1. ASSUME Init, NEW b \in Browsers PROVE BackedAt(b)
    <3>1. Asked(b) = {} /\ Of(b) = {} BY <2>1 DEF Init, Asked, Of
    <3> QED BY <3>1 DEF BackedAt
  <2> QED BY <2>1, InitPlaces
<1>2. Inv /\ [Next]_vars => Inv' BY NextPlaces, NextBacked
<1>3. Inv => PendingHasRequest
  <2> SUFFICES ASSUME Inv, NEW q \in pending, process[q.browser] = "up"
               PROVE  \/ \E i \in requests[q.browser] : i.ctx = q.ctx /\ i.req = q.req
                      \/ \E k \in DOMAIN toBrowser[q.browser] : For(toBrowser[q.browser][k], q)
    BY DEF PendingHasRequest, For
  <2>1. q.browser \in Browsers BY DEF PlacesInv, EpochInv, TypeOK, QueryInfo
  <2>2. Backed(q.browser, q, 0) BY <2>1 DEF BackedAt, Of
  <2> QED BY <2>2, KnownParts, <2>1 DEF Backed
<1> QED BY <1>1, <1>2, <1>3, PTL DEF Spec

-----------------------------------------------------------------------------
(***************************************************************************)
(* No query is lost.                                                       *)
(***************************************************************************)
\* A message of b's that cancels is for no request that is still registered, nor for any to come:
\* the ids of one request and the context of a released frame are not used again.
Past(b, m) ==
  /\ m.req <= nextRequest[b]
  /\ \A i \in requests[b] : ~(m.ctx = i.ctx /\ m.req \in {kReservedId, i.req})
  /\ m.req = kReservedId => /\ m.ctx > 0 /\ m.ctx <= nextContext[b]
                            /\ \A f \in Frames : context[b][f] # m.ctx
PastAt(b) ==
  process[b] = "up" => \A m \in Elements(toBrowser[b]) : m.type = "cancel" => Past(b, m)

\* It stays so as long as requests and contexts are only given up, or given new ids.
LEMMA PastKept ==
  ASSUME TypeOK, TypeOK', NEW b \in Browsers, PastAt(b), process'[b] = "up" => process[b] = "up",
         \A m \in Elements(toBrowser'[b]) :
           m \in Elements(toBrowser[b]) \/ m.type # "cancel" \/ Past(b, m)',
         nextRequest'[b] >= nextRequest[b], nextContext'[b] >= nextContext[b],
         \A i \in requests'[b] :
           \/ i \in requests[b]
           \/ /\ i.req > nextRequest[b]
              /\ i.ctx > nextContext[b] \/ \E f \in Frames : context[b][f] = i.ctx,
         \A f \in Frames : \/ context'[b][f] \in {context[b][f], NoContext, kReservedId}
                           \/ context'[b][f] > nextContext[b]
  PROVE  PastAt(b)'
<1>1. /\ nextRequest[b] \in Nat /\ nextRequest'[b] \in Nat
      /\ nextContext[b] \in Nat /\ nextContext'[b] \in Nat
      /\ \A i \in requests'[b] : i.req \in Nat /\ i.ctx \in Nat
      /\ \A f \in Frames : context[b][f] \in Int /\ context'[b][f] \in Int
  <2>1. /\ nextRequest[b] \in Nat /\ nextRequest'[b] \in Nat
        /\ nextContext[b] \in Nat /\ nextContext'[b] \in Nat
    BY Bounds DEF TypeOK
  <2>2. \A i \in requests'[b] : i.req \in Nat /\ i.ctx \in Nat
    <3>1. requests'[b] \subseteq RequestInfo BY DEF TypeOK
    <3> QED BY <3>1 DEF RequestInfo
  <2>3. \A f \in Frames : context[b][f] \in Int /\ context'[b][f] \in Int
    <3>1. /\ context[b] \in [Frames -> Nat \cup {NoContext}]
          /\ context'[b] \in [Frames -> Nat \cup {NoContext}]
      BY DEF TypeOK
    <3>2. \A i \in Nat \cup {NoContext} : i \in Int BY DEF NoContext
    <3> QED BY <3>1, <3>2
  <2> QED BY <2>1, <2>2, <2>3
<1>2. \A m \in Elements(toBrowser[b]) : m.type = "cancel" => m.req \in Nat /\ m.ctx \in Nat
  <2>1. toBrowser[b] \in Seq(QueryMsg \cup CancelMsg) BY DEF TypeOK
  <2> QED BY <2>1 DEF Elements, QueryMsg, CancelMsg
<1>3. ASSUME process'[b] = "up", NEW m \in Elements(toBrowser[b]), m.type = "cancel"
      PROVE  Past(b, m)'
  <2>1. Past(b, m) BY <1>3 DEF PastAt
  <2>2. m.req <= nextRequest'[b] BY <1>1, <1>2, <1>3, <2>1 DEF Past
  <2>3. ASSUME NEW i \in requests'[b], m.ctx = i.ctx, m.req \in {kReservedId, i.req} PROVE FALSE
    <3>1. i \notin requests[b] BY <2>1, <2>3 DEF Past
    <3>2. i.req > nextRequest[b] BY <3>1
    <3>3. m.req # i.req BY <1>1, <1>2, <1>3, <2>1, <3>2 DEF Past
    <3>4. m.req = kReservedId BY <2>3, <3>3
    <3> QED BY <1>1, <1>2, <1>3, <2>1, <2>3, <3>1, <3>4 DEF Past
  <2>4. ASSUME m.req = kReservedId
        PROVE  /\ m.ctx > 0 /\ m.ctx <= nextContext'[b]
               /\ \A f \in Frames : context'[b][f] # m.ctx
    <3>1. /\ m.ctx > 0 /\ m.ctx <= nextContext[b]
          /\ \A f \in Frames : context[b][f] # m.ctx
      BY <2>1, <2>4 DEF Past
    <3> QED BY <1>1, <1>2, <1>3, <3>1 DEF NoContext, kReservedId
  <2> QED BY <2>2, <2>3, <2>4 DEF Past
<1> QED BY <1>3 DEF PastAt

\* What SendCancel does to the pipe and the requests.
LEMMA CancelWritten ==
  ASSUME TypeOK, NEW b \in Browsers, NEW c \in Nat, NEW r \in Nat, SendCancel(b, c, r)
  PROVE  /\ requests'[b] = requests[b] \ Abandoned(b, c, r)
         /\ Elements(toBrowser'[b]) \subseteq Elements(toBrowser[b]) \cup
              {m \in {[type |-> "cancel", ctx |-> c, req |-> r]} : Abandoned(b, c, r) # {}}
         /\ \A k \in Asked(b) : k \in Asked(b)' /\ toBrowser'[b][k] = toBrowser[b][k]
         /\ \A d \in Browsers \ {b} : toBrowser'[d] = toBrowser[d] /\ requests'[d] = requests[d]
<1> DEFINE m == [type |-> "cancel", ctx |-> c, req |-> r]
           found == Abandoned(b, c, r)
<1>1. /\ requests'[b] = requests[b] \ found
      /\ \A d \in Browsers \ {b} : requests'[d] = requests[d]
  BY DEF SendCancel, TypeOK
<1>2. CASE found = {}
  <2>1. toBrowser' = toBrowser BY <1>2 DEF SendCancel
  <2> QED BY <1>1, <2>1 DEF Asked
<1>3. CASE found # {}
  <2>1. m \in QueryMsg \cup CancelMsg BY DEF CancelMsg
  <2>2. toBrowser' = [toBrowser EXCEPT ![b] = Append(@, m)] BY <1>3 DEF SendCancel
  <2> HIDE DEF m, found
  <2>3. PICK n \in Nat :
          /\ DOMAIN toBrowser'[b] = DOMAIN toBrowser[b] \cup {n}
          /\ \A k \in DOMAIN toBrowser[b] :
               k \in Nat /\ k < n /\ toBrowser'[b][k] = toBrowser[b][k]
          /\ toBrowser'[b][n] = m
          /\ \A d \in Browsers \ {b} : toBrowser'[d] = toBrowser[d]
    BY <2>1, <2>2, WriteMessage
  <2>4. Elements(toBrowser'[b]) \subseteq Elements(toBrowser[b]) \cup {m} BY <2>3 DEF Elements
  <2>5. \A k \in Asked(b) : k \in Asked(b)' /\ toBrowser'[b][k] = toBrowser[b][k]
    BY <2>3 DEF Asked
  <2> QED BY <1>1, <1>3, <2>3, <2>4, <2>5 DEF m, found
<1> QED BY <1>2, <1>3

\* Every step keeps cancellations behind what they cancel.
LEMMA NextPast ==
  ASSUME PlacesInv, \A b \in Browsers : PastAt(b), [Next]_vars
  PROVE  \A b \in Browsers : PastAt(b)'
<1> USE DEF rendererVars, browserVars
<1>1. /\ TypeOK /\ PendingFinite /\ NothingFromTheDead /\ ContextsNumbered /\ OnePerId
  BY DEF PlacesInv, EpochInv
<1>2. TypeOK'
  <2>1. PlacesInv' BY NextPlaces
  <2> QED BY <2>1 DEF PlacesInv, EpochInv
<1>3. \A b \in Browsers : /\ nextRequest[b] \in Nat /\ nextContext[b] \in Nat
                          /\ nextRequest[b] >= nextRequest[b] /\ nextContext[b] >= nextContext[b]
  BY <1>1, Bounds DEF TypeOK
\* A browser whose pipe gets nothing and whose contexts and counters stay.
<1>4. ASSUME NEW b \in Browsers, process'[b] = "up" => process[b] = "up",
             Elements(toBrowser'[b]) \subseteq Elements(toBrowser[b]),
             requests'[b] \subseteq requests[b], context'[b] = context[b],
             nextRequest'[b] = nextRequest[b], nextContext'[b] = nextContext[b]
      PROVE  PastAt(b)'
  BY <1>1, <1>2, <1>3, <1>4, PastKept
<1>5. ASSUME UNCHANGED <<process, toBrowser, requests, context, nextRequest, nextContext>>
      PROVE  \A b \in Browsers : PastAt(b)'
  BY <1>4, <1>5
<1>6. CASE UNCHANGED vars BY <1>5, <1>6 DEF vars
<1>7. CASE Internal BY <1>5, <1>7 DEF Internal, Renderers
<1>8. CASE \E S \in SUBSET pending, s \in Ends : Ended(S, s) BY <1>5, <1>8 DEF Ended, Renderers
<1>9. CASE \E q \in pending : Streamed(q) BY <1>5, <1>9 DEF Streamed, Renderers
<1>10. ASSUME NEW b \in Browsers, NEW type, Receive(b, type),
              UNCHANGED <<process, requests, context, nextRequest, nextContext>>
       PROVE  \A c \in Browsers : PastAt(c)'
  <2>1. /\ \A k \in DOMAIN toBrowser'[b] :
             k + 1 \in DOMAIN toBrowser[b] /\ toBrowser'[b][k] = toBrowser[b][k + 1]
        /\ \A c \in Browsers \ {b} : toBrowser'[c] = toBrowser[c]
    BY <1>1, <1>10, ReadMessage
  <2>2. Elements(toBrowser'[b]) \subseteq Elements(toBrowser[b]) BY <2>1 DEF Elements
  <2> QED BY <1>4, <1>10, <2>1, <2>2
<1>11. CASE \E b \in Browsers, h \in Handlers : Accepted(b, h)
  BY <1>10, <1>11 DEF Accepted, Renderers
<1>12. ASSUME NEW b \in Browsers, Refused(b) \/ CancelReceived(b)
       PROVE  \A c \in Browsers : PastAt(c)'
  BY <1>10, <1>12 DEF Refused, CancelReceived, Renderers
<1>13. ASSUME NEW b \in Browsers, OnBeforeBrowse(b) PROVE \A c \in Browsers : PastAt(c)'
  BY <1>5, <1>13 DEF OnBeforeBrowse
<1>14. ASSUME NEW b \in Browsers, OnBeforeClose(b) \/ Crash(b) PROVE \A c \in Browsers : PastAt(c)'
  <2>1. ResetRenderer(b) BY <1>14 DEF OnBeforeClose, Crash
  <2>2. process'[b] # "up" BY <1>1, <1>14 DEF OnBeforeClose, Crash, TypeOK
  <2>3. \A c \in Browsers \ {b} : process'[c] = process[c] /\ toBrowser'[c] = toBrowser[c]
    BY <1>1, <1>14 DEF OnBeforeClose, Crash, TypeOK
  <2>4. \A c \in Browsers \ {b} : /\ requests'[c] = requests[c] /\ context'[c] = context[c]
                                  /\ nextRequest'[c] = nextRequest[c]
                                  /\ nextContext'[c] = nextContext[c]
    BY <1>1, <2>1 DEF ResetRenderer, TypeOK
  <2>5. \A c \in Browsers \ {b} : PastAt(c)' BY <1>4, <2>3, <2>4
  <2>6. PastAt(b)' BY <2>2 DEF PastAt
  <2> QED BY <2>5, <2>6
<1>15. ASSUME NEW b \in Browsers, OnRenderProcessTerminated(b) \/ Relaunch(b)
       PROVE  \A c \in Browsers : PastAt(c)'
  <2>1. /\ UNCHANGED <<toBrowser, requests, context, nextRequest, nextContext>>
        /\ \A c \in Browsers \ {b} : process'[c] = process[c]
    BY <1>1, <1>15 DEF OnRenderProcessTerminated, Relaunch, TypeOK
  <2>2. toBrowser[b] = <<>>
    BY <1>1, <1>15 DEF OnRenderProcessTerminated, Relaunch, NothingFromTheDead
  <2>3. PastAt(b)' BY <2>1, <2>2 DEF PastAt, Elements
  <2> QED BY <1>4, <2>1, <2>3
<1>16. ASSUME NEW b \in Browsers, ExecuteCallback(b) PROVE \A c \in Browsers : PastAt(c)'
  <2>1. /\ UNCHANGED <<process, toBrowser, context, nextRequest, nextContext>>
        /\ \A c \in Browsers : requests'[c] \subseteq requests[c]
    BY <1>1, <1>16 DEF ExecuteCallback, TypeOK
  <2> QED BY <1>4, <2>1
<1>17. ASSUME NEW b \in Browsers, NEW f \in Frames, OnContextCreated(b, f)
       PROVE  \A c \in Browsers : PastAt(c)'
  <2>1. /\ UNCHANGED <<process, toBrowser, requests, nextRequest, nextContext>>
        /\ \A g \in Frames : context'[b][g] \in {context[b][g], kReservedId}
        /\ \A c \in Browsers \ {b} : context'[c] = context[c]
    BY <1>1, <1>17 DEF OnContextCreated, TypeOK
  <2>2. PastAt(b)' BY <1>1, <1>2, <1>3, <2>1, PastKept
  <2> QED BY <1>4, <2>1, <2>2
<1>18. ASSUME NEW b \in Browsers, NEW f \in Frames, OnContextReleased(b, f)
       PROVE  \A c \in Browsers : PastAt(c)'
  <2>0. PICK id, m : id = context[b][f] /\ m = [type |-> "cancel", ctx |-> id, req |-> kReservedId]
    OBVIOUS
  <2>1. /\ UNCHANGED <<process, nextRequest, nextContext>>
        /\ context'[b][f] = NoContext
        /\ \A g \in Frames \ {f} : context'[b][g] = context[b][g]
        /\ \A c \in Browsers \ {b} : context'[c] = context[c]
        /\ id \in Nat /\ kReservedId \in Nat
    BY <1>1, <1>18, <2>0 DEF OnContextReleased, TypeOK, kReservedId
  <2>2. CASE id = kReservedId
    <3>1. UNCHANGED <<requests, toBrowser>> BY <1>18, <2>0, <2>2 DEF OnContextReleased
    <3>2. PastAt(b)' BY <1>1, <1>2, <1>3, <2>1, <3>1, PastKept
    <3> QED BY <1>4, <2>1, <3>1, <3>2
  <2>3. CASE id # kReservedId
    <3>1. SendCancel(b, id, kReservedId) BY <1>18, <2>0, <2>3 DEF OnContextReleased
    <3>2. /\ requests'[b] = requests[b] \ Abandoned(b, id, kReservedId)
          /\ Elements(toBrowser'[b]) \subseteq Elements(toBrowser[b]) \cup {m}
          /\ \A d \in Browsers \ {b} : toBrowser'[d] = toBrowser[d] /\ requests'[d] = requests[d]
      BY <1>1, <2>0, <2>1, <3>1, CancelWritten
    <3>3. /\ id > 0 /\ id <= nextContext[b]
          /\ \A g \in Frames \ {f} : context[b][g] # id
      BY <1>1, <2>0, <2>1, <2>3 DEF ContextsNumbered, kReservedId
    <3>4. \A i \in requests'[b] : i.ctx # id BY <3>2 DEF Abandoned
    <3>5. /\ \A g \in Frames : context'[b][g] # id
          /\ id <= nextContext'[b] /\ kReservedId <= nextRequest'[b]
      BY <1>3, <2>1, <3>3 DEF NoContext, kReservedId
    <3>6. m.req = kReservedId /\ m.ctx = id BY <2>0
    <3>7. Past(b, m)' BY <3>3, <3>4, <3>5, <3>6 DEF Past
    <3>8. PastAt(b)' BY <1>1, <1>2, <1>3, <2>1, <3>2, <3>7, PastKept
    <3> QED BY <1>4, <2>1, <3>2, <3>8
  <2> QED BY <2>2, <2>3
\* The contexts after a bound function was called, and their counter.
<1>19. ASSUME NEW b \in Browsers, NEW f \in Frames, UseContext(b, f)
       PROVE  /\ process[b] = "up" /\ ContextId(b, f) \in Nat
              /\ \A g \in Frames : \/ context'[b][g] \in {context[b][g], NoContext, kReservedId}
                                   \/ context'[b][g] > nextContext[b]
              /\ ContextId(b, f) > nextContext[b] \/ context[b][f] = ContextId(b, f)
              /\ nextContext'[b] >= nextContext[b]
              /\ \A c \in Browsers \ {b} : context'[c] = context[c] /\ nextContext'[c] = nextContext[c]
  <2>1. /\ ContextId(b, f) \in Nat
        /\ context' = [context EXCEPT ![b][f] = ContextId(b, f)]
        /\ nextContext'[b] >= nextContext[b]
        /\ \A c \in Browsers \ {b} : nextContext'[c] = nextContext[c]
        /\ context[b][f] \in {kReservedId, ContextId(b, f)}
        /\ context[b][f] = kReservedId => ContextId(b, f) = nextContext[b] + 1
    BY <1>1, <1>19, UsedContext
  <2>2. /\ context'[b][f] = ContextId(b, f)
        /\ \A g \in Frames \ {f} : context'[b][g] = context[b][g]
        /\ \A c \in Browsers \ {b} : context'[c] = context[c]
    BY <1>1, <2>1 DEF TypeOK
  <2>3. ContextId(b, f) > nextContext[b] \/ context[b][f] = ContextId(b, f) BY <1>3, <2>1
  <2>4. process[b] = "up" BY <1>19 DEF UseContext
  <2> QED BY <2>1, <2>2, <2>3, <2>4
<1>20. ASSUME NEW b \in Browsers, NEW f \in Frames, NEW r \in 1..MaxRequests, CefQueryCancel(b, f, r)
       PROVE  \A c \in Browsers : PastAt(c)'
  <2>0. PICK id, m : id = ContextId(b, f) /\ m = [type |-> "cancel", ctx |-> id, req |-> r]
    OBVIOUS
  <2> DEFINE found == Abandoned(b, id, r)
  <2>1. /\ UseContext(b, f) /\ SendCancel(b, id, r) /\ UNCHANGED <<process, nextRequest>>
        /\ r \in Nat /\ r > 0
    BY <1>20, <2>0, Bounds DEF CefQueryCancel
  <2>2. /\ requests'[b] = requests[b] \ found
        /\ Elements(toBrowser'[b]) \subseteq Elements(toBrowser[b]) \cup {x \in {m} : found # {}}
        /\ \A d \in Browsers \ {b} : toBrowser'[d] = toBrowser[d] /\ requests'[d] = requests[d]
    BY <1>1, <1>19, <2>0, <2>1, CancelWritten
  <2>3. \A i \in found : i.req = r /\ i \in requests[b] BY <2>1 DEF Abandoned, kReservedId
  <2>4. \A i \in requests'[b] : ~(i.ctx = id /\ i.req = r) BY <2>2 DEF Abandoned
  <2>5. found # {} => r <= nextRequest[b]
    <3>1. process[b] = "up" BY <1>19, <2>1
    <3> QED BY <1>1, <2>3, <3>1, KnownParts DEF OnePerId
  <2>6. m.req = r /\ m.ctx = id BY <2>0
  <2> HIDE DEF found
  <2>7. found # {} => Past(b, m)'
    BY <2>1, <2>4, <2>5, <2>6 DEF Past, kReservedId
  <2>8. PastAt(b)'
    <3>1. requests'[b] \subseteq requests[b] BY <2>2
    <3>2. nextRequest'[b] >= nextRequest[b] BY <1>3, <2>1
    <3> QED BY <1>1, <1>2, <1>19, <2>1, <2>2, <2>7, <3>1, <3>2, PastKept
  <2> QED BY <1>4, <1>19, <2>1, <2>2, <2>8
<1>21. ASSUME NEW b \in Browsers, NEW f \in Frames, NEW persistent \in Persistence,
              CefQuery(b, f, persistent)
       PROVE  \A c \in Browsers : PastAt(c)'
  <2>1. PICK c \in Nat, r \in Nat, n \in Nat : Sent(b, f, persistent, c, r, n)
    BY <1>1, <1>21, QuerySent
  <2> DEFINE i == [ctx |-> c, req |-> r, persistent |-> persistent]
             m == [type |-> "query", ctx |-> c, req |-> r, persistent |-> persistent]
  <2>2. UseContext(b, f) BY <1>21 DEF CefQuery
  <2>3. /\ requests'[b] = requests[b] \cup {i} /\ i.req = r /\ i.ctx = ContextId(b, f)
        /\ nextRequest'[b] = r /\ r = nextRequest[b] + 1 /\ process' = process
        /\ \A d \in Browsers \ {b} : /\ requests'[d] = requests[d] /\ toBrowser'[d] = toBrowser[d]
                                     /\ nextRequest'[d] = nextRequest[d]
    BY <1>1, <2>1 DEF Sent, TypeOK
  <2>4. Elements(toBrowser'[b]) \subseteq Elements(toBrowser[b]) \cup {m}
    BY <2>1 DEF Elements, Sent
  <2>5. m.type # "cancel" OBVIOUS
  <2> HIDE DEF i, m
  <2>6. PastAt(b)'
    <3>1. \A x \in Elements(toBrowser'[b]) : x \in Elements(toBrowser[b]) \/ x.type # "cancel"
      BY <2>4, <2>5
    <3>2. \A x \in requests'[b] :
            \/ x \in requests[b]
            \/ /\ x.req > nextRequest[b]
               /\ x.ctx > nextContext[b] \/ \E g \in Frames : context[b][g] = x.ctx
      BY <1>3, <1>19, <2>2, <2>3
    <3>3. nextRequest'[b] >= nextRequest[b] BY <1>3, <2>3
    <3> QED BY <1>1, <1>2, <1>19, <2>2, <2>3, <3>1, <3>2, <3>3, PastKept
  <2> QED BY <1>4, <1>19, <2>2, <2>3, <2>6
<1> QED BY <1>1, <1>6, <1>7, <1>8, <1>9, <1>11, <1>12, <1>13, <1>14, <1>15, <1>16, <1>17, <1>18, <1>20,
           <1>21, StepEffects

\* Where a request's query is: on its way, pending, or answered for the last time.
Placed(b, i) ==
  \/ \E k \in Asked(b) : toBrowser[b][k].req = i.req
  \/ \E q \in Of(b) : q.req = i.req
  \/ \E t \in Coming(b) : t.req = i.req /\ (t.ok => ~i.persistent)
PlacedAt(b) == \A i \in requests[b] : navigating[b] \/ Placed(b, i)

\* A step that takes nothing away from b's queries and responses.
LEMMA PlacedSame ==
  ASSUME NEW b \in Browsers, PlacedAt(b), requests'[b] \subseteq requests[b],
         navigating[b] => navigating'[b],
         \A k \in Asked(b) : k \in Asked(b)' /\ toBrowser'[b][k] = toBrowser[b][k],
         Of(b) \subseteq Of(b)', Coming(b) \subseteq Coming(b)'
  PROVE  PlacedAt(b)'
<1> SUFFICES ASSUME NEW i \in requests'[b], ~navigating'[b] PROVE Placed(b, i)'
  BY DEF PlacedAt
<1>1. Placed(b, i) BY DEF PlacedAt
<1>2. CASE \E k \in Asked(b) : toBrowser[b][k].req = i.req BY <1>2 DEF Placed
<1>3. CASE \E q \in Of(b) : q.req = i.req BY <1>3 DEF Placed
<1>4. CASE \E t \in Coming(b) : t.req = i.req /\ (t.ok => ~i.persistent) BY <1>4 DEF Placed
<1> QED BY <1>1, <1>2, <1>3, <1>4 DEF Placed

\* A message of b's is read: its query becomes pending or fails, or what it cancels leaves.
LEMMA PlacedRead ==
  ASSUME TypeOK, NEW b \in Browsers, PlacedAt(b), NEW type, Receive(b, type),
         requests' = requests, navigating' = navigating,
         requests[b] # {} /\ type = "query" =>
           LET r == toBrowser[b][1].req IN
           (\E q \in Of(b)' : q.req = r) \/ \E t \in Coming(b)' : t.req = r /\ ~t.ok,
         Coming(b) \subseteq Coming(b)',
         \A i \in requests[b], q \in Of(b) : q.req = i.req => q \in Of(b)'
  PROVE  PlacedAt(b)'
<1> SUFFICES ASSUME NEW i \in requests'[b], ~navigating'[b] PROVE Placed(b, i)'
  BY DEF PlacedAt
<1>1. Placed(b, i) BY DEF PlacedAt
<1>2. ASSUME NEW k \in Asked(b), toBrowser[b][k].req = i.req PROVE Placed(b, i)'
  <2>1. /\ 1 \in DOMAIN toBrowser[b] /\ toBrowser[b][1].type = type
        /\ k # 1 => k - 1 \in DOMAIN toBrowser'[b] /\ toBrowser'[b][k - 1] = toBrowser[b][k]
    BY <1>2, ReadMessage DEF Asked
  <2>2. CASE k = 1
    <3>1. type = "query" BY <2>1, <2>2 DEF Asked
    <3>2. requests[b] # {} OBVIOUS
    <3> QED BY <1>2, <2>2, <3>1, <3>2 DEF Placed
  <2>3. CASE k # 1
    <3>1. k - 1 \in Asked(b)' /\ toBrowser'[b][k - 1].req = i.req BY <1>2, <2>1, <2>3 DEF Asked
    <3> QED BY <3>1 DEF Placed
  <2> QED BY <2>2, <2>3
<1>3. CASE \E q \in Of(b) : q.req = i.req BY <1>3 DEF Placed
<1>4. CASE \E t \in Coming(b) : t.req = i.req /\ (t.ok => ~i.persistent) BY <1>4 DEF Placed
<1> QED BY <1>1, <1>2, <1>3, <1>4 DEF Placed

\* No step but a navigation loses a query whose page still waits.
LEMMA NextPlaced ==
  ASSUME ~NavigationMayAbort, PlacesInv, \A b \in Browsers : PastAt(b) /\ PlacedAt(b), [Next]_vars
  PROVE  \A b \in Browsers : PlacedAt(b)'
<1> USE DEF rendererVars, browserVars
<1>1. /\ TypeOK /\ PendingFinite /\ NothingFromTheDead /\ ContextsNumbered /\ OnePerId /\ OnePlace
  BY DEF PlacesInv, EpochInv
<1>2. ASSUME UNCHANGED <<requests, navigating, toBrowser, pending>>,
             \A b \in Browsers : Coming(b) \subseteq Coming(b)'
      PROVE  \A b \in Browsers : PlacedAt(b)'
  BY <1>2, PlacedSame DEF Asked, Of
<1>3. \A b \in Browsers : \A i \in requests[b], q \in Of(b) : q.req = i.req => AsRequest(q) = i
  BY <1>1, KnownParts DEF OnePerId
<1>4. CASE UNCHANGED vars BY <1>2, <1>4 DEF vars, Coming
<1>5. CASE Internal BY <1>2, <1>5 DEF Internal, Renderers
<1>6. ASSUME NEW S \in SUBSET pending, NEW s \in Ends, Ended(S, s)
      PROVE  \A b \in Browsers : PlacedAt(b)'
  <2> SUFFICES ASSUME NEW b \in Browsers, NEW i \in requests'[b], ~navigating'[b]
               PROVE  Placed(b, i)'
    BY DEF PlacedAt
  <2>1. /\ UNCHANGED <<toBrowser, navigating, requests, process>>
        /\ Of(b)' = Of(b) \ S /\ Coming(b) \subseteq Coming(b)'
    BY <1>6 DEF Ended, Renderers, Of
  <2>2. i \in requests[b] /\ Placed(b, i) /\ process[b] = "up"
    BY <1>1, <2>1 DEF PlacedAt, NothingFromTheDead
  <2>3. CASE \E k \in Asked(b) : toBrowser[b][k].req = i.req BY <2>1, <2>3 DEF Placed, Asked
  <2>4. CASE \E t \in Coming(b) : t.req = i.req /\ (t.ok => ~i.persistent)
    BY <2>1, <2>4 DEF Placed
  <2>5. ASSUME NEW q \in Of(b), q.req = i.req PROVE Placed(b, i)'
    <3>1. CASE q \notin S BY <2>1, <2>5, <3>1 DEF Placed
    <3>2. CASE q \in S
      <4>1. q.browser = b /\ q.persistent = i.persistent
        BY <1>3, <2>2, <2>5, KnownParts DEF Of
      <4>2. PICK t \in Coming(b)' : Replies(t, q, s = "answered")
        BY <1>6, <2>2, <3>2, <4>1 DEF Ended
      <4>3. t.req = i.req BY <2>5, <4>2 DEF Replies
      <4>4. t.ok => ~q.persistent BY <1>6, <3>2, <4>2 DEF Replies, Ended
      <4> QED BY <4>1, <4>3, <4>4 DEF Placed
    <3> QED BY <3>1, <3>2
  <2> QED BY <2>2, <2>3, <2>4, <2>5 DEF Placed
<1>7. CASE \E q \in pending : Streamed(q) BY <1>2, <1>7 DEF Streamed, Renderers
<1>8. ASSUME NEW b \in Browsers, NEW type, Receive(b, type), PlacedAt(b)',
             UNCHANGED <<requests, navigating>>,
             \A c \in Browsers \ {b} : Of(c) \subseteq Of(c)' /\ Coming(c) \subseteq Coming(c)'
      PROVE  \A c \in Browsers : PlacedAt(c)'
  <2>1. \A c \in Browsers \ {b} : toBrowser'[c] = toBrowser[c] BY <1>1, <1>8, AskedRead
  <2>2. \A c \in Browsers \ {b} : PlacedAt(c)' BY <1>8, <2>1, PlacedSame DEF Asked
  <2> QED BY <1>8, <2>2
<1>9. ASSUME NEW b \in Browsers, NEW h \in Handlers, Accepted(b, h)
      PROVE  \A c \in Browsers : PlacedAt(c)'
  <2> DEFINE n == NewQuery(b, h)
  <2>1. /\ Receive(b, "query") /\ UNCHANGED <<requests, navigating>>
        /\ \A c \in Browsers : Coming(c)' = Coming(c)
    BY <1>9 DEF Accepted, Renderers
  <2>2. Head(toBrowser[b]) = toBrowser[b][1] BY <1>1, <2>1, ReadMessage
  <2>3. n.browser = b /\ n.req = toBrowser[b][1].req BY <2>2 DEF NewQuery
  <2>4. pending' = pending \cup {n} BY <1>9 DEF Accepted
  <2> HIDE DEF n
  <2>5. n \in Of(b)' /\ \A c \in Browsers : Of(c) \subseteq Of(c)' BY <2>3, <2>4 DEF Of
  <2>6. PlacedAt(b)' BY <1>1, <2>1, <2>3, <2>5, PlacedRead
  <2> QED BY <1>8, <2>1, <2>5, <2>6
<1>10. ASSUME NEW b \in Browsers, Refused(b) PROVE \A c \in Browsers : PlacedAt(c)'
  <2>1. /\ Receive(b, "query") /\ UNCHANGED <<requests, navigating, pending>>
        /\ \A c \in Browsers : Coming(c) \subseteq Coming(c)'
    BY <1>10 DEF Refused, Renderers
  <2>2. Head(toBrowser[b]) = toBrowser[b][1] BY <1>1, <2>1, ReadMessage
  <2>3. \A c \in Browsers : Of(c)' = Of(c) BY <2>1 DEF Of
  <2>4. requests[b] # {} => \E t \in Coming(b)' : t.req = toBrowser[b][1].req /\ ~t.ok
    BY <1>1, <1>10, <2>2 DEF Refused, Replies, NothingFromTheDead
  <2>5. PlacedAt(b)' BY <1>1, <2>1, <2>3, <2>4, PlacedRead
  <2> QED BY <1>8, <2>1, <2>3, <2>5
<1>11. ASSUME NEW b \in Browsers, CancelReceived(b) PROVE \A c \in Browsers : PlacedAt(c)'
  <2> DEFINE m == Head(toBrowser[b])
  <2>1. /\ Receive(b, "cancel") /\ UNCHANGED <<process, requests, navigating, renderTasks, toRenderer>>
        /\ CancelQueries(CanceledBy(b, m))
    BY <1>11 DEF CancelReceived
  <2>2. m \in Elements(toBrowser[b]) /\ m.type = "cancel"
    BY <1>1, <2>1, ReadMessage DEF Elements
  <2> HIDE DEF m
  <2>3. \A c \in Browsers : Coming(c)' = Coming(c) /\ Of(c)' = Of(c) \ CanceledBy(b, m)
    BY <2>1, CanceledOf DEF Coming
  <2>4. \A c \in Browsers \ {b} : Of(c)' = Of(c) BY <2>3 DEF CanceledBy, Of
  <2>5. ASSUME NEW i \in requests[b], NEW q \in Of(b), q.req = i.req PROVE q \in Of(b)'
    <3>1. q.ctx = i.ctx BY <1>3, <2>5, KnownParts
    <3>2. process[b] = "up" BY <1>1, <2>5 DEF NothingFromTheDead
    <3>3. Past(b, m) BY <2>2, <3>2 DEF PastAt
    <3>4. ~(m.ctx = i.ctx /\ m.req \in {kReservedId, i.req}) BY <2>5, <3>3 DEF Past
    <3>5. q \notin CanceledBy(b, m) BY <2>5, <3>1, <3>4 DEF CanceledBy
    <3> QED BY <2>3, <2>5, <3>5
  <2>6. PlacedAt(b)' BY <1>1, <2>1, <2>3, <2>5, PlacedRead
  <2> QED BY <1>8, <2>1, <2>3, <2>4, <2>6
<1>12. ASSUME NEW b \in Browsers, requests'[b] = {} \/ navigating'[b],
              \A c \in Browsers \ {b} : \/ requests[c] = {} \/ Of(c)' = Of(c),
              \A c \in Browsers \ {b} :
                /\ requests'[c] = requests[c] /\ navigating'[c] = navigating[c]
                /\ toBrowser'[c] = toBrowser[c] /\ Coming(c)' = Coming(c)
       PROVE  \A c \in Browsers : PlacedAt(c)'
  <2>1. PlacedAt(b)' BY <1>12 DEF PlacedAt
  <2>2. ASSUME NEW c \in Browsers \ {b} PROVE PlacedAt(c)'
    <3>1. CASE requests[c] = {} BY <1>12, <3>1 DEF PlacedAt
    <3>2. CASE Of(c)' = Of(c) BY <1>12, <3>2, PlacedSame DEF Asked
    <3> QED BY <1>12, <3>1, <3>2
  <2> QED BY <2>1, <2>2
<1>13. ASSUME NEW b \in Browsers, OnBeforeBrowse(b) \/ OnRenderProcessTerminated(b)
       PROVE  \A c \in Browsers : PlacedAt(c)'
  <2>1. /\ UNCHANGED <<requests, renderTasks, toRenderer, toBrowser>>
        /\ CancelQueries(Matching({b}, Handlers))
        /\ \A c \in Browsers \ {b} : navigating'[c] = navigating[c]
    BY <1>1, <1>13 DEF OnBeforeBrowse, OnRenderProcessTerminated, CancelSilently, TypeOK
  <2>2. navigating'[b] \/ requests[b] = {}
    BY <1>1, <1>13 DEF OnBeforeBrowse, OnRenderProcessTerminated, NothingFromTheDead, TypeOK
  <2>3. \A c \in Browsers \ {b} : Of(c)' = Of(c)
    BY <2>1, CanceledOf DEF Matching, Of
  <2>4. \A c \in Browsers : Coming(c)' = Coming(c) BY <2>1 DEF Coming
  <2> QED BY <1>12, <2>1, <2>2, <2>3, <2>4
<1>14. ASSUME NEW b \in Browsers, OnBeforeClose(b) \/ Crash(b)
       PROVE  \A c \in Browsers : PlacedAt(c)'
  <2>1. ResetRenderer(b) BY <1>14 DEF OnBeforeClose, Crash
  <2>2. /\ requests'[b] = {}
        /\ \A c \in Browsers \ {b} : requests'[c] = requests[c] /\ Coming(c)' = Coming(c)
    BY <1>1, <2>1, ResetTakes
  <2>3. \A c \in Browsers \ {b} : toBrowser'[c] = toBrowser[c] /\ navigating'[c] = navigating[c]
    BY <1>1, <1>14 DEF OnBeforeClose, Crash, TypeOK
  <2>4. ASSUME NEW c \in Browsers \ {b} PROVE requests[c] = {} \/ Of(c)' = Of(c)
    <3>1. CASE Crash(b) BY <3>1 DEF Crash, Of
    <3>2. CASE OnBeforeClose(b)
      <4>1. CASE UNCHANGED pending BY <4>1 DEF Of
      <4>2. CASE CancelQueries(Matching({b}, Handlers))
        BY <4>2, CanceledOf DEF Matching, Of
      <4>3. CASE ~\E other \in Browsers \ {b} : process[other] # "closed"
        BY <1>1, <4>3 DEF NothingFromTheDead
      <4> QED BY <3>2, <4>1, <4>2, <4>3 DEF OnBeforeClose, CloseInRouter, CloseInCefClient
    <3> QED BY <1>14, <3>1, <3>2
  <2> QED BY <1>12, <2>2, <2>3, <2>4
<1>15. ASSUME NEW b \in Browsers, Relaunch(b) PROVE \A c \in Browsers : PlacedAt(c)'
  BY <1>2, <1>15 DEF Relaunch, Coming
<1>16. ASSUME NEW b \in Browsers, ExecuteCallback(b) PROVE \A c \in Browsers : PlacedAt(c)'
  <2>0. PICK t : t = Head(renderTasks[b]) OBVIOUS
  <2>1. /\ UNCHANGED <<process, pending, toBrowser, navigating>>
        /\ requests'[b] = requests[b] \ Answered(b, t)
        /\ \A c \in Browsers \ {b} : requests'[c] = requests[c]
    BY <1>1, <1>16, <2>0 DEF ExecuteCallback, TypeOK
  <2>2. /\ Coming(b) = Coming(b)' \cup {t} /\ t \in Coming(b)
        /\ \A c \in Browsers \ {b} : Coming(c)' = Coming(c)
    BY <1>1, <1>16, <2>0, ComingTaken
  <2>3. \A c \in Browsers \ {b} : PlacedAt(c)' BY <2>1, <2>2, PlacedSame DEF Asked, Of
  <2>4. ASSUME NEW i \in requests'[b], ~navigating'[b] PROVE Placed(b, i)'
    <3>1. i \in requests[b] /\ Placed(b, i) BY <2>1, <2>4 DEF PlacedAt
    <3>2. CASE \E k \in Asked(b) : toBrowser[b][k].req = i.req BY <2>1, <3>2 DEF Placed, Asked
    <3>3. CASE \E q \in Of(b) : q.req = i.req BY <2>1, <3>3 DEF Placed, Of
    <3>4. ASSUME NEW x \in Coming(b), x.req = i.req, x.ok => ~i.persistent PROVE Placed(b, i)'
      <4>1. x.ctx = i.ctx BY <1>1, <3>1, <3>4, KnownParts DEF OnePerId
      <4>2. x # t BY <2>1, <2>4, <3>1, <3>4, <4>1 DEF Answered
      <4>3. x \in Coming(b)' BY <2>2, <4>2
      <4> QED BY <3>4, <4>3 DEF Placed
    <3> QED BY <3>1, <3>2, <3>3, <3>4 DEF Placed
  <2>5. PlacedAt(b)' BY <2>4 DEF PlacedAt
  <2> QED BY <2>3, <2>5
<1>17. ASSUME NEW b \in Browsers, NEW f \in Frames, OnContextCreated(b, f)
       PROVE  \A c \in Browsers : PlacedAt(c)'
  <2>1. /\ UNCHANGED <<pending, requests, toBrowser, renderTasks, toRenderer>>
        /\ navigating' = [navigating EXCEPT ![b] = @ /\ f # MainFrame]
        /\ context[b][f] = NoContext
    BY <1>17 DEF OnContextCreated
  <2>2. /\ \A c \in Browsers : Of(c)' = Of(c) /\ Coming(c)' = Coming(c) /\ Asked(c)' = Asked(c)
        /\ \A c \in Browsers \ {b} : navigating'[c] = navigating[c]
        /\ f # MainFrame => navigating'[b] = navigating[b]
    BY <1>1, <2>1 DEF Of, Coming, Asked, TypeOK
  <2>3. f = MainFrame => requests[b] = {}
    BY <1>1, <2>1 DEF ContextsNumbered, NoContext
  <2>4. \A c \in Browsers \ {b} : PlacedAt(c)' BY <2>1, <2>2, PlacedSame
  <2>5. CASE f = MainFrame BY <2>1, <2>3, <2>4, <2>5 DEF PlacedAt
  <2>6. CASE f # MainFrame
    <3>1. PlacedAt(b)' BY <2>1, <2>2, <2>6, PlacedSame
    <3> QED BY <2>4, <3>1
  <2> QED BY <2>5, <2>6
<1>18. ASSUME NEW b \in Browsers, NEW c \in Nat, NEW r \in Nat, SendCancel(b, c, r),
              UNCHANGED <<pending, navigating, renderTasks, toRenderer>>
       PROVE  \A d \in Browsers : PlacedAt(d)'
  <2>1. /\ requests'[b] \subseteq requests[b]
        /\ \A k \in Asked(b) : k \in Asked(b)' /\ toBrowser'[b][k] = toBrowser[b][k]
        /\ \A d \in Browsers \ {b} : toBrowser'[d] = toBrowser[d] /\ requests'[d] = requests[d]
    BY <1>1, <1>18, CancelWritten
  <2>2. \A d \in Browsers : Of(d)' = Of(d) /\ Coming(d)' = Coming(d) BY <1>18 DEF Of, Coming
  <2>3. PlacedAt(b)' BY <1>18, <2>1, <2>2, PlacedSame
  <2>4. \A d \in Browsers \ {b} : PlacedAt(d)' BY <1>18, <2>1, <2>2, PlacedSame DEF Asked
  <2> QED BY <2>3, <2>4
<1>19. ASSUME NEW b \in Browsers, NEW f \in Frames, OnContextReleased(b, f)
       PROVE  \A c \in Browsers : PlacedAt(c)'
  <2>1. CASE context[b][f] = kReservedId
    BY <1>2, <1>19, <2>1 DEF OnContextReleased, Coming
  <2>2. CASE context[b][f] # kReservedId
    <3>1. context[b][f] \in Nat /\ kReservedId \in Nat
      BY <1>1, <1>19 DEF TypeOK, OnContextReleased, kReservedId
    <3> QED BY <1>18, <1>19, <2>2, <3>1 DEF OnContextReleased
  <2> QED BY <2>1, <2>2
<1>20. ASSUME NEW b \in Browsers, NEW f \in Frames, NEW r \in 1..MaxRequests, CefQueryCancel(b, f, r)
       PROVE  \A c \in Browsers : PlacedAt(c)'
  <2>1. ContextId(b, f) \in Nat
    BY <1>1, <1>20 DEF TypeOK, CefQueryCancel, UseContext, ContextId
  <2>2. r \in Nat BY Bounds
  <2> QED BY <1>18, <1>20, <2>1, <2>2 DEF CefQueryCancel
<1>21. ASSUME NEW b \in Browsers, NEW f \in Frames, NEW persistent \in Persistence,
              CefQuery(b, f, persistent)
       PROVE  \A d \in Browsers : PlacedAt(d)'
  <2>1. PICK c \in Nat, r \in Nat, n \in Nat : Sent(b, f, persistent, c, r, n)
    BY <1>1, <1>21, QuerySent
  <2>2. \A d \in Browsers \ {b} : PlacedAt(d)' BY <2>1, PlacedSame DEF Sent, Asked
  <2>3. ASSUME NEW i \in requests'[b], ~navigating'[b] PROVE Placed(b, i)'
    <3>1. CASE i \in requests[b]
      <4>1. Placed(b, i) BY <2>1, <2>3, <3>1 DEF PlacedAt, Sent
      <4>2. CASE \E k \in Asked(b) : toBrowser[b][k].req = i.req
        BY <2>1, <4>2 DEF Placed, Asked, Sent
      <4>3. CASE \E q \in Of(b) : q.req = i.req BY <2>1, <4>3 DEF Placed, Sent
      <4>4. CASE \E t \in Coming(b) : t.req = i.req /\ (t.ok => ~i.persistent)
        BY <2>1, <4>4 DEF Placed, Sent
      <4> QED BY <4>1, <4>2, <4>3, <4>4 DEF Placed
    <3>2. CASE i \notin requests[b]
      <4>1. i.req = r /\ n \in Asked(b)' /\ toBrowser'[b][n].req = r
        BY <2>1, <2>3, <3>2 DEF Sent
      <4> QED BY <4>1 DEF Placed
    <3> QED BY <3>1, <3>2
  <2>4. PlacedAt(b)' BY <2>3 DEF PlacedAt
  <2> QED BY <2>2, <2>4
<1> QED BY <1>1, <1>4, <1>5, <1>6, <1>7, <1>9, <1>10, <1>11, <1>13, <1>14, <1>15, <1>16, <1>17, <1>19,
           <1>20, <1>21, StepEffects

\* A request's place, in the terms of the program: the epoch of what is pending is its process's,
\* and a response on its way is in one of the two queues.
LEMMA PlacedIsTracked ==
  ASSUME PlacesInv, NEW b \in Browsers, NEW i \in requests[b], Placed(b, i)
  PROVE  Tracked(b, i)
<1>1. TypeOK /\ PendingCurrent BY DEF PlacesInv, EpochInv
<1>2. CASE \E k \in Asked(b) : toBrowser[b][k].req = i.req BY <1>2 DEF Asked, Tracked
<1>3. CASE \E q \in Of(b) : q.req = i.req BY <1>1, <1>3 DEF Of, Tracked, UidOf, PendingCurrent
<1>4. ASSUME NEW t \in Coming(b), t.req = i.req, t.ok => ~i.persistent PROVE Tracked(b, i)
  <2>1. renderTasks[b] \in Seq(Response) /\ toRenderer[b] \in Seq(Response) BY <1>1 DEF TypeOK
  <2>2. Elements(renderTasks[b] \o toRenderer[b]) = Coming(b)
    BY <2>1, QueueElements DEF Coming
  <2>3. PICK k \in DOMAIN Arriving(b) : Arriving(b)[k] = t
    BY <2>2 DEF Elements, Arriving
  <2> QED BY <1>4, <2>3 DEF Tracked
<1> QED BY <1>2, <1>3, <1>4 DEF Placed

\* No query is lost: the query of a registered request is on its way to the browser, pending
\* there, or its last response is on its way back, whatever is canceled, completed, closed or
\* crashes in the meantime; only a navigation that replaces the page may drop it. A navigation
\* that ends without a new page breaks this (OnBeforeBrowse cancels and tells the page nothing),
\* so such navigations are excluded.
THEOREM RequestsTracked ==
  ASSUME ~NavigationMayAbort
  PROVE  Spec => []RequestTracked
<1> DEFINE Inv == PlacesInv /\ \A b \in Browsers : PastAt(b) /\ PlacedAt(b)
<1>1. Init => Inv
  <2>1. ASSUME Init, NEW b \in Browsers PROVE PastAt(b) /\ PlacedAt(b)
    BY <2>1 DEF Init, PastAt, PlacedAt, Elements
  <2> QED BY <2>1, InitPlaces
<1>2. Inv /\ [Next]_vars => Inv' BY NextPlaces, NextPast, NextPlaced
<1>3. Inv => RequestTracked BY PlacedIsTracked DEF PlacedAt, RequestTracked
<1> QED BY <1>1, <1>2, <1>3, PTL DEF Spec

-----------------------------------------------------------------------------
(***************************************************************************)
(* The router implements its contract.                                     *)
(***************************************************************************)
\* The query messages in b's pipe; what the page and the application have seen of the query with
\* id r of b's renderer; and the queries whose ids are still to be given out.
AskedMsgs(b) == {toBrowser[b][k] : k \in Asked(b)}
PageOf(b, r) == page[<<b, epoch[b], r>>]
AppOf(b, r) == app[<<b, epoch[b], r>>]
Fresh(u) ==
  \/ u[2] > epoch[u[1]]
  \/ u[2] = epoch[u[1]] /\ process[u[1]] = "up" /\ u[3] > nextRequest[u[1]]

\* A query that was not asked has not been seen; and where a query is agrees with what was seen.
FreshUnseen == \A u \in Uid : Fresh(u) => page[u] = "idle" /\ app[u] = "unseen"
SeenAt(b) ==
  /\ \A m \in AskedMsgs(b) : PageOf(b, m.req) # "idle" /\ AppOf(b, m.req) = "unseen"
  /\ \A q \in Of(b) : AppOf(b, q.req) \in IF q.persistent THEN {"open", "streaming"} ELSE {"open"}
  /\ \A i \in requests[b] : PageOf(b, i.req) = IF i.persistent THEN "many" ELSE "once"
  /\ \A t \in Coming(b) :
       /\ ~t.ok => AppOf(b, t.req) \in {"failed", "canceled", "refused"}
       /\ t.ok => \A i \in requests[b] :
                    i.req = t.req /\ ~i.persistent => AppOf(b, t.req) = "answered"
SeenInv == FreshUnseen /\ \A b \in Browsers : SeenAt(b)

\* Every id that is known anywhere is one of the history's.
LEMMA KnownIds ==
  ASSUME PlacesInv, NEW b \in Browsers
  PROVE  /\ \A m \in AskedMsgs(b) : m.req \in 1..MaxRequests
         /\ \A q \in Of(b) : q.req \in 1..MaxRequests /\ UidOf(q) = <<b, epoch[b], q.req>>
         /\ \A i \in requests[b] : i.req \in 1..MaxRequests
         /\ \A t \in Coming(b) : t.req \in 1..MaxRequests
         /\ \A r \in 1..MaxRequests : <<b, epoch[b], r>> \in Uid
<1>1. TypeOK /\ PendingCurrent /\ OnePerId BY DEF PlacesInv, EpochInv
<1>2. \A x \in Known(b) : x.req \in 1..MaxRequests BY <1>1 DEF OnePerId
<1>3. \A m \in AskedMsgs(b) : m.req \in 1..MaxRequests BY <1>2, KnownParts DEF AskedMsgs
<1>4. \A q \in Of(b) : q.req \in 1..MaxRequests BY <1>2, KnownParts
<1>5. \A q \in Of(b) : UidOf(q) = <<b, epoch[b], q.req>> BY <1>1 DEF UidOf, Of, PendingCurrent
<1>6. \A i \in requests[b] : i.req \in 1..MaxRequests BY <1>2, KnownParts
<1>7. \A t \in Coming(b) : t.req \in 1..MaxRequests BY <1>1 DEF OnePerId
<1>8. \A r \in 1..MaxRequests : <<b, epoch[b], r>> \in Uid
  <2>1. epoch[b] \in 1..MaxEpoch BY <1>1 DEF TypeOK
  <2> QED BY <2>1 DEF Uid
<1> QED BY <1>3, <1>4, <1>5, <1>6, <1>7, <1>8

\* What the application has seen after the queries of S ended.
LEMMA RecordedOf ==
  ASSUME PlacesInv, NEW S \in SUBSET pending, NEW s, Record({UidOf(q) : q \in S}, s),
         NEW b \in Browsers, epoch'[b] = epoch[b], NEW r \in 1..MaxRequests
  PROVE  AppOf(b, r)' = IF \E q \in S : q \in Of(b) /\ q.req = r THEN s ELSE AppOf(b, r)
<1>1. TypeOK /\ PendingCurrent BY DEF PlacesInv, EpochInv
<1>2. <<b, epoch[b], r>> \in Uid BY KnownIds
<1>3. AppOf(b, r)' = IF <<b, epoch[b], r>> \in {UidOf(q) : q \in S} THEN s ELSE AppOf(b, r)
  BY <1>2 DEF Record, AppOf
<1>4. \A q \in S : UidOf(q) = <<b, epoch[b], r>> <=> q \in Of(b) /\ q.req = r
  <2> TAKE q \in S
  <2>1. q.epoch = epoch[q.browser] BY <1>1 DEF PendingCurrent
  <2>2. q \in Of(b) <=> q.browser = b BY DEF Of
  <2> QED BY <2>1, <2>2 DEF UidOf
<1> QED BY <1>3, <1>4

\* What a page has seen after its requests in I were ended.
LEMMA RecordedPage ==
  ASSUME PlacesInv, NEW b \in Browsers, NEW I, NEW s,
         RecordPage({<<b, epoch[b], i.req>> : i \in I}, s),
         NEW c \in Browsers, epoch'[c] = epoch[c], NEW r \in 1..MaxRequests
  PROVE  PageOf(c, r)' = IF c = b /\ \E i \in I : i.req = r THEN s ELSE PageOf(c, r)
<1>1. <<c, epoch[c], r>> \in Uid BY KnownIds
<1>2. PageOf(c, r)' = IF <<c, epoch[c], r>> \in {<<b, epoch[b], i.req>> : i \in I}
                      THEN s ELSE PageOf(c, r)
  BY <1>1 DEF RecordPage, PageOf
<1>3. <<c, epoch[c], r>> \in {<<b, epoch[b], i.req>> : i \in I}
        <=> c = b /\ \E i \in I : i.req = r
  OBVIOUS
<1> QED BY <1>2, <1>3

\* Queries of b may leave, with what they were last seen as.
LEMMA SeenSame ==
  ASSUME NEW b \in Browsers, SeenAt(b),
         AskedMsgs(b)' \subseteq AskedMsgs(b), Of(b)' \subseteq Of(b),
         requests'[b] \subseteq requests[b], Coming(b)' \subseteq Coming(b),
         \A x \in AskedMsgs(b)' \cup Of(b)' \cup Coming(b)' : AppOf(b, x.req)' = AppOf(b, x.req),
         \A m \in AskedMsgs(b)' : PageOf(b, m.req) # "idle" => PageOf(b, m.req)' # "idle",
         \A i \in requests'[b] : PageOf(b, i.req)' = PageOf(b, i.req)
  PROVE  SeenAt(b)'
<1>1. \A m \in AskedMsgs(b)' : PageOf(b, m.req)' # "idle" /\ AppOf(b, m.req)' = "unseen"
  BY DEF SeenAt
<1>2. \A q \in Of(b)' :
        AppOf(b, q.req)' \in IF q.persistent THEN {"open", "streaming"} ELSE {"open"}
  BY DEF SeenAt
<1>3. \A i \in requests'[b] : PageOf(b, i.req)' = IF i.persistent THEN "many" ELSE "once"
  BY DEF SeenAt
<1>4. \A t \in Coming(b)' :
        /\ ~t.ok => AppOf(b, t.req)' \in {"failed", "canceled", "refused"}
        /\ t.ok => \A i \in requests'[b] :
                     i.req = t.req /\ ~i.persistent => AppOf(b, t.req)' = "answered"
  BY DEF SeenAt
<1> QED BY <1>1, <1>2, <1>3, <1>4 DEF SeenAt

\* The queries of S end, of whatever browser, and what is sent are their responses.
LEMMA SeenEnds ==
  ASSUME PlacesInv, NEW S \in SUBSET pending, NEW s \in Ends, Record({UidOf(q) : q \in S}, s),
         NEW b \in Browsers, SeenAt(b), epoch'[b] = epoch[b],
         AskedMsgs(b)' \subseteq AskedMsgs(b), Of(b)' \subseteq Of(b) \ S,
         requests'[b] \subseteq requests[b],
         \A t \in Coming(b)' \ Coming(b) :
           \E q \in S : q.browser = b /\ Replies(t, q, s = "answered"),
         \A m \in AskedMsgs(b)' : PageOf(b, m.req) # "idle" => PageOf(b, m.req)' # "idle",
         \A i \in requests'[b] : PageOf(b, i.req)' = PageOf(b, i.req)
  PROVE  SeenAt(b)'
<1>1. OnePlace /\ OnePerId BY DEF PlacesInv
<1>2. \A r \in 1..MaxRequests :
        AppOf(b, r)' = IF \E q \in S : q \in Of(b) /\ q.req = r THEN s ELSE AppOf(b, r)
  BY RecordedOf
<1>3. \A m \in AskedMsgs(b)' : PageOf(b, m.req)' # "idle" /\ AppOf(b, m.req)' = "unseen"
  <2> TAKE m \in AskedMsgs(b)'
  <2>1. m \in AskedMsgs(b) /\ m.req \in 1..MaxRequests BY KnownIds
  <2>2. \A q \in Of(b) : q.req # m.req BY <1>1, <2>1 DEF OnePlace, AskedMsgs
  <2>3. AppOf(b, m.req)' = AppOf(b, m.req) BY <1>2, <2>1, <2>2
  <2> QED BY <2>1, <2>3 DEF SeenAt
<1>4. \A q \in Of(b)' :
        AppOf(b, q.req)' \in IF q.persistent THEN {"open", "streaming"} ELSE {"open"}
  <2> TAKE q \in Of(b)'
  <2>1. q \in Of(b) \ S /\ q.req \in 1..MaxRequests BY KnownIds
  <2>2. \A p \in S : p \in Of(b) => p.req # q.req BY <1>1, <2>1 DEF OnePlace
  <2>3. AppOf(b, q.req)' = AppOf(b, q.req) BY <1>2, <2>1, <2>2
  <2> QED BY <2>1, <2>3 DEF SeenAt
<1>5. \A i \in requests'[b] : PageOf(b, i.req)' = IF i.persistent THEN "many" ELSE "once"
  BY DEF SeenAt
<1>6. ASSUME NEW t \in Coming(b)'
      PROVE  /\ ~t.ok => AppOf(b, t.req)' \in {"failed", "canceled", "refused"}
             /\ t.ok => \A i \in requests'[b] :
                          i.req = t.req /\ ~i.persistent => AppOf(b, t.req)' = "answered"
  <2>1. CASE t \in Coming(b) /\ \A q \in S : q \in Of(b) => q.req # t.req
    <3>1. t.req \in 1..MaxRequests BY <2>1, KnownIds
    <3>2. AppOf(b, t.req)' = AppOf(b, t.req) BY <1>2, <2>1, <3>1
    <3> QED BY <2>1, <3>2 DEF SeenAt
  <2>2. ASSUME t \in Coming(b), NEW q \in S, q \in Of(b), q.req = t.req
        PROVE  t.ok /\ \A i \in requests'[b] : i.req = t.req => i.persistent
    <3>1. t.ok /\ q.persistent BY <1>1, <2>2 DEF OnePlace
    <3>2. \A i \in requests[b] : i.req = q.req => AsRequest(q) = i
      BY <1>1, <2>2, KnownParts DEF OnePerId
    <3> QED BY <2>2, <3>1, <3>2, KnownParts
  <2>3. ASSUME NEW q \in S, q.browser = b, Replies(t, q, s = "answered")
        PROVE  AppOf(b, t.req)' = s /\ (t.ok <=> s = "answered")
    <3>1. q \in Of(b) /\ t.req = q.req BY <2>3 DEF Of, Replies
    <3>2. t.req \in 1..MaxRequests BY <3>1, KnownIds
    <3>3. t.ok = (s = "answered") BY <2>3 DEF Replies
    <3> QED BY <1>2, <3>1, <3>2, <3>3
  <2> QED BY <2>1, <2>2, <2>3 DEF Ends
<1> QED BY <1>3, <1>4, <1>5, <1>6 DEF SeenAt

\* A persistent query gets one more answer.
LEMMA SeenStreamed ==
  ASSUME PlacesInv, NEW q \in pending, Streamed(q), NEW b \in Browsers, SeenAt(b)
  PROVE  SeenAt(b)'
<1>1. OnePlace /\ OnePerId BY DEF PlacesInv
<1>2. /\ UNCHANGED <<pending, toBrowser, process, epoch, requests, page>>
      /\ {UidOf(p) : p \in {q}} = {UidOf(q)}
  BY DEF Streamed, Renderers
<1>3. \A r \in 1..MaxRequests :
        AppOf(b, r)' = IF q \in Of(b) /\ q.req = r THEN "streaming" ELSE AppOf(b, r)
  <2>1. {q} \in SUBSET pending /\ Record({UidOf(p) : p \in {q}}, "streaming")
    BY <1>2 DEF Streamed
  <2>2. \A r \in 1..MaxRequests :
          AppOf(b, r)' = IF \E p \in {q} : p \in Of(b) /\ p.req = r THEN "streaming" ELSE AppOf(b, r)
    BY <1>2, <2>1, RecordedOf
  <2> QED BY <2>2
<1>4. AskedMsgs(b)' = AskedMsgs(b) /\ Of(b)' = Of(b) /\ \A r : PageOf(b, r)' = PageOf(b, r)
  BY <1>2 DEF AskedMsgs, Asked, Of, PageOf
<1>5. \A m \in AskedMsgs(b) : PageOf(b, m.req)' # "idle" /\ AppOf(b, m.req)' = "unseen"
  <2> TAKE m \in AskedMsgs(b)
  <2>1. m.req \in 1..MaxRequests BY KnownIds
  <2>2. q \in Of(b) => q.req # m.req BY <1>1 DEF OnePlace, AskedMsgs
  <2> QED BY <1>3, <1>4, <2>1, <2>2 DEF SeenAt
<1>6. \A p \in Of(b) :
        AppOf(b, p.req)' \in IF p.persistent THEN {"open", "streaming"} ELSE {"open"}
  <2> TAKE p \in Of(b)
  <2>1. p.req \in 1..MaxRequests BY KnownIds
  <2>2. q \in Of(b) /\ q.req = p.req => p = q BY <1>1 DEF OnePlace
  <2>3. q.persistent BY DEF Streamed
  <2>4. CASE p = q BY <1>3, <2>1, <2>3, <2>4
  <2>5. CASE p # q BY <1>3, <2>1, <2>2, <2>5 DEF SeenAt
  <2> QED BY <2>4, <2>5
<1>7. \A i \in requests[b] : PageOf(b, i.req)' = IF i.persistent THEN "many" ELSE "once"
  BY <1>4 DEF SeenAt
<1>8. ASSUME NEW t \in Coming(b)'
      PROVE  /\ ~t.ok => AppOf(b, t.req)' \in {"failed", "canceled", "refused"}
             /\ t.ok => \A i \in requests[b] :
                          i.req = t.req /\ ~i.persistent => AppOf(b, t.req)' = "answered"
  <2>1. CASE t \in Coming(b) /\ ~(q \in Of(b) /\ q.req = t.req)
    <3>1. t.req \in 1..MaxRequests BY <2>1, KnownIds
    <3> QED BY <1>3, <2>1, <3>1 DEF SeenAt
  <2>2. CASE q \in Of(b) /\ q.req = t.req /\ t.ok
    <3>1. \A i \in requests[b] : i.req = q.req => AsRequest(q) = i
      BY <1>1, <2>2, KnownParts DEF OnePerId
    <3>2. \A i \in requests[b] : i.req = t.req => i.persistent
      BY <2>2, <3>1, KnownParts DEF Streamed
    <3> QED BY <2>2, <3>2
  <2>3. t \in Coming(b) /\ q \in Of(b) /\ q.req = t.req => t.ok BY <1>1 DEF OnePlace
  <2>4. t \notin Coming(b) => q \in Of(b) /\ q.req = t.req /\ t.ok
    BY DEF Streamed, Replies, Of
  <2> QED BY <2>1, <2>2, <2>3, <2>4
<1> QED BY <1>2, <1>4, <1>5, <1>6, <1>7, <1>8 DEF SeenAt

\* What the application has seen after the query of the message read was accepted or refused.
LEMMA RecordedHead ==
  ASSUME PlacesInv, NEW b \in Browsers, NEW r \in 1..MaxRequests, NEW s,
         Record({<<b, epoch[b], r>>}, s), epoch' = epoch, page' = page
  PROVE  \A c \in Browsers, n \in 1..MaxRequests :
           /\ AppOf(c, n)' = IF c = b /\ n = r THEN s ELSE AppOf(c, n)
           /\ PageOf(c, n)' = PageOf(c, n)
<1> SUFFICES ASSUME NEW c \in Browsers, NEW n \in 1..MaxRequests
             PROVE  /\ AppOf(c, n)' = IF c = b /\ n = r THEN s ELSE AppOf(c, n)
                    /\ PageOf(c, n)' = PageOf(c, n)
  OBVIOUS
<1>1. <<c, epoch[c], n>> \in Uid BY KnownIds
<1> QED BY <1>1 DEF Record, AppOf, PageOf

\* The query at the head of b's pipe is accepted or refused; those behind it are other queries.
LEMMA SeenRead ==
  ASSUME PlacesInv, \A b \in Browsers : SeenAt(b), NEW b \in Browsers,
         (\E h \in Handlers : Accepted(b, h)) \/ Refused(b)
  PROVE  \A c \in Browsers : SeenAt(c)'
<1>1. OnePlace /\ TypeOK BY DEF PlacesInv, EpochInv
<1>2. PICK m : m = toBrowser[b][1] OBVIOUS
<1>3. Receive(b, "query") /\ UNCHANGED <<epoch, requests, page>>
  BY DEF Accepted, Refused, Renderers
<1>4. /\ 1 \in Asked(b) /\ Head(toBrowser[b]) = m
      /\ \A k \in Asked(b)' : /\ k + 1 # 1 /\ k + 1 \in Asked(b)
                              /\ toBrowser'[b][k] = toBrowser[b][k + 1]
      /\ \A c \in Browsers \ {b} : toBrowser'[c] = toBrowser[c]
  BY <1>1, <1>2, <1>3, ReadMessage DEF Asked
<1>5. /\ m \in AskedMsgs(b) /\ m.req \in 1..MaxRequests
      /\ \A c \in Browsers : AskedMsgs(c)' \subseteq AskedMsgs(c)
      /\ \A x \in AskedMsgs(b)' : x.req # m.req
  <2>1. m \in AskedMsgs(b) BY <1>2, <1>4 DEF AskedMsgs
  <2>2. \A c \in Browsers \ {b} : AskedMsgs(c)' = AskedMsgs(c) BY <1>4 DEF AskedMsgs, Asked
  <2>3. \A x \in AskedMsgs(b)' : x \in AskedMsgs(b) /\ x.req # m.req
    <3>1. \A k \in Asked(b)' : /\ toBrowser'[b][k] \in AskedMsgs(b)
                               /\ toBrowser'[b][k].req # m.req
      BY <1>1, <1>2, <1>4 DEF AskedMsgs, OnePlace
    <3>2. AskedMsgs(b)' = {toBrowser'[b][k] : k \in Asked(b)'} BY DEF AskedMsgs
    <3> QED BY <3>1, <3>2
  <2> QED BY <2>1, <2>2, <2>3, KnownIds
<1>6. PICK s \in {"open", "refused"} :
        /\ Record({<<b, epoch[b], m.req>>}, s)
        /\ s = "open" => \E h \in Handlers : Accepted(b, h)
        /\ s = "refused" => Refused(b)
  <2>1. ASSUME NEW h \in Handlers, Accepted(b, h)
        PROVE  Record({<<b, epoch[b], m.req>>}, "open")
    <3>1. UidOf(NewQuery(b, h)) = <<b, epoch[b], m.req>> BY <1>4 DEF UidOf, NewQuery
    <3> QED BY <2>1, <3>1 DEF Accepted
  <2>2. ASSUME Refused(b) PROVE Record({<<b, epoch[b], m.req>>}, "refused")
    BY <1>4, <2>2 DEF Refused
  <2> QED BY <2>1, <2>2
<1>7. \A c \in Browsers, n \in 1..MaxRequests :
        /\ AppOf(c, n)' = IF c = b /\ n = m.req THEN s ELSE AppOf(c, n)
        /\ PageOf(c, n)' = PageOf(c, n)
  BY <1>3, <1>5, <1>6, RecordedHead
<1>8. /\ \A c \in Browsers \ {b} : Coming(c)' \subseteq Coming(c) /\ Of(c)' = Of(c)
      /\ \A t \in Coming(b)' \ Coming(b) : s = "refused" /\ t.req = m.req /\ ~t.ok
      /\ \A q \in Of(b)' \ Of(b) : s = "open" /\ q.req = m.req
  <2>1. ASSUME NEW h \in Handlers, Accepted(b, h)
        PROVE  /\ \A c \in Browsers : Coming(c)' = Coming(c)
               /\ \A c \in Browsers \ {b} : Of(c)' = Of(c)
               /\ \A q \in Of(b)' \ Of(b) : q.req = m.req
    <3>1. NewQuery(b, h).browser = b /\ NewQuery(b, h).req = m.req BY <1>4 DEF NewQuery
    <3>2. pending' = pending \cup {NewQuery(b, h)} BY <2>1 DEF Accepted
    <3>3. \A c \in Browsers : Coming(c)' = Coming(c) BY <2>1 DEF Accepted
    <3> QED BY <3>1, <3>2, <3>3 DEF Of
  <2>2. ASSUME Refused(b)
        PROVE  /\ \A c \in Browsers : Of(c)' = Of(c)
               /\ \A c \in Browsers \ {b} : Coming(c)' \subseteq Coming(c)
               /\ \A t \in Coming(b)' \ Coming(b) : t.req = m.req /\ ~t.ok
    BY <1>4, <2>2 DEF Refused, Replies, Of
  <2>3. CASE s = "open" BY <1>6, <2>1, <2>3
  <2>4. CASE s = "refused" BY <1>6, <2>2, <2>4
  <2> QED BY <2>3, <2>4
<1>9. ASSUME NEW c \in Browsers \ {b} PROVE SeenAt(c)'
  <2>1. /\ \A x \in AskedMsgs(c) \cup Of(c) \cup Coming(c) \cup requests[c] : x.req \in 1..MaxRequests
    BY KnownIds
  <2>2. /\ AskedMsgs(c)' \subseteq AskedMsgs(c) /\ Of(c)' \subseteq Of(c)
        /\ requests'[c] \subseteq requests[c] /\ Coming(c)' \subseteq Coming(c)
    BY <1>3, <1>5, <1>8
  <2> QED BY <1>7, <2>1, <2>2, SeenSame
<1>10. SeenAt(b)'
  <2>1. \A x \in AskedMsgs(b)' : PageOf(b, x.req)' # "idle" /\ AppOf(b, x.req)' = "unseen"
    BY <1>5, <1>7, KnownIds DEF SeenAt
  <2>2. ASSUME NEW q \in Of(b)'
        PROVE  AppOf(b, q.req)' \in IF q.persistent THEN {"open", "streaming"} ELSE {"open"}
    <3>1. CASE q \in Of(b)
      <4>1. q.req # m.req BY <1>1, <1>2, <1>4, <3>1 DEF OnePlace
      <4> QED BY <1>7, <3>1, <4>1, KnownIds DEF SeenAt
    <3>2. CASE q \notin Of(b) BY <1>5, <1>7, <1>8, <3>2
    <3> QED BY <3>1, <3>2
  <2>3. \A i \in requests'[b] : PageOf(b, i.req)' = IF i.persistent THEN "many" ELSE "once"
    BY <1>3, <1>7, KnownIds DEF SeenAt
  <2>4. ASSUME NEW t \in Coming(b)'
        PROVE  /\ ~t.ok => AppOf(b, t.req)' \in {"failed", "canceled", "refused"}
               /\ t.ok => \A i \in requests'[b] :
                            i.req = t.req /\ ~i.persistent => AppOf(b, t.req)' = "answered"
    <3>1. CASE t \in Coming(b)
      <4>1. t.req # m.req BY <1>1, <1>2, <1>4, <3>1 DEF OnePlace
      <4>2. AppOf(b, t.req)' = AppOf(b, t.req) BY <1>7, <3>1, <4>1, KnownIds
      <4> QED BY <1>3, <3>1, <4>2 DEF SeenAt
    <3>2. CASE t \notin Coming(b)
      <4>1. AppOf(b, t.req)' = "refused" /\ ~t.ok BY <1>5, <1>7, <1>8, <3>2
      <4> QED BY <4>1
    <3> QED BY <3>1, <3>2
  <2> QED BY <2>1, <2>2, <2>3, <2>4 DEF SeenAt
<1> QED BY <1>9, <1>10

\* A page that gives requests up, or whose callbacks run, has other requests as before.
LEMMA SeenPage ==
  ASSUME PlacesInv, \A b \in Browsers : SeenAt(b), NEW b \in Browsers, NEW I \in SUBSET requests[b],
         NEW s, s # "idle", RecordPage({<<b, epoch[b], i.req>> : i \in I}, s),
         requests'[b] \subseteq requests[b] \ I,
         \A c \in Browsers \ {b} : requests'[c] = requests[c],
         \A c \in Browsers : /\ AskedMsgs(c)' \subseteq AskedMsgs(c)
                             /\ Coming(c)' \subseteq Coming(c),
         UNCHANGED <<epoch, pending, app>>
  PROVE  \A c \in Browsers : SeenAt(c)'
<1>1. \A c \in Browsers, r \in 1..MaxRequests :
        PageOf(c, r)' = IF c = b /\ \E i \in I : i.req = r THEN s ELSE PageOf(c, r)
  BY RecordedPage
<1>2. \A c \in Browsers : /\ \A r : AppOf(c, r)' = AppOf(c, r)
                          /\ Of(c)' = Of(c)
  BY DEF AppOf, Of
<1> SUFFICES ASSUME NEW c \in Browsers PROVE SeenAt(c)' OBVIOUS
<1>3. \A m \in AskedMsgs(c)' : PageOf(c, m.req) # "idle" => PageOf(c, m.req)' # "idle"
  BY <1>1, KnownIds
<1>4. requests'[c] \subseteq requests[c] OBVIOUS
<1>5. \A i \in requests'[c] : PageOf(c, i.req)' = PageOf(c, i.req)
  <2> SUFFICES ASSUME NEW i \in requests'[c] PROVE PageOf(c, i.req)' = PageOf(c, i.req) OBVIOUS
  <2>1. i.req \in 1..MaxRequests BY <1>4, KnownIds
  <2>2. ASSUME c = b, NEW j \in I, j.req = i.req PROVE FALSE
    <3>1. i \in Known(b) /\ j \in Known(b) BY <1>4, <2>2, KnownParts
    <3>2. i = j BY <2>2, <3>1 DEF PlacesInv, OnePerId
    <3> QED BY <2>2, <3>2
  <2> QED BY <1>1, <2>1, <2>2
<1> QED BY <1>2, <1>3, <1>4, <1>5, SeenSame

\* Every step keeps what was seen in agreement with where each query is.
LEMMA NextSeenAt ==
  ASSUME PlacesInv, SeenInv, [Next]_vars
  PROVE  \A b \in Browsers : SeenAt(b)'
<1> USE DEF rendererVars, browserVars
<1>1. /\ TypeOK /\ PendingFinite /\ NothingFromTheDead /\ ContextsNumbered /\ OnePerId /\ OnePlace
      /\ NothingForTheDead /\ PendingCurrent
  BY DEF PlacesInv, EpochInv
<1>2. \A b \in Browsers : SeenAt(b) BY DEF SeenInv
<1>3. ASSUME UNCHANGED <<app, page, epoch, requests, pending, toBrowser>>,
             \A b \in Browsers : Coming(b)' \subseteq Coming(b)
      PROVE  \A b \in Browsers : SeenAt(b)'
  <2>1. \A b \in Browsers : /\ AskedMsgs(b)' = AskedMsgs(b) /\ Of(b)' = Of(b)
                            /\ \A r : AppOf(b, r)' = AppOf(b, r) /\ PageOf(b, r)' = PageOf(b, r)
    BY <1>3 DEF AskedMsgs, Asked, Of, AppOf, PageOf
  <2> QED BY <1>2, <1>3, <2>1, SeenSame
<1>4. CASE UNCHANGED vars BY <1>3, <1>4 DEF vars, Coming
<1>5. CASE Internal BY <1>3, <1>5 DEF Internal, Renderers
<1>6. ASSUME NEW S \in SUBSET pending, NEW s \in Ends, Ended(S, s)
      PROVE  \A b \in Browsers : SeenAt(b)'
  <2> TAKE b \in Browsers
  <2>1. /\ Record({UidOf(q) : q \in S}, s) /\ UNCHANGED <<toBrowser, epoch, page, requests>>
        /\ Of(b)' \subseteq Of(b) \ S
        /\ \A t \in Coming(b)' \ Coming(b) :
             \E q \in S : q.browser = b /\ Replies(t, q, s = "answered")
    BY <1>6 DEF Ended, Renderers, Of
  <2>2. AskedMsgs(b)' = AskedMsgs(b) /\ \A r : PageOf(b, r)' = PageOf(b, r)
    BY <2>1 DEF AskedMsgs, Asked, PageOf
  <2> QED BY <1>2, <2>1, <2>2, SeenEnds
<1>7. CASE \E q \in pending : Streamed(q) BY <1>2, <1>7, SeenStreamed
<1>8. CASE \E b \in Browsers : Refused(b) \/ \E h \in Handlers : Accepted(b, h)
  BY <1>2, <1>8, SeenRead
\* Queries are canceled and nothing is sent.
<1>9. ASSUME NEW S \in SUBSET pending, CancelQueries(S), NEW b \in Browsers, epoch'[b] = epoch[b],
             AskedMsgs(b)' \subseteq AskedMsgs(b), requests'[b] \subseteq requests[b],
             Coming(b)' \subseteq Coming(b),
             \A m \in AskedMsgs(b)' : PageOf(b, m.req) # "idle" => PageOf(b, m.req)' # "idle",
             \A i \in requests'[b] : PageOf(b, i.req)' = PageOf(b, i.req)
      PROVE  SeenAt(b)'
  <2>1. Record({UidOf(q) : q \in S}, "canceled") BY <1>9 DEF CancelQueries
  <2>2. Of(b)' \subseteq Of(b) \ S BY <1>9, CanceledOf
  <2>3. "canceled" \in Ends BY DEF Ends
  <2> QED BY <1>2, <1>9, <2>1, <2>2, <2>3, SeenEnds
<1>10. ASSUME NEW b \in Browsers, CancelReceived(b) PROVE \A c \in Browsers : SeenAt(c)'
  <2>1. /\ Receive(b, "cancel") /\ CancelQueries(CanceledBy(b, Head(toBrowser[b])))
        /\ UNCHANGED <<epoch, page, requests, renderTasks, toRenderer>>
    BY <1>10 DEF CancelReceived
  <2>2. /\ \A k \in Asked(b)' : k + 1 \in Asked(b) /\ toBrowser'[b][k] = toBrowser[b][k + 1]
        /\ \A c \in Browsers \ {b} : toBrowser'[c] = toBrowser[c]
    BY <1>1, <2>1, AskedRead
  <2>3. \A c \in Browsers : AskedMsgs(c)' \subseteq AskedMsgs(c)
    <3>1. \A c \in Browsers \ {b} : AskedMsgs(c)' = AskedMsgs(c) BY <2>2 DEF AskedMsgs, Asked
    <3>2. AskedMsgs(b)' \subseteq AskedMsgs(b)
      <4>1. \A k \in Asked(b)' : toBrowser'[b][k] \in AskedMsgs(b) BY <2>2 DEF AskedMsgs
      <4>2. AskedMsgs(b)' = {toBrowser'[b][k] : k \in Asked(b)'} BY DEF AskedMsgs
      <4> QED BY <4>1, <4>2
    <3> QED BY <3>1, <3>2
  <2>4. \A c \in Browsers : Coming(c)' = Coming(c) /\ \A r : PageOf(c, r)' = PageOf(c, r)
    BY <2>1 DEF Coming, PageOf
  <2>5. CanceledBy(b, Head(toBrowser[b])) \in SUBSET pending BY DEF CanceledBy
  <2> QED BY <1>9, <2>1, <2>3, <2>4, <2>5
<1>11. ASSUME NEW b \in Browsers, OnBeforeBrowse(b) \/ OnRenderProcessTerminated(b)
       PROVE  \A c \in Browsers : SeenAt(c)'
  <2>1. /\ CancelQueries(Matching({b}, Handlers)) /\ Matching({b}, Handlers) \in SUBSET pending
        /\ UNCHANGED <<epoch, page, requests, renderTasks, toRenderer, toBrowser>>
    BY <1>11 DEF OnBeforeBrowse, OnRenderProcessTerminated, CancelSilently, Matching
  <2>2. \A c \in Browsers : /\ AskedMsgs(c)' = AskedMsgs(c) /\ Coming(c)' = Coming(c)
                            /\ \A r : PageOf(c, r)' = PageOf(c, r)
    BY <2>1 DEF AskedMsgs, Asked, Coming, PageOf
  <2> QED BY <1>9, <2>1, <2>2
<1>12. ASSUME NEW b \in Browsers, ResetRenderer(b), epoch' = epoch
       PROVE  /\ requests'[b] = {} /\ Coming(b)' = {}
              /\ \A c \in Browsers \ {b} : requests'[c] = requests[c] /\ Coming(c)' = Coming(c)
              /\ \A c \in Browsers, r \in 1..MaxRequests :
                   /\ PageOf(c, r) # "idle" => PageOf(c, r)' # "idle"
                   /\ c # b => PageOf(c, r)' = PageOf(c, r)
  <2>1. RecordPage({<<b, epoch[b], i.req>> : i \in requests[b]}, "withdrawn")
    BY <1>12 DEF ResetRenderer
  <2>2. \A c \in Browsers, r \in 1..MaxRequests :
          PageOf(c, r)' = IF c = b /\ \E i \in requests[b] : i.req = r
                          THEN "withdrawn" ELSE PageOf(c, r)
    BY <1>12, <2>1, RecordedPage
  <2> QED BY <1>1, <1>12, <2>2, ResetTakes
<1>13. ASSUME NEW b \in Browsers, OnBeforeClose(b) PROVE \A c \in Browsers : SeenAt(c)'
  <2>1. ResetRenderer(b) /\ epoch' = epoch BY <1>13 DEF OnBeforeClose
  <2>2. toBrowser'[b] = <<>> /\ \A c \in Browsers \ {b} : toBrowser'[c] = toBrowser[c]
    BY <1>1, <1>13 DEF OnBeforeClose, TypeOK
  <2>3. \A c \in Browsers : AskedMsgs(c)' \subseteq AskedMsgs(c)
    BY <2>2 DEF AskedMsgs, Asked
  <2>4. \A c \in Browsers : \A m \in AskedMsgs(c)' :
          PageOf(c, m.req) # "idle" => PageOf(c, m.req)' # "idle"
    BY <1>12, <2>1, <2>3, KnownIds
  <2>5. \A c \in Browsers : \A i \in requests'[c] : PageOf(c, i.req)' = PageOf(c, i.req)
    BY <1>12, <2>1, KnownIds
  <2>6. \A c \in Browsers : requests'[c] \subseteq requests[c] /\ Coming(c)' \subseteq Coming(c)
    BY <1>12, <2>1
  <2>7. ASSUME NEW S \in SUBSET pending, CancelQueries(S) PROVE \A c \in Browsers : SeenAt(c)'
    BY <1>9, <2>1, <2>3, <2>4, <2>5, <2>6, <2>7
  <2>8. CASE UNCHANGED <<pending, app>>
    <3>1. \A c \in Browsers : Of(c)' = Of(c) /\ \A r : AppOf(c, r)' = AppOf(c, r)
      BY <2>1, <2>8 DEF Of, AppOf
    <3> QED BY <1>2, <2>3, <2>4, <2>5, <2>6, <3>1, SeenSame
  <2> QED BY <1>13, <2>7, <2>8 DEF OnBeforeClose, CloseInRouter, CloseInCefClient, Matching
<1>14. ASSUME NEW b \in Browsers, Crash(b) PROVE \A c \in Browsers : SeenAt(c)'
  <2>1. ResetRenderer(b) /\ UNCHANGED <<epoch, pending, app>> BY <1>14 DEF Crash
  <2>2. \A c \in Browsers : AskedMsgs(c)' \subseteq AskedMsgs(c)
    <3>1. PICK n \in 0..Len(toBrowser[b]) : toBrowser' = [toBrowser EXCEPT ![b] = SubSeq(@, 1, n)]
      BY <1>14 DEF Crash
    <3>2. /\ toBrowser'[b] = SubSeq(toBrowser[b], 1, n)
          /\ \A c \in Browsers \ {b} : toBrowser'[c] = toBrowser[c]
      BY <1>1, <3>1 DEF TypeOK
    <3>3. toBrowser[b] \in Seq(QueryMsg \cup CancelMsg) BY <1>1 DEF TypeOK
    <3>4. \A k \in DOMAIN toBrowser'[b] :
            k \in DOMAIN toBrowser[b] /\ toBrowser'[b][k] = toBrowser[b][k]
      BY <3>2, <3>3
    <3> QED BY <3>2, <3>4 DEF AskedMsgs, Asked
  <2>3. \A c \in Browsers : \A m \in AskedMsgs(c)' :
          PageOf(c, m.req) # "idle" => PageOf(c, m.req)' # "idle"
    BY <1>12, <2>1, <2>2, KnownIds
  <2>4. \A c \in Browsers : \A i \in requests'[c] : PageOf(c, i.req)' = PageOf(c, i.req)
    BY <1>12, <2>1, KnownIds
  <2>5. \A c \in Browsers : requests'[c] \subseteq requests[c] /\ Coming(c)' \subseteq Coming(c)
    BY <1>12, <2>1
  <2>6. \A c \in Browsers : Of(c)' = Of(c) /\ \A r : AppOf(c, r)' = AppOf(c, r)
    BY <2>1 DEF Of, AppOf
  <2> QED BY <1>2, <2>2, <2>3, <2>4, <2>5, <2>6, SeenSame
<1>15. ASSUME NEW b \in Browsers, Relaunch(b) PROVE \A c \in Browsers : SeenAt(c)'
  <2>1. /\ process[b] = "terminated" /\ \A c \in Browsers \ {b} : epoch'[c] = epoch[c]
        /\ UNCHANGED <<app, page, requests, pending, renderTasks, toBrowser, toRenderer>>
    BY <1>1, <1>15 DEF Relaunch, TypeOK
  <2>2. /\ requests'[b] = {} /\ toBrowser'[b] = <<>> /\ Of(b)' = {}
        /\ toRenderer'[b] = <<>> /\ renderTasks'[b] = <<>>
    BY <1>1, <2>1 DEF NothingFromTheDead, NothingForTheDead, PendingCurrent, Of
  <2>3. AskedMsgs(b)' = {} /\ Coming(b)' = {} BY <2>2 DEF AskedMsgs, Asked, Coming, Elements
  <2>4. SeenAt(b)' BY <2>2, <2>3 DEF SeenAt
  <2>5. \A c \in Browsers \ {b} :
          /\ AskedMsgs(c)' = AskedMsgs(c) /\ Of(c)' = Of(c) /\ Coming(c)' = Coming(c)
          /\ \A r : AppOf(c, r)' = AppOf(c, r) /\ PageOf(c, r)' = PageOf(c, r)
    BY <2>1 DEF AskedMsgs, Asked, Of, Coming, AppOf, PageOf
  <2>6. \A c \in Browsers \ {b} : SeenAt(c)' BY <1>2, <2>1, <2>5, SeenSame
  <2> QED BY <2>4, <2>6
<1>16. ASSUME NEW b \in Browsers, ExecuteCallback(b) PROVE \A c \in Browsers : SeenAt(c)'
  <2> DEFINE t == Head(renderTasks[b])
             found == Answered(b, t)
  <2>1. PICK s \in {"withdrawn", "succeeded", "failed"} :
          RecordPage({<<b, epoch[b], i.req>> : i \in found}, s)
    BY <1>16 DEF ExecuteCallback
  <2>2. /\ UNCHANGED <<epoch, pending, app, toBrowser>>
        /\ requests'[b] = requests[b] \ found
        /\ \A c \in Browsers \ {b} : requests'[c] = requests[c]
    BY <1>1, <1>16 DEF ExecuteCallback, TypeOK
  <2>3. found \in SUBSET requests[b] BY DEF Answered
  <2> HIDE DEF found
  <2>4. \A c \in Browsers : Coming(c)' \subseteq Coming(c) /\ AskedMsgs(c)' = AskedMsgs(c)
    BY <1>1, <1>16, <2>2, ComingTaken DEF AskedMsgs, Asked
  <2> QED BY <1>2, <2>1, <2>2, <2>3, <2>4, SeenPage
<1>17. ASSUME NEW b \in Browsers, NEW f \in Frames, OnContextCreated(b, f)
       PROVE  \A c \in Browsers : SeenAt(c)'
  BY <1>3, <1>17 DEF OnContextCreated, Coming
<1>18. ASSUME NEW b \in Browsers, NEW c \in Nat, NEW r \in Nat, SendCancel(b, c, r),
              UNCHANGED <<epoch, pending, app, renderTasks, toRenderer>>
       PROVE  \A d \in Browsers : SeenAt(d)'
  <2>1. /\ requests'[b] = requests[b] \ Abandoned(b, c, r)
        /\ \A d \in Browsers \ {b} : toBrowser'[d] = toBrowser[d] /\ requests'[d] = requests[d]
    BY <1>1, <1>18, CancelWritten
  <2>2. RecordPage({<<b, epoch[b], i.req>> : i \in Abandoned(b, c, r)}, "withdrawn")
    BY <1>18 DEF SendCancel
  <2>3. \A d \in Browsers : AskedMsgs(d)' \subseteq AskedMsgs(d)
    <3>1. \A k \in Asked(b)' : /\ k + 0 = k /\ k + 0 \in Asked(b)
                               /\ toBrowser'[b][k] = toBrowser[b][k + 0]
      BY <1>1, <1>18, AskedCancel
    <3>2. AskedMsgs(b)' \subseteq AskedMsgs(b) BY <3>1 DEF AskedMsgs
    <3> QED BY <2>1, <3>2 DEF AskedMsgs, Asked
  <2>4. \A d \in Browsers : Coming(d)' = Coming(d) BY <1>18 DEF Coming
  <2>5. Abandoned(b, c, r) \in SUBSET requests[b] BY DEF Abandoned
  <2> QED BY <1>2, <1>18, <2>1, <2>2, <2>3, <2>4, <2>5, SeenPage
<1>19. ASSUME NEW b \in Browsers, NEW f \in Frames, OnContextReleased(b, f)
       PROVE  \A c \in Browsers : SeenAt(c)'
  <2>1. CASE context[b][f] = kReservedId
    BY <1>3, <1>19, <2>1 DEF OnContextReleased, Coming
  <2>2. CASE context[b][f] # kReservedId
    <3>1. context[b][f] \in Nat /\ kReservedId \in Nat
      BY <1>1, <1>19 DEF TypeOK, OnContextReleased, kReservedId
    <3> QED BY <1>18, <1>19, <2>2, <3>1 DEF OnContextReleased
  <2> QED BY <2>1, <2>2
<1>20. ASSUME NEW b \in Browsers, NEW f \in Frames, NEW r \in 1..MaxRequests, CefQueryCancel(b, f, r)
       PROVE  \A c \in Browsers : SeenAt(c)'
  <2>1. ContextId(b, f) \in Nat
    BY <1>1, <1>20 DEF TypeOK, CefQueryCancel, UseContext, ContextId
  <2>2. r \in Nat BY Bounds
  <2> QED BY <1>18, <1>20, <2>1, <2>2 DEF CefQueryCancel
<1>21. ASSUME NEW b \in Browsers, NEW f \in Frames, NEW persistent \in Persistence,
              CefQuery(b, f, persistent)
       PROVE  \A d \in Browsers : SeenAt(d)'
  <2>1. PICK c \in Nat, r \in Nat, n \in Nat : Sent(b, f, persistent, c, r, n)
    BY <1>1, <1>21, QuerySent
  <2>2. PICK s : s = IF persistent THEN "many" ELSE "once" OBVIOUS
  <2>3. /\ r = nextRequest[b] + 1 /\ r \in 1..MaxRequests /\ process[b] = "up"
        /\ UNCHANGED <<epoch, pending, app>>
    BY <2>1 DEF Sent
  <2>4. /\ \A d \in Browsers, x \in 1..MaxRequests :
             PageOf(d, x)' = IF d = b /\ x = r THEN s ELSE PageOf(d, x)
        /\ \A d \in Browsers : Of(d)' = Of(d) /\ Coming(d)' = Coming(d)
        /\ \A d \in Browsers, x \in 1..MaxRequests : AppOf(d, x)' = AppOf(d, x)
    <3>1. RecordPage({<<b, epoch[b], r>>}, s) BY <1>21, <2>2, <2>3 DEF CefQuery
    <3>2. \A d \in Browsers, x \in 1..MaxRequests : <<d, epoch[d], x>> \in Uid BY KnownIds
    <3> QED BY <2>1, <2>3, <3>1, <3>2 DEF RecordPage, PageOf, AppOf, Sent
  <2>5. ASSUME NEW d \in Browsers \ {b} PROVE SeenAt(d)'
    <3>1. AskedMsgs(d)' = AskedMsgs(d) /\ requests'[d] = requests[d]
      BY <2>1 DEF Sent, AskedMsgs, Asked
    <3> QED BY <1>2, <2>4, <3>1, SeenSame, KnownIds
  <2>6. nextRequest[b] \in Nat BY <1>1, Bounds DEF TypeOK
  <2>7. /\ \A x \in AskedMsgs(b) \cup Of(b) \cup requests[b] \cup Coming(b) :
             x.req \in 1..MaxRequests /\ x.req # r
    <3>1. \A x \in Known(b) : x.req \in 1..MaxRequests /\ x.req <= nextRequest[b]
      BY <1>1, <2>3 DEF OnePerId
    <3>2. \A t \in Coming(b) : t.req \in 1..MaxRequests /\ t.req <= nextRequest[b]
      BY <1>1, <2>3 DEF OnePerId
    <3>3. \A x \in 1..MaxRequests : x <= nextRequest[b] => x # r BY <2>3, <2>6, Bounds
    <3> QED BY <3>1, <3>2, <3>3, KnownParts DEF AskedMsgs
  <2>8. PageOf(b, r) = "idle" /\ AppOf(b, r) = "unseen"
    <3>1. <<b, epoch[b], r>> \in Uid BY <2>3, KnownIds
    <3>2. Fresh(<<b, epoch[b], r>>) BY <2>3, <2>6 DEF Fresh
    <3> QED BY <3>1, <3>2 DEF SeenInv, FreshUnseen, PageOf, AppOf
  <2>9. SeenAt(b)'
    <3>1. ASSUME NEW m \in AskedMsgs(b)' PROVE PageOf(b, m.req)' # "idle" /\ AppOf(b, m.req)' = "unseen"
      <4>1. m \in AskedMsgs(b) \/ m.req = r BY <2>1 DEF Sent, AskedMsgs, Asked
      <4>2. CASE m.req = r BY <2>2, <2>3, <2>4, <2>8, <4>2
      <4>3. CASE m \in AskedMsgs(b) BY <1>2, <2>4, <2>7, <4>3 DEF SeenAt
      <4> QED BY <4>1, <4>2, <4>3
    <3>2. \A q \in Of(b)' :
            AppOf(b, q.req)' \in IF q.persistent THEN {"open", "streaming"} ELSE {"open"}
      BY <1>2, <2>4, <2>7 DEF SeenAt
    <3>3. ASSUME NEW i \in requests'[b]
          PROVE  PageOf(b, i.req)' = IF i.persistent THEN "many" ELSE "once"
      <4>1. i \in requests[b] \/ (i.req = r /\ i.persistent = persistent) BY <2>1 DEF Sent
      <4>2. CASE i \in requests[b] BY <1>2, <2>4, <2>7, <4>2 DEF SeenAt
      <4>3. CASE i.req = r /\ i.persistent = persistent BY <2>2, <2>3, <2>4, <4>3
      <4> QED BY <4>1, <4>2, <4>3
    <3>4. ASSUME NEW t \in Coming(b)'
          PROVE  /\ ~t.ok => AppOf(b, t.req)' \in {"failed", "canceled", "refused"}
                 /\ t.ok => \A i \in requests'[b] :
                              i.req = t.req /\ ~i.persistent => AppOf(b, t.req)' = "answered"
      <4>1. t \in Coming(b) /\ t.req # r /\ AppOf(b, t.req)' = AppOf(b, t.req) BY <2>4, <2>7
      <4>2. \A i \in requests'[b] : i.req = t.req => i \in requests[b] BY <2>1, <4>1 DEF Sent
      <4> QED BY <1>2, <4>1, <4>2 DEF SeenAt
    <3> QED BY <3>1, <3>2, <3>3, <3>4 DEF SeenAt
  <2> QED BY <2>5, <2>9
<1> QED BY <1>1, <1>4, <1>5, <1>6, <1>7, <1>8, <1>10, <1>11, <1>13, <1>14, <1>15, <1>16, <1>17, <1>19,
           <1>20, <1>21, StepEffects


\* An id that is still to be given out was still to be given out before.
LEMMA FreshBefore ==
  ASSUME PlacesInv, [Next]_vars, NEW u \in Uid, Fresh(u)'
  PROVE  Fresh(u)
<1> USE DEF rendererVars, browserVars
<1>1. TypeOK /\ PendingFinite BY DEF PlacesInv, EpochInv
<1> DEFINE b == u[1]
<1>2. /\ b \in Browsers /\ u[2] \in Nat /\ u[3] \in Nat /\ epoch[b] \in Nat /\ nextRequest[b] \in Nat
  BY <1>1, Bounds DEF TypeOK, Uid
<1>3. ASSUME epoch'[b] = epoch[b],
             process'[b] = "up" => process[b] = "up" /\ nextRequest'[b] = nextRequest[b]
      PROVE  Fresh(u)
  BY <1>3 DEF Fresh
<1>4. CASE UNCHANGED <<epoch, process, nextRequest>> BY <1>3, <1>4
<1>5. ASSUME NEW c \in Browsers, ResetRenderer(c), epoch' = epoch, NEW s, s # "up",
             process' = [process EXCEPT ![c] = s]
      PROVE  Fresh(u)
  <2>1. process'[c] = s /\ \A d \in Browsers \ {c} : process'[d] = process[d] BY <1>1, <1>5 DEF TypeOK
  <2>2. \A d \in Browsers \ {c} : nextRequest'[d] = nextRequest[d] BY <1>1, <1>5, ResetTakes
  <2> QED BY <1>2, <1>3, <1>5, <2>1, <2>2
<1>6. CASE \E c \in Browsers : OnBeforeClose(c) \/ Crash(c)
  BY <1>5, <1>6 DEF OnBeforeClose, Crash
<1>7. CASE \E c \in Browsers : OnRenderProcessTerminated(c)
  <2>1. PICK c \in Browsers : /\ process' = [process EXCEPT ![c] = "terminated"]
                              /\ UNCHANGED <<epoch, nextRequest>>
    BY <1>7 DEF OnRenderProcessTerminated
  <2>2. process'[b] = "terminated" \/ process'[b] = process[b] BY <1>1, <1>2, <2>1 DEF TypeOK
  <2> QED BY <1>3, <2>1, <2>2
<1>8. CASE \E c \in Browsers : Relaunch(c)
  <2>1. PICK c \in Browsers : /\ process' = [process EXCEPT ![c] = "up"]
                              /\ epoch' = [epoch EXCEPT ![c] = @ + 1] /\ nextRequest' = nextRequest
    BY <1>8 DEF Relaunch
  <2>2. CASE b = c
    <3>1. epoch'[b] = epoch[b] + 1 BY <1>1, <2>1, <2>2 DEF TypeOK
    <3>2. u[2] >= epoch[b] + 1 BY <1>2, <3>1 DEF Fresh
    <3> QED BY <1>2, <3>2 DEF Fresh
  <2>3. CASE b # c
    <3>1. epoch'[b] = epoch[b] /\ process'[b] = process[b] BY <1>1, <1>2, <2>1, <2>3 DEF TypeOK
    <3> QED BY <1>3, <2>1, <3>1
  <2> QED BY <2>2, <2>3
<1>9. CASE \E c \in Browsers, f \in Frames, persistent \in Persistence : CefQuery(c, f, persistent)
  <2>1. PICK c \in Browsers : /\ nextRequest' = [nextRequest EXCEPT ![c] = nextRequest[c] + 1]
                              /\ UNCHANGED <<epoch, process>>
    BY <1>9 DEF CefQuery
  <2>2. nextRequest'[b] = nextRequest[b] \/ nextRequest'[b] = nextRequest[b] + 1
    BY <1>1, <1>2, <2>1 DEF TypeOK
  <2> QED BY <1>2, <2>1, <2>2 DEF Fresh
<1>10. CASE UNCHANGED vars BY <1>4, <1>10 DEF vars
<1>11. CASE Internal BY <1>4, <1>11 DEF Internal, Renderers
<1>12. ASSUME NEW S, NEW s, Ended(S, s) PROVE Fresh(u) BY <1>4, <1>12 DEF Ended, Renderers
<1>13. CASE \E q \in pending : Streamed(q) BY <1>4, <1>13 DEF Streamed, Renderers
<1>14. CASE \E c \in Browsers, h \in Handlers : Accepted(c, h) BY <1>4, <1>14 DEF Accepted, Renderers
<1>15. CASE \E c \in Browsers : \/ Refused(c) \/ CancelReceived(c)
                                \/ OnBeforeBrowse(c) \/ ExecuteCallback(c)
  BY <1>4, <1>15 DEF Refused, Renderers, CancelReceived, OnBeforeBrowse, ExecuteCallback
<1>16. CASE \E c \in Browsers, f \in Frames :
              \/ OnContextCreated(c, f) \/ OnContextReleased(c, f)
              \/ \E r \in 1..MaxRequests : CefQueryCancel(c, f, r)
  BY <1>4, <1>16 DEF OnContextCreated, OnContextReleased, CefQueryCancel
<1> QED BY <1>1, <1>6, <1>7, <1>8, <1>9, <1>10, <1>11, <1>12, <1>13, <1>14, <1>15, <1>16, StepEffects

\* To the contract, recording nothing is no change.
LEMMA Unrecorded ==
  ASSUME TypeOK
  PROVE  \A s : app = Contract!Set(app, {}, s) /\ page = Contract!Set(page, {}, s)
BY DEF TypeOK, Contract!Set

\* What was seen of a pending query, of a request that waits, and of a query message.
LEMMA SeenOf ==
  ASSUME PlacesInv, SeenInv
  PROVE  /\ \A q \in pending : /\ UidOf(q) \in Uid
                               /\ app[UidOf(q)] \in Contract!Live
                               /\ ~q.persistent => app[UidOf(q)] = "open"
         /\ \A b \in Browsers : \A i \in requests[b] :
              /\ <<b, epoch[b], i.req>> \in Uid
              /\ page[<<b, epoch[b], i.req>>] = IF i.persistent THEN "many" ELSE "once"
         /\ \A b \in Browsers : \A m \in AskedMsgs(b) :
              /\ <<b, epoch[b], m.req>> \in Uid
              /\ page[<<b, epoch[b], m.req>>] # "idle" /\ app[<<b, epoch[b], m.req>>] = "unseen"
<1>1. \A b \in Browsers : SeenAt(b) BY DEF SeenInv
<1>2. ASSUME NEW q \in pending
      PROVE  /\ UidOf(q) \in Uid
             /\ app[UidOf(q)] \in Contract!Live
             /\ ~q.persistent => app[UidOf(q)] = "open"
  <2>1. q.browser \in Browsers /\ q \in Of(q.browser)
    BY DEF PlacesInv, EpochInv, TypeOK, QueryInfo, Of
  <2>2. UidOf(q) \in Uid /\ UidOf(q) = <<q.browser, epoch[q.browser], q.req>> BY <2>1, KnownIds
  <2>3. AppOf(q.browser, q.req) \in IF q.persistent THEN {"open", "streaming"} ELSE {"open"}
    BY <1>1, <2>1 DEF SeenAt
  <2> QED BY <2>2, <2>3 DEF AppOf, Contract!Live
<1>3. ASSUME NEW b \in Browsers
      PROVE  /\ \A i \in requests[b] :
                  /\ <<b, epoch[b], i.req>> \in Uid
                  /\ page[<<b, epoch[b], i.req>>] = IF i.persistent THEN "many" ELSE "once"
             /\ \A m \in AskedMsgs(b) :
                  /\ <<b, epoch[b], m.req>> \in Uid
                  /\ page[<<b, epoch[b], m.req>>] # "idle" /\ app[<<b, epoch[b], m.req>>] = "unseen"
  BY <1>1, KnownIds DEF SeenAt, PageOf, AppOf
<1> QED BY <1>2, <1>3

\* A step of the contract that is not a page's asking a query, or one that neither side sees.
NoneAsked ==
  \/ UNCHANGED <<page, app>>
  \/ \E u \in Uid : \/ Contract!Accept(u) \/ Contract!Refuse(u)
                    \/ Contract!Answer(u) \/ Contract!Stream(u) \/ Contract!Fail(u)
                    \/ Contract!Succeed(u) \/ Contract!Reject(u)
  \/ \E ws, cs \in SUBSET Uid : Contract!Abandon(ws, cs)

\* Queries given up by a page, canceled at the browser, or both.
LEMMA AbandonStep ==
  ASSUME PlacesInv, SeenInv, NEW b \in Browsers, NEW I \in SUBSET requests[b],
         NEW S \in SUBSET pending,
         RecordPage({<<b, epoch[b], i.req>> : i \in I}, "withdrawn"),
         Record({UidOf(q) : q \in S}, "canceled")
  PROVE  NoneAsked
<1> DEFINE ws == {<<b, epoch[b], i.req>> : i \in I}
           cs == {UidOf(q) : q \in S}
<1>1. ws \in SUBSET Uid /\ \A u \in ws : page[u] \in Contract!Waiting
  BY SeenOf DEF Contract!Waiting
<1>2. cs \in SUBSET Uid /\ \A u \in cs : app[u] \in Contract!Live BY SeenOf
<1>3. page' = Contract!Set(page, ws, "withdrawn") BY DEF RecordPage, Contract!Set
<1>4. app' = Contract!Set(app, cs, "canceled") BY DEF Record, Contract!Set
<1> HIDE DEF ws, cs
<1>5. Contract!Abandon(ws, cs) BY <1>1, <1>2, <1>3, <1>4 DEF Contract!Abandon
<1> QED BY <1>1, <1>2, <1>5 DEF NoneAsked

\* ... by the page alone, ...
LEMMA WithdrawStep ==
  ASSUME PlacesInv, SeenInv, NEW b \in Browsers, NEW I \in SUBSET requests[b],
         RecordPage({<<b, epoch[b], i.req>> : i \in I}, "withdrawn"), app' = app
  PROVE  NoneAsked
<1>1. TypeOK BY DEF PlacesInv, EpochInv
<1>2. Record({}, "canceled") BY <1>1 DEF Record, TypeOK
<1>3. {UidOf(q) : q \in {}} = {} OBVIOUS
<1>4. Record({UidOf(q) : q \in {}}, "canceled") BY <1>2, <1>3
<1> QED BY <1>4, AbandonStep

\* ... or by the browser alone.
LEMMA CancelStep ==
  ASSUME PlacesInv, SeenInv, NEW S \in SUBSET pending,
         Record({UidOf(q) : q \in S}, "canceled"), page' = page
  PROVE  NoneAsked
<1>1. TypeOK BY DEF PlacesInv, EpochInv
<1>2. CASE S = {}
  <2>1. {UidOf(q) : q \in S} = {} BY <1>2
  <2>2. Record({}, "canceled") BY <2>1
  <2>3. app' = app BY <1>1, <2>2 DEF Record, TypeOK
  <2> QED BY <2>3 DEF NoneAsked
<1>3. CASE S # {}
  <2>1. PICK q \in S : TRUE BY <1>3
  <2>2. q.browser \in Browsers BY <1>1 DEF TypeOK, QueryInfo
  <2>3. RecordPage({}, "withdrawn") BY <1>1 DEF RecordPage, TypeOK
  <2>4. {<<q.browser, epoch[q.browser], i.req>> : i \in {}} = {} OBVIOUS
  <2>5. RecordPage({<<q.browser, epoch[q.browser], i.req>> : i \in {}}, "withdrawn") BY <2>3, <2>4
  <2>6. {} \in SUBSET requests[q.browser] OBVIOUS
  <2> QED BY <2>2, <2>5, <2>6, AbandonStep
<1> QED BY <1>2, <1>3

\* The query at the head of a pipe is seen by the application for the first time.
LEMMA ReadStep ==
  ASSUME PlacesInv, SeenInv, NEW b \in Browsers,
         (\E h \in Handlers : Accepted(b, h)) \/ Refused(b)
  PROVE  NoneAsked
<1>1. TypeOK BY DEF PlacesInv, EpochInv
<1>2. PICK m : m = toBrowser[b][1] OBVIOUS
<1>3. Receive(b, "query") /\ page' = page BY DEF Accepted, Refused, Renderers
<1>4. 1 \in Asked(b) /\ Head(toBrowser[b]) = m BY <1>1, <1>2, <1>3, ReadMessage DEF Asked
<1>5. m \in AskedMsgs(b) BY <1>2, <1>4 DEF AskedMsgs
<1>6. PICK u : u = <<b, epoch[b], m.req>> OBVIOUS
<1>7. u \in Uid /\ page[u] # "idle" /\ app[u] = "unseen" BY <1>5, <1>6, SeenOf
<1>8. CASE Refused(b)
  <2>1. Record({u}, "refused") BY <1>4, <1>6, <1>8 DEF Refused
  <2>2. app' = Contract!Set(app, {u}, "refused") BY <2>1 DEF Record, Contract!Set
  <2>3. Contract!Refuse(u) BY <1>3, <1>7, <2>2 DEF Contract!Refuse
  <2> QED BY <1>7, <2>3 DEF NoneAsked
<1>9. CASE \E h \in Handlers : Accepted(b, h)
  <2>1. PICK h \in Handlers : Record({UidOf(NewQuery(b, h))}, "open") BY <1>9 DEF Accepted
  <2>2. UidOf(NewQuery(b, h)) = u BY <1>4, <1>6 DEF UidOf, NewQuery
  <2>3. app' = Contract!Set(app, {u}, "open") BY <2>1, <2>2 DEF Record, Contract!Set
  <2>4. Contract!Accept(u) BY <1>3, <1>7, <2>3 DEF Contract!Accept
  <2> QED BY <1>7, <2>4 DEF NoneAsked
<1> QED BY <1>8, <1>9

\* Queries end at the browser, or one is sent a further answer.
LEMMA EndStep ==
  ASSUME PlacesInv, SeenInv,
         \/ \E S \in SUBSET pending, s \in Ends : Ended(S, s)
         \/ \E q \in pending : Streamed(q)
  PROVE  NoneAsked
<1>1. ASSUME NEW S \in SUBSET pending, Ended(S, "canceled") PROVE NoneAsked
  <2>1. Record({UidOf(q) : q \in S}, "canceled") /\ page' = page BY <1>1 DEF Ended, Renderers
  <2> QED BY <2>1, CancelStep
<1>2. ASSUME NEW q \in pending, NEW s, Record({UidOf(q)}, s)
      PROVE  app' = Contract!Set(app, {UidOf(q)}, s)
  BY <1>2 DEF Record, Contract!Set
<1>3. ASSUME NEW S \in SUBSET pending, NEW s \in {"answered", "failed"}, Ended(S, s)
      PROVE  NoneAsked
  <2>1. PICK q \in pending : S = {q} BY <1>3 DEF Ended
  <2>2. {UidOf(p) : p \in S} = {UidOf(q)} BY <2>1
  <2>3. Record({UidOf(q)}, s) /\ page' = page BY <1>3, <2>2 DEF Ended, Renderers
  <2>4. app' = Contract!Set(app, {UidOf(q)}, s) BY <1>2, <2>3
  <2>5. UidOf(q) \in Uid /\ app[UidOf(q)] \in Contract!Live BY SeenOf
  <2>6. CASE s = "answered"
    <3>1. ~q.persistent BY <1>3, <2>1, <2>6 DEF Ended
    <3>2. app[UidOf(q)] = "open" BY <3>1, SeenOf
    <3>3. Contract!Answer(UidOf(q)) BY <2>3, <2>4, <2>6, <3>2 DEF Contract!Answer
    <3> QED BY <2>5, <3>3 DEF NoneAsked
  <2>7. CASE s = "failed"
    <3>1. Contract!Fail(UidOf(q)) BY <2>3, <2>4, <2>5, <2>7 DEF Contract!Fail
    <3> QED BY <2>5, <3>1 DEF NoneAsked
  <2> QED BY <2>6, <2>7
<1>4. ASSUME NEW q \in pending, Streamed(q) PROVE NoneAsked
  <2>1. Record({UidOf(q)}, "streaming") /\ page' = page BY <1>4 DEF Streamed, Renderers
  <2>2. app' = Contract!Set(app, {UidOf(q)}, "streaming") BY <1>2, <2>1
  <2>3. UidOf(q) \in Uid /\ app[UidOf(q)] \in Contract!Live BY SeenOf
  <2>4. Contract!Stream(UidOf(q)) BY <2>1, <2>2, <2>3 DEF Contract!Stream
  <2> QED BY <2>3, <2>4 DEF NoneAsked
<1> QED BY <1>1, <1>3, <1>4 DEF Ends

\* A response runs the callback of one request that waits for it, and whose context lives.
LEMMA ExecuteStep ==
  ASSUME PlacesInv, SeenInv, NEW b \in Browsers, ExecuteCallback(b)
  PROVE  NoneAsked
<1>1. TypeOK /\ ContextsNumbered /\ OnePerId /\ SeenAt(b) BY DEF PlacesInv, EpochInv, SeenInv
<1>2. PICK t : t = Head(renderTasks[b]) OBVIOUS
<1>3. t \in Coming(b) BY <1>1, <1>2, ComingTaken
<1>4. PICK found : found = Answered(b, t) OBVIOUS
<1>5. PICK seen : /\ RecordPage({<<b, epoch[b], i.req>> : i \in found}, seen)
                  /\ seen = IF \A f \in Frames : context[b][f] # t.ctx THEN "withdrawn"
                            ELSE IF t.ok THEN "succeeded" ELSE "failed"
  BY <1>2, <1>4 DEF ExecuteCallback
<1>6. app' = app BY DEF ExecuteCallback, browserVars
<1>7. found \in SUBSET requests[b] /\ \A i \in found : /\ i.ctx = t.ctx /\ i.req = t.req
                                                       /\ ~(t.ok /\ i.persistent)
  BY <1>4 DEF Answered
<1>8. CASE found = {}
  <2>1. {<<b, epoch[b], i.req>> : i \in found} = {} BY <1>8
  <2>2. RecordPage({}, seen) BY <1>5, <2>1
  <2>3. page' = page BY <1>1, <2>2 DEF RecordPage, TypeOK
  <2> QED BY <1>6, <2>3 DEF NoneAsked
<1>9. CASE found # {}
  <2>1. PICK i \in found : TRUE BY <1>9
  <2>2. PICK u : u = <<b, epoch[b], i.req>> OBVIOUS
  <2>3. {<<b, epoch[b], j.req>> : j \in found} = {u} BY <1>7, <2>1, <2>2
  <2>4. /\ u \in Uid /\ page[u] = IF i.persistent THEN "many" ELSE "once"
        /\ i \in requests[b]
    BY <1>7, <2>1, <2>2, SeenOf
  <2>5. \E f \in Frames : context[b][f] = t.ctx BY <1>1, <1>7, <2>1, <2>4 DEF ContextsNumbered
  <2>6. page' = Contract!Set(page, {u}, IF t.ok THEN "succeeded" ELSE "failed")
    BY <1>5, <2>3, <2>5 DEF RecordPage, Contract!Set
  <2>7. app[u] = AppOf(b, t.req) BY <1>7, <2>1, <2>2 DEF AppOf
  <2>8. t.ok \in BOOLEAN
    <3>1. t \in Response BY <1>1, <1>2, ComingTaken
    <3> QED BY <3>1 DEF Response
  <2>9. CASE t.ok
    <3>1. ~i.persistent /\ app[u] = "answered" BY <1>1, <1>3, <1>7, <2>1, <2>4, <2>7, <2>9 DEF SeenAt
    <3>2. Contract!Succeed(u) BY <1>6, <2>4, <2>6, <2>9, <3>1 DEF Contract!Succeed
    <3> QED BY <2>4, <3>2 DEF NoneAsked
  <2>10. CASE ~t.ok
    <3>1. app[u] \in {"failed", "canceled", "refused"} BY <1>1, <1>3, <2>7, <2>10 DEF SeenAt
    <3>2. Contract!Reject(u)
      BY <1>6, <2>4, <2>6, <2>10, <3>1 DEF Contract!Reject, Contract!Waiting
    <3> QED BY <2>4, <3>2 DEF NoneAsked
  <2> QED BY <2>8, <2>9, <2>10
<1> QED BY <1>8, <1>9

\* A page asks a query, whose id is still to be given out.
LEMMA AskStep ==
  ASSUME PlacesInv, SeenInv, NEW b \in Browsers, NEW f \in Frames, NEW persistent \in Persistence,
         CefQuery(b, f, persistent)
  PROVE  \E u \in Uid, kind \in Contract!Waiting : Contract!Ask(u, kind) /\ ~Fresh(u)'
<1>1. TypeOK BY DEF PlacesInv, EpochInv
<1>2. PICK c \in Nat, r \in Nat, n \in Nat : Sent(b, f, persistent, c, r, n) BY <1>1, QuerySent
<1>3. /\ r = nextRequest[b] + 1 /\ r \in 1..MaxRequests /\ process[b] = "up"
      /\ nextRequest' = [nextRequest EXCEPT ![b] = r]
      /\ UNCHANGED <<epoch, pending, app, process>>
  BY <1>2 DEF Sent
<1>4. nextRequest[b] \in Nat /\ nextRequest'[b] = r /\ epoch[b] \in 1..MaxEpoch
  BY <1>1, <1>3, Bounds DEF TypeOK
<1>5. PICK u : u = <<b, epoch[b], r>> OBVIOUS
<1>6. u \in Uid /\ Fresh(u) /\ ~Fresh(u)'
  <2>1. u[1] = b /\ u[2] = epoch[b] /\ u[3] = r BY <1>5
  <2>2. epoch[b] \in Nat BY <1>4, Bounds
  <2> QED BY <1>3, <1>4, <1>5, <2>1, <2>2 DEF Fresh, Uid
<1>7. page[u] = "idle" BY <1>6 DEF SeenInv, FreshUnseen
<1>8. PICK kind \in Contract!Waiting : kind = IF persistent THEN "many" ELSE "once"
  BY DEF Contract!Waiting
<1>9. RecordPage({u}, kind) BY <1>3, <1>5, <1>8 DEF CefQuery
<1>10. page' = Contract!Set(page, {u}, kind) BY <1>9 DEF RecordPage, Contract!Set
<1>11. Contract!Ask(u, kind) BY <1>3, <1>7, <1>10 DEF Contract!Ask
<1> QED BY <1>6, <1>8, <1>11

\* Every other step withdraws requests, cancels queries, or is not seen by either side.
LEMMA NextContract ==
  ASSUME PlacesInv, SeenInv, [Next]_vars
  PROVE  \/ NoneAsked
         \/ \E u \in Uid, kind \in Contract!Waiting : Contract!Ask(u, kind) /\ ~Fresh(u)'
<1> USE DEF rendererVars, browserVars
<1>1. TypeOK /\ PendingFinite BY DEF PlacesInv, EpochInv
<1>2. ASSUME UNCHANGED <<page, app>> PROVE NoneAsked
  BY <1>2 DEF NoneAsked
<1>3. CASE UNCHANGED vars BY <1>2, <1>3 DEF vars
<1>4. CASE Internal BY <1>2, <1>4 DEF Internal, Renderers
<1>5. CASE \/ \E S \in SUBSET pending, s \in Ends : Ended(S, s)
           \/ \E q \in pending : Streamed(q)
  BY <1>5, EndStep
<1>6. CASE \E b \in Browsers : Refused(b) \/ \E h \in Handlers : Accepted(b, h)
  BY <1>6, ReadStep
<1>7. CASE \E b \in Browsers : \/ CancelReceived(b) \/ OnBeforeBrowse(b)
                               \/ OnRenderProcessTerminated(b)
  <2>1. PICK S \in SUBSET pending : CancelQueries(S) /\ page' = page
    BY <1>7 DEF CancelReceived, OnBeforeBrowse, OnRenderProcessTerminated, CancelSilently,
                CanceledBy, Matching
  <2> QED BY <2>1, CancelStep DEF CancelQueries
<1>8. ASSUME NEW b \in Browsers, OnBeforeClose(b) PROVE NoneAsked
  <2>1. RecordPage({<<b, epoch[b], i.req>> : i \in requests[b]}, "withdrawn")
    BY <1>8 DEF OnBeforeClose, ResetRenderer
  <2>2. app' = app \/ \E S \in SUBSET pending : Record({UidOf(q) : q \in S}, "canceled")
    BY <1>8 DEF OnBeforeClose, CloseInRouter, CloseInCefClient, Matching, CancelQueries
  <2> QED BY <2>1, <2>2, AbandonStep, WithdrawStep
<1>9. ASSUME NEW b \in Browsers, Crash(b) PROVE NoneAsked
  <2>1. RecordPage({<<b, epoch[b], i.req>> : i \in requests[b]}, "withdrawn") /\ app' = app
    BY <1>9 DEF Crash, ResetRenderer
  <2> QED BY <2>1, WithdrawStep
<1>10. CASE \E b \in Browsers : Relaunch(b) BY <1>2, <1>10 DEF Relaunch
<1>11. CASE \E b \in Browsers : ExecuteCallback(b) BY <1>11, ExecuteStep
<1>12. CASE \E b \in Browsers, f \in Frames : OnContextCreated(b, f)
  BY <1>2, <1>12 DEF OnContextCreated
<1>13. ASSUME NEW b \in Browsers, NEW c, NEW r, SendCancel(b, c, r), app' = app
       PROVE  NoneAsked
  <2>1. RecordPage({<<b, epoch[b], i.req>> : i \in Abandoned(b, c, r)}, "withdrawn")
    BY <1>13 DEF SendCancel
  <2>2. Abandoned(b, c, r) \in SUBSET requests[b] BY DEF Abandoned
  <2> QED BY <1>13, <2>1, <2>2, WithdrawStep
<1>14. CASE \E b \in Browsers, f \in Frames : OnContextReleased(b, f)
  BY <1>2, <1>13, <1>14 DEF OnContextReleased
<1>15. CASE \E b \in Browsers, f \in Frames, r \in 1..MaxRequests : CefQueryCancel(b, f, r)
  BY <1>13, <1>15 DEF CefQueryCancel
<1>16. CASE \E b \in Browsers, f \in Frames, persistent \in Persistence : CefQuery(b, f, persistent)
  BY <1>16, AskStep
<1> QED BY <1>1, <1>3, <1>4, <1>5, <1>6, <1>7, <1>8, <1>9, <1>10, <1>11, <1>12, <1>14, <1>15, <1>16,
           StepEffects

\* A query whose id is still to be given out is not touched by any step of the contract.
LEMMA FreshUntouched ==
  ASSUME TypeOK, NEW u \in Uid, page[u] = "idle", app[u] = "unseen",
         \/ NoneAsked
         \/ \E w \in Uid, kind \in Contract!Waiting : Contract!Ask(w, kind) /\ w # u
  PROVE  page'[u] = "idle" /\ app'[u] = "unseen"
<1>1. \A us, s : /\ Contract!Set(page, us, s)[u] = (IF u \in us THEN s ELSE page[u])
                 /\ Contract!Set(app, us, s)[u] = (IF u \in us THEN s ELSE app[u])
  BY DEF Contract!Set
<1>2. CASE \E w \in Uid, kind \in Contract!Waiting : Contract!Ask(w, kind) /\ w # u
  BY <1>1, <1>2 DEF Contract!Ask
<1>3. CASE UNCHANGED <<page, app>> BY <1>3
<1>4. ASSUME NEW w \in Uid, \/ Contract!Accept(w) \/ Contract!Refuse(w) \/ Contract!Answer(w)
                            \/ Contract!Stream(w) \/ Contract!Fail(w)
                            \/ Contract!Succeed(w) \/ Contract!Reject(w)
      PROVE  page'[u] = "idle" /\ app'[u] = "unseen"
  <2>1. u # w
    BY <1>4 DEF Contract!Accept, Contract!Refuse, Contract!Answer, Contract!Stream, Contract!Fail,
                Contract!Succeed, Contract!Reject, Contract!Live, Contract!Waiting
  <2> QED BY <1>1, <1>4, <2>1
          DEF Contract!Accept, Contract!Refuse, Contract!Answer, Contract!Stream, Contract!Fail,
              Contract!Succeed, Contract!Reject
<1>5. ASSUME NEW ws \in SUBSET Uid, NEW cs \in SUBSET Uid, Contract!Abandon(ws, cs)
      PROVE  page'[u] = "idle" /\ app'[u] = "unseen"
  <2>1. u \notin ws /\ u \notin cs BY <1>5 DEF Contract!Abandon, Contract!Waiting, Contract!Live
  <2> QED BY <1>1, <1>5, <2>1 DEF Contract!Abandon
<1> QED BY <1>2, <1>3, <1>4, <1>5 DEF NoneAsked

\* Every step, and the initial states, keep what was seen.
LEMMA NextSeen == PlacesInv /\ SeenInv /\ [Next]_vars => SeenInv'
<1> SUFFICES ASSUME PlacesInv, SeenInv, [Next]_vars PROVE SeenInv' OBVIOUS
<1>1. \A b \in Browsers : SeenAt(b)' BY NextSeenAt
<1>2. ASSUME NEW u \in Uid, Fresh(u)' PROVE page'[u] = "idle" /\ app'[u] = "unseen"
  <2>1. page[u] = "idle" /\ app[u] = "unseen" BY <1>2, FreshBefore DEF SeenInv, FreshUnseen
  <2>2. \/ NoneAsked
        \/ \E w \in Uid, kind \in Contract!Waiting : Contract!Ask(w, kind) /\ w # u
    BY <1>2, NextContract
  <2>3. TypeOK BY DEF PlacesInv, EpochInv
  <2> QED BY <2>1, <2>2, <2>3, FreshUntouched
<1>3. FreshUnseen' BY <1>2 DEF FreshUnseen
<1> QED BY <1>1, <1>3 DEF SeenInv

LEMMA InitSeen == Init => SeenInv
<1> SUFFICES ASSUME Init PROVE SeenInv OBVIOUS
<1>1. FreshUnseen BY DEF Init, FreshUnseen
<1>2. \A b \in Browsers : /\ toBrowser[b] = <<>> /\ toRenderer[b] = <<>> /\ renderTasks[b] = <<>>
                          /\ requests[b] = {} /\ pending = {}
  BY DEF Init
<1>3. \A b \in Browsers : AskedMsgs(b) = {} /\ Of(b) = {} /\ Coming(b) = {}
  BY <1>2 DEF AskedMsgs, Asked, Of, Coming, Elements
<1> QED BY <1>1, <1>2, <1>3 DEF SeenInv, SeenAt

\* The router implements the contract of cef_message_router.h between pages and the application:
\* a query is told to one handler at most, its handler hears of its end once at most, a page's
\* callback runs only for an answer that was given to that query, and a query ends once for the
\* page, whatever order the two processes, their tasks, crashes and navigations interleave in.
THEOREM RouterImplementsContract == Spec => ImplementsContract
<1> DEFINE Inv == PlacesInv /\ SeenInv
<1>1. Init => Inv BY InitPlaces, InitSeen
<1>2. Inv /\ [Next]_vars => Inv' BY NextPlaces, NextSeen
<1>3. Init => Contract!Init BY DEF Init, Contract!Init
<1>4. Inv /\ [Next]_vars => [Contract!Next]_(Contract!vars)
  <2>1. ASSUME NoneAsked PROVE [Contract!Next]_(Contract!vars)
    BY <2>1 DEF NoneAsked, Contract!Next, Contract!vars
  <2>2. ASSUME NEW u \in Uid, NEW kind \in Contract!Waiting, Contract!Ask(u, kind)
        PROVE  Contract!Next
    BY <2>2 DEF Contract!Next
  <2> QED BY <2>1, <2>2, NextContract
<1>5. Spec => []Inv BY <1>1, <1>2, PTL DEF Spec
<1>6. Contract!Init /\ [][Contract!Next]_(Contract!vars) => Contract!Spec BY DEF Contract!Spec
<1> QED BY <1>3, <1>4, <1>5, <1>6, PTL DEF Spec, ImplementsContract
-----------------------------------------------------------------------------
(***************************************************************************)
(* The order of a thread's calls.                                          *)
(***************************************************************************)
\* The places in the queue s that hold a member of H, and what is there: a call, by its number.
Marks(s, H) == Calls(s, {k \in DOMAIN s : s[k] \in H})

\* Every call of P, and every two of them in their order, were among those of Q.
Carried(P, Q) ==
  \A x, y \in P : \E v, w \in Q : /\ v[2] = x[2] /\ w[2] = y[2]
                                  /\ x[1] < y[1] => v[1] < w[1]

\* Three queues one behind the other, each holding calls in their order.
InLine(A, O, S) ==
  /\ Rising(A) /\ Rising(O) /\ Rising(S)
  /\ Before(A, O) /\ Before(A, S) /\ Before(O, S)
Within(P, n) == \A x \in P : x[2] <= n

\* What is only carried along stays in order.
LEMMA CarriedInLine ==
  ASSUME NEW A, NEW O, NEW S, NEW A1, NEW O1, NEW S1, InLine(A, O, S),
         Carried(A1, A), Carried(O1, O), Carried(S1, S)
  PROVE  InLine(A1, O1, S1)
<1>1. ASSUME NEW P, NEW P1, Carried(P1, P), Rising(P) PROVE Rising(P1)
  <2> SUFFICES ASSUME NEW x \in P1, NEW y \in P1, x[1] < y[1] PROVE x[2] < y[2] BY DEF Rising
  <2>1. PICK v \in P : \E w \in P : v[2] = x[2] /\ w[2] = y[2] /\ v[1] < w[1] BY <1>1 DEF Carried
  <2> QED BY <1>1, <2>1 DEF Rising
<1>2. ASSUME NEW P, NEW P1, NEW Q, NEW Q1, Carried(P1, P), Carried(Q1, Q), Before(P, Q)
      PROVE  Before(P1, Q1)
  <2> SUFFICES ASSUME NEW x \in P1, NEW y \in Q1 PROVE x[2] < y[2] BY DEF Before
  <2>1. \E v \in P : v[2] = x[2] BY <1>2 DEF Carried
  <2>2. \E w \in Q : w[2] = y[2] BY <1>2 DEF Carried
  <2> QED BY <1>2, <2>1, <2>2 DEF Before
<1> QED BY <1>1, <1>2 DEF InLine

\* A bound on calls holds of what is carried along.
LEMMA CarriedWithin ==
  ASSUME NEW P, NEW Q, NEW n \in Nat, NEW m \in Nat, n <= m, Carried(P, Q), Within(Q, n),
         \A v \in Q : v[2] \in Nat
  PROVE  Within(P, m)
<1> SUFFICES ASSUME NEW x \in P PROVE x[2] <= m BY DEF Within
<1>1. PICK v \in Q : v[2] = x[2] BY DEF Carried
<1> QED BY <1>1 DEF Within

\* What becomes of the marks when a queue loses its head.
LEMMA MarksOf ==
  ASSUME NEW X, NEW s \in Seq(X), NEW H
  PROVE  /\ Carried(Marks(s, H), Marks(s, H))
         /\ \A x \in Marks(s, H) : x[1] \in 1..Len(s) /\ \E i \in DOMAIN s : s[i] \in H /\ x[2] = s[i].call
         /\ s # <<>> => \A x \in Marks(Tail(s), H) : x[1] \in Nat /\ x[1] > 0 /\ <<x[1] + 1, x[2]>> \in Marks(s, H)
         /\ s # <<>> => Carried(Marks(Tail(s), H), Marks(s, H))
         /\ s # <<>> /\ Head(s) \in H => <<1, Head(s).call>> \in Marks(s, H)
<1>1. Carried(Marks(s, H), Marks(s, H)) BY DEF Carried
<1>2. \A x \in Marks(s, H) : x[1] \in 1..Len(s) /\ \E i \in DOMAIN s : s[i] \in H /\ x[2] = s[i].call
  BY DEF Marks, Calls
<1>3. ASSUME s # <<>>
      PROVE  /\ \A x \in Marks(Tail(s), H) : x[1] \in Nat /\ x[1] > 0 /\ <<x[1] + 1, x[2]>> \in Marks(s, H)
             /\ Head(s) \in H => <<1, Head(s).call>> \in Marks(s, H)
  <2>1. \A k \in DOMAIN Tail(s) : k \in Nat /\ k > 0 /\ k + 1 \in DOMAIN s /\ Tail(s)[k] = s[k + 1] BY <1>3
  <2>2. 1 \in DOMAIN s /\ Head(s) = s[1] BY <1>3
  <2>3. \A k : k \in DOMAIN s /\ s[k] \in H => <<k, s[k].call>> \in Marks(s, H) BY DEF Marks, Calls
  <2>4. ASSUME NEW x \in Marks(Tail(s), H)
        PROVE  x[1] \in Nat /\ x[1] > 0 /\ <<x[1] + 1, x[2]>> \in Marks(s, H)
    <3>1. PICK k \in DOMAIN Tail(s) : Tail(s)[k] \in H /\ x = <<k, Tail(s)[k].call>>
      BY DEF Marks, Calls
    <3>2. x[1] = k /\ x[2] = s[k + 1].call /\ s[k + 1] \in H BY <2>1, <3>1
    <3> QED BY <2>1, <2>3, <3>2
  <2> QED BY <2>2, <2>3, <2>4
<1>4. ASSUME s # <<>> PROVE Carried(Marks(Tail(s), H), Marks(s, H))
  <2> SUFFICES ASSUME NEW x \in Marks(Tail(s), H), NEW y \in Marks(Tail(s), H)
               PROVE  \E v, w \in Marks(s, H) : /\ v[2] = x[2] /\ w[2] = y[2]
                                                /\ x[1] < y[1] => v[1] < w[1]
    BY DEF Carried
  <2> DEFINE v == <<x[1] + 1, x[2]>>
             w == <<y[1] + 1, y[2]>>
  <2>1. x[1] \in Nat /\ y[1] \in Nat /\ v \in Marks(s, H) /\ w \in Marks(s, H) BY <1>3, <1>4
  <2>2. v[1] = x[1] + 1 /\ v[2] = x[2] /\ w[1] = y[1] + 1 /\ w[2] = y[2] OBVIOUS
  <2> HIDE DEF v, w
  <2>3. x[1] < y[1] => v[1] < w[1] BY <2>1, <2>2
  <2> QED BY <2>1, <2>2, <2>3
<1> QED BY <1>1, <1>2, <1>3, <1>4

\* ... and when it grows at its end.
LEMMA MarksAppended ==
  ASSUME NEW X, NEW s \in Seq(X), NEW H, NEW t \in X
  PROVE  /\ t \notin H => Marks(Append(s, t), H) = Marks(s, H)
         /\ t \in H => Marks(Append(s, t), H) = Marks(s, H) \cup {<<Len(s) + 1, t.call>>}
<1>1. /\ DOMAIN Append(s, t) = DOMAIN s \cup {Len(s) + 1}
      /\ \A i \in DOMAIN s : Append(s, t)[i] = s[i]
      /\ Append(s, t)[Len(s) + 1] = t
      /\ Len(s) + 1 \notin DOMAIN s
  OBVIOUS
<1> DEFINE u == Append(s, t)
           K == {k \in DOMAIN s : s[k] \in H}
           K1 == {k \in DOMAIN u : u[k] \in H}
<1>2. K1 = K \cup {k \in {Len(s) + 1} : t \in H} BY <1>1
<1>3. \A k \in K : u[k] = s[k] BY <1>1
<1>4. u[Len(s) + 1] = t BY <1>1
<1>5. Marks(u, H) = {<<k, u[k].call>> : k \in K1} /\ Marks(s, H) = {<<k, s[k].call>> : k \in K}
  BY DEF Marks, Calls
<1> HIDE DEF u, K, K1
<1>6. CASE t \notin H
  <2>1. K1 = K BY <1>2, <1>6
  <2>2. {<<k, u[k].call>> : k \in K} = {<<k, s[k].call>> : k \in K} BY <1>3
  <2> QED BY <1>5, <1>6, <2>1, <2>2 DEF u
<1>7. CASE t \in H
  <2>1. K1 = K \cup {Len(s) + 1} BY <1>2, <1>7
  <2>2. {<<k, u[k].call>> : k \in K} = {<<k, s[k].call>> : k \in K} BY <1>3
  <2>3. {<<k, u[k].call>> : k \in K1} = {<<k, u[k].call>> : k \in K} \cup {<<Len(s) + 1, t.call>>}
    BY <1>4, <2>1
  <2> QED BY <1>5, <1>7, <2>2, <2>3 DEF u
<1> QED BY <1>6, <1>7

\* What is no call of H, put at the end, leaves the marks.
LEMMA MarksOfMore ==
  ASSUME NEW X, NEW s \in Seq(X), NEW r \in Seq(X), NEW H, \A i \in DOMAIN r : r[i] \notin H
  PROVE  Marks(s \o r, H) = Marks(s, H)
<1> DEFINE u == s \o r
           K == {k \in DOMAIN s : s[k] \in H}
           K1 == {k \in DOMAIN u : u[k] \in H}
<1>1. /\ Len(u) = Len(s) + Len(r) /\ DOMAIN u = 1..Len(u)
      /\ \A k \in DOMAIN s : k \in DOMAIN u /\ u[k] = s[k]
      /\ \A k \in DOMAIN u \ DOMAIN s : k - Len(s) \in DOMAIN r /\ u[k] = r[k - Len(s)]
  OBVIOUS
<1>2. K1 = K BY <1>1
<1>3. \A k \in K : u[k] = s[k] BY <1>1
<1>4. Marks(u, H) = {<<k, u[k].call>> : k \in K1} /\ Marks(s, H) = {<<k, s[k].call>> : k \in K}
  BY DEF Marks, Calls
<1> HIDE DEF u, K, K1
<1>5. {<<k, u[k].call>> : k \in K} = {<<k, s[k].call>> : k \in K} BY <1>3
<1> QED BY <1>2, <1>4, <1>5 DEF u

\* One more call at the end of a queue, later than those in it.
LEMMA GrownRising ==
  ASSUME NEW P, Rising(P), NEW n \in Nat, NEW c \in Nat,
         \A x \in P : x[1] \in 1..n /\ x[2] \in Nat /\ x[2] < c
  PROVE  Rising(P \cup {<<n + 1, c>>})
<1> DEFINE z == <<n + 1, c>>
<1>1. z[1] = n + 1 /\ z[2] = c OBVIOUS
<1> HIDE DEF z
<1> SUFFICES ASSUME NEW x \in P \cup {z}, NEW y \in P \cup {z}, x[1] < y[1] PROVE x[2] < y[2]
  BY DEF Rising, z
<1>2. CASE x \in P /\ y \in P BY <1>2 DEF Rising
<1>3. CASE x \in P /\ y = z BY <1>1, <1>3
<1>4. CASE x = z /\ y \in P BY <1>1, <1>4
<1>5. CASE x = z /\ y = z BY <1>1, <1>5
<1> QED BY <1>2, <1>3, <1>4, <1>5
\* The responses and the tasks that the calls of Success of thread t on q's Callback become.
SuccessesFor(q, t) == {m \in Response : m.ok /\ m.req = q.req /\ m.thread = t}
TasksFor(kind, q, t) == {m \in CallbackTask : m.kind = kind /\ m.id = q.id /\ m.thread = t}

\* Two queues, one behind the other, are one: what grows at the end of the second, leaves the
\* head of the first, or passes from the one to the other.
LEMMA QueueAfterQueue ==
  ASSUME NEW r \in Seq(Response), NEW s \in Seq(Response)
  PROVE  /\ r \o s \in Seq(Response)
         /\ \A m \in Response : r \o (s \o <<m>>) = Append(r \o s, m)
         /\ \A u \in Seq(Response) : r \o (s \o u) = (r \o s) \o u
         /\ r # <<>> => r \o s # <<>> /\ Tail(r) \o s = Tail(r \o s)
         /\ s # <<>> => Append(r, Head(s)) \o Tail(s) = r \o s
<1>1. r \o s \in Seq(Response) OBVIOUS
<1>2. ASSUME NEW m \in Response PROVE r \o (s \o <<m>>) = Append(r \o s, m)
  <2>1. s \o <<m>> = Append(s, m) OBVIOUS
  <2>2. r \o Append(s, m) = Append(r \o s, m) OBVIOUS
  <2> QED BY <2>1, <2>2
<1>3. \A u \in Seq(Response) : r \o (s \o u) = (r \o s) \o u OBVIOUS
<1>4. r # <<>> => r \o s # <<>> OBVIOUS
<1>5. r # <<>> => Tail(r) \o s = Tail(r \o s) OBVIOUS
<1>6. s # <<>> => Append(r, Head(s)) \o Tail(s) = r \o s OBVIOUS
<1> QED BY <1>1, <1>2, <1>3, <1>4, <1>5, <1>6

\* The responses on their way to a renderer, and what they are as a set.
LEMMA ArrivingType ==
  ASSUME TypeOK, NEW b \in Browsers
  PROVE  /\ renderTasks[b] \in Seq(Response) /\ toRenderer[b] \in Seq(Response)
         /\ Arriving(b) \in Seq(Response)
         /\ \A i \in DOMAIN Arriving(b) : Arriving(b)[i] \in Coming(b)
<1>1. renderTasks[b] \in Seq(Response) /\ toRenderer[b] \in Seq(Response) BY DEF TypeOK
<1>2. Arriving(b) \in Seq(Response) BY <1>1, QueueAfterQueue DEF Arriving
<1>3. \A i \in DOMAIN Arriving(b) : Arriving(b)[i] \in Coming(b)
  <2> DEFINE r == renderTasks[b]
             s == toRenderer[b]
  <2>1. r \in Seq(Response) /\ s \in Seq(Response) BY <1>1
  <2>2. Arriving(b) = r \o s /\ Coming(b) = {r[i] : i \in DOMAIN r} \cup {s[i] : i \in DOMAIN s}
    BY DEF Arriving, Coming, Elements
  <2> HIDE DEF r, s
  <2> DEFINE u == r \o s
  <2>3. /\ \A k \in DOMAIN r : k \in DOMAIN u /\ u[k] = r[k]
        /\ \A k \in DOMAIN u \ DOMAIN r : k - Len(r) \in DOMAIN s /\ u[k] = s[k - Len(r)]
    BY <2>1
  <2>4. Arriving(b) = u BY <2>2
  <2> HIDE DEF u
  <2> QED BY <2>2, <2>3, <2>4
<1> QED BY <1>1, <1>2, <1>3

\* The queue of b's responses stays, loses its first or grows by messages of which none is in H.
ArrivingKept(b, H) ==
  \/ Arriving(b)' = Arriving(b)
  \/ Arriving(b)' = <<>>
  \/ Arriving(b) # <<>> /\ Arriving(b)' = Tail(Arriving(b))
  \/ \E s \in Seq(Response) : Arriving(b)' = Arriving(b) \o s /\ \A i \in DOMAIN s : s[i] \notin H

\* Its marks are then carried along.
LEMMA ArrivingCarried ==
  ASSUME TypeOK, NEW b \in Browsers, NEW H, ArrivingKept(b, H)
  PROVE  Carried(Marks(Arriving(b)', H), Marks(Arriving(b), H))
<1>1. Arriving(b) \in Seq(Response) BY ArrivingType
<1>2. CASE Arriving(b)' = Arriving(b) BY <1>2 DEF Carried
<1>3. CASE Arriving(b)' = <<>>
  <2>1. Marks(Arriving(b)', H) = {} BY <1>3 DEF Marks, Calls
  <2> QED BY <2>1 DEF Carried
<1>4. CASE Arriving(b) # <<>> /\ Arriving(b)' = Tail(Arriving(b)) BY <1>1, <1>4, MarksOf
<1>5. CASE \E s \in Seq(Response) :
             Arriving(b)' = Arriving(b) \o s /\ \A i \in DOMAIN s : s[i] \notin H
  <2> DEFINE a == Arriving(b)
  <2>1. PICK s \in Seq(Response) : Arriving(b)' = a \o s /\ \A i \in DOMAIN s : s[i] \notin H BY <1>5
  <2>2. a \in Seq(Response) BY <1>1
  <2> HIDE DEF a
  <2>3. Marks(a \o s, H) = Marks(a, H) BY <2>1, <2>2, MarksOfMore
  <2>4. Marks(Arriving(b)', H) = Marks(a, H) BY <2>1, <2>3
  <2> QED BY <2>4 DEF Carried, a
<1> QED BY <1>2, <1>3, <1>4, <1>5 DEF ArrivingKept

\* One message is sent to the renderer of b.
LEMMA ArrivingSend ==
  ASSUME TypeOK, NEW b \in Browsers, NEW m \in Response, SendToRenderer(b, <<m>>), UNCHANGED renderTasks,
         NEW c \in Browsers
  PROVE  Arriving(c)' = IF c = b /\ process[b] = "up" THEN Append(Arriving(c), m) ELSE Arriving(c)
<1>1. toRenderer'[c] = IF c = b /\ process[b] = "up" THEN toRenderer[c] \o <<m>> ELSE toRenderer[c]
  BY DEF SendToRenderer, TypeOK
<1> DEFINE r == renderTasks[c]
           s == toRenderer[c]
<1>2. r \in Seq(Response) /\ s \in Seq(Response) BY ArrivingType
<1>3. Arriving(c) = r \o s /\ Arriving(c)' = r \o toRenderer'[c] BY DEF Arriving
<1>4. toRenderer'[c] = IF c = b /\ process[b] = "up" THEN s \o <<m>> ELSE s BY <1>1
<1> HIDE DEF r, s
<1>5. r \o (s \o <<m>>) = Append(r \o s, m) BY <1>2, QueueAfterQueue
<1> QED BY <1>3, <1>4, <1>5

\* The failures of the queries canceled are sent.
LEMMA ArrivingNotify ==
  ASSUME TypeOK, PendingFinite, NEW S, S \subseteq pending, NotifyRenderers(S), UNCHANGED renderTasks,
         NEW b \in Browsers, NEW q, NEW t
  PROVE  ArrivingKept(b, SuccessesFor(q, t))
<1>1. SendsFailures(S, b) BY NotifyRenderersSends
<1>2. CASE toRenderer'[b] = toRenderer[b] BY <1>2 DEF ArrivingKept, Arriving
<1>3. ASSUME NEW s \in Seq(Response), toRenderer'[b] = toRenderer[b] \o s,
             \A i \in DOMAIN s : \E p \in S : p.browser = b /\ s[i] = Failure(p)
      PROVE  ArrivingKept(b, SuccessesFor(q, t))
  <2>1. Arriving(b)' = Arriving(b) \o s
    <3> DEFINE r == renderTasks[b]
               u == toRenderer[b]
    <3>1. r \in Seq(Response) /\ u \in Seq(Response) BY ArrivingType
    <3>2. Arriving(b) = r \o u /\ Arriving(b)' = r \o (u \o s) BY <1>3 DEF Arriving
    <3> HIDE DEF r, u
    <3>3. r \o (u \o s) = (r \o u) \o s BY <1>3, <3>1, QueueAfterQueue
    <3> QED BY <3>2, <3>3
  <2>2. \A i \in DOMAIN s : ~s[i].ok BY <1>3 DEF Failure
  <2> QED BY <2>1, <2>2 DEF ArrivingKept, SuccessesFor
<1> QED BY <1>1, <1>2, <1>3 DEF SendsFailures

\* The renderer takes a response from its pipe, or runs the task of one.
LEMMA ArrivingTaken ==
  ASSUME TypeOK, NEW b \in Browsers, ResponseReceived(b) \/ ExecuteCallback(b), NEW c \in Browsers, NEW H
  PROVE  ArrivingKept(c, H)
<1>1. CASE ResponseReceived(b)
  <2>1. /\ toRenderer[b] # <<>>
        /\ toRenderer'[c] = IF c = b THEN Tail(toRenderer[c]) ELSE toRenderer[c]
        /\ renderTasks'[c] = IF c = b THEN Append(renderTasks[c], Head(toRenderer[c])) ELSE renderTasks[c]
    BY <1>1 DEF ResponseReceived, TypeOK
  <2> DEFINE r == renderTasks[c]
             s == toRenderer[c]
  <2>2. r \in Seq(Response) /\ s \in Seq(Response) BY ArrivingType
  <2>3. Arriving(c) = r \o s /\ Arriving(c)' = renderTasks'[c] \o toRenderer'[c] BY DEF Arriving
  <2>4. c = b => renderTasks'[c] = Append(r, Head(s)) /\ toRenderer'[c] = Tail(s) /\ s # <<>>
    BY <2>1
  <2>5. c # b => renderTasks'[c] = r /\ toRenderer'[c] = s BY <2>1
  <2> HIDE DEF r, s
  <2>6. s # <<>> => Append(r, Head(s)) \o Tail(s) = r \o s BY <2>2, QueueAfterQueue
  <2>7. Arriving(c)' = Arriving(c) BY <2>3, <2>4, <2>5, <2>6
  <2> QED BY <2>7 DEF ArrivingKept
<1>2. CASE ExecuteCallback(b)
  <2>1. /\ renderTasks[b] # <<>> /\ toRenderer' = toRenderer
        /\ renderTasks'[c] = IF c = b THEN Tail(renderTasks[c]) ELSE renderTasks[c]
    BY <1>2 DEF ExecuteCallback, TypeOK
  <2> DEFINE r == renderTasks[c]
             s == toRenderer[c]
  <2>2. r \in Seq(Response) /\ s \in Seq(Response) BY ArrivingType
  <2>3. Arriving(c) = r \o s /\ Arriving(c)' = renderTasks'[c] \o s BY <2>1 DEF Arriving
  <2>4. renderTasks'[c] = (IF c = b THEN Tail(r) ELSE r) /\ (c = b => r # <<>>) BY <2>1
  <2> HIDE DEF r, s
  <2>5. r # <<>> => r \o s # <<>> /\ Tail(r) \o s = Tail(r \o s) BY <2>2, QueueAfterQueue
  <2>6. Arriving(c)' = Arriving(c) \/ (Arriving(c) # <<>> /\ Arriving(c)' = Tail(Arriving(c)))
    BY <2>3, <2>4, <2>5
  <2> QED BY <2>6 DEF ArrivingKept
<1> QED BY <1>1, <1>2

\* The renderer of b is gone with what was on its way to it.
LEMMA ArrivingReset ==
  ASSUME TypeOK, NEW b \in Browsers, ResetRenderer(b), NEW c \in Browsers, NEW H
  PROVE  ArrivingKept(c, H)
<1>1. /\ toRenderer'[c] = IF c = b THEN <<>> ELSE toRenderer[c]
      /\ renderTasks'[c] = IF c = b THEN <<>> ELSE renderTasks[c]
  BY DEF ResetRenderer, TypeOK
<1>2. Arriving(c)' = renderTasks'[c] \o toRenderer'[c] /\ Arriving(c) = renderTasks[c] \o toRenderer[c]
  BY DEF Arriving
<1>3. <<>> \o <<>> = <<>> OBVIOUS
<1>4. Arriving(c)' = <<>> \/ Arriving(c)' = Arriving(c) BY <1>1, <1>2, <1>3
<1> QED BY <1>4 DEF ArrivingKept

\* Where the calls of Success on q's Callback are.
InPipe(q, t) == Marks(Arriving(q.browser), SuccessesFor(q, t))
InTasks(kind, q, t) == Marks(uiTasks, TasksFor(kind, q, t))
CallKinds == {"OnCallbackSuccess", "Success"}

\* Tasks are for queries that have been given their id; only other threads post their calls.
Numbered(s, n) ==
  \A i \in DOMAIN s : s[i] \in CallbackTask =>
    /\ s[i].id <= n
    /\ s[i].kind \in {"Success", "Failure"} => s[i].thread = "other"

\* The calls on q's Callback are in their order, and a Callback that works counts them all, so
\* that its next call is later.
QueryCalls(q) ==
  \A t \in Threads :
    /\ InLine(InPipe(q, t), InTasks("OnCallbackSuccess", q, t), InTasks("Success", q, t))
    /\ \A c \in callbacks : c.id = q.id =>
         /\ Within(InPipe(q, t), c.calls)
         /\ \A kind \in CallKinds : Within(InTasks(kind, q, t), c.calls)

CallsInv == Numbered(uiTasks, nextQuery) /\ \A q \in pending : QueryCalls(q)

\* Calls are numbered by naturals, wherever they are.
LEMMA MarksType ==
  ASSUME TypeOK, NEW q \in pending, NEW t \in Threads
  PROVE  /\ \A x \in InPipe(q, t) : x[1] \in 1..Len(Arriving(q.browser)) /\ x[2] \in Nat
         /\ \A kind \in CallKinds : \A x \in InTasks(kind, q, t) :
              x[1] \in 1..Len(uiTasks) /\ x[2] \in Nat
<1>1. q.browser \in Browsers BY DEF TypeOK, QueryInfo
<1>2. Arriving(q.browser) \in Seq(Response) BY <1>1, ArrivingType
<1>3. uiTasks \in Seq(CallbackTask \cup CancelTask) BY DEF TypeOK
<1>4. \A m \in SuccessesFor(q, t) : m.call \in Nat BY DEF SuccessesFor, Response
<1>5. \A kind \in CallKinds : \A m \in TasksFor(kind, q, t) : m.call \in Nat
  BY DEF TasksFor, CallbackTask
<1>6. \A x \in InPipe(q, t) : x[1] \in 1..Len(Arriving(q.browser)) /\ x[2] \in Nat
  <2> DEFINE a == Arriving(q.browser)
             H == SuccessesFor(q, t)
  <2> HIDE DEF a, H
  <2>1. \A x \in Marks(a, H) : x[1] \in 1..Len(a) /\ \E i \in DOMAIN a : a[i] \in H /\ x[2] = a[i].call
    BY <1>2, MarksOf DEF a
  <2> QED BY <1>4, <2>1 DEF InPipe, a, H
<1>7. ASSUME NEW kind \in CallKinds, NEW x \in InTasks(kind, q, t)
      PROVE  x[1] \in 1..Len(uiTasks) /\ x[2] \in Nat
  <2> DEFINE H == TasksFor(kind, q, t)
  <2> HIDE DEF H
  <2>1. \A y \in Marks(uiTasks, H) :
          y[1] \in 1..Len(uiTasks) /\ \E i \in DOMAIN uiTasks : uiTasks[i] \in H /\ y[2] = uiTasks[i].call
    BY <1>3, MarksOf
  <2> QED BY <1>5, <1>7, <2>1 DEF InTasks, H
<1> QED BY <1>6, <1>7

\* What the invariant says is the property.
LEMMA CallsMeanOrder ==
  ASSUME TypeOK, CallsInv
  PROVE  CallsInOrder
<1> SUFFICES ASSUME NEW q \in pending, NEW t \in Threads
             PROVE  InLine(Calls(Arriving(q.browser), Responding(q, t)),
                           Calls(uiTasks, Waiting("OnCallbackSuccess", q, t)),
                           Calls(uiTasks, Waiting("Success", q, t)))
  BY DEF CallsInOrder, InLine
<1>1. q.browser \in Browsers BY DEF TypeOK, QueryInfo
<1>2. \A i \in DOMAIN Arriving(q.browser) : Arriving(q.browser)[i] \in Response
  <2>1. Arriving(q.browser) \in Seq(Response) BY <1>1, ArrivingType
  <2> QED BY <2>1
<1>3. Responding(q, t) = {k \in DOMAIN Arriving(q.browser) : Arriving(q.browser)[k] \in SuccessesFor(q, t)}
  BY <1>2 DEF Responding, SuccessesFor
<1>4. \A i \in DOMAIN uiTasks : uiTasks[i] \in CallbackTask \cup CancelTask BY DEF TypeOK
<1>5. ASSUME NEW kind \in CallKinds
      PROVE  Waiting(kind, q, t) = {k \in DOMAIN uiTasks : uiTasks[k] \in TasksFor(kind, q, t)}
  <2>1. \A m \in CancelTask : m.kind # kind BY <1>5 DEF CancelTask, CallKinds
  <2>2. \A m \in CallbackTask \cup CancelTask :
          m.kind = kind /\ m.id = q.id /\ m.thread = t <=> m \in TasksFor(kind, q, t)
    BY <2>1 DEF TasksFor
  <2> QED BY <1>4, <2>2 DEF Waiting
<1>6. Calls(Arriving(q.browser), Responding(q, t)) = InPipe(q, t) BY <1>3 DEF InPipe, Marks
<1>7. \A kind \in CallKinds : Calls(uiTasks, Waiting(kind, q, t)) = InTasks(kind, q, t)
  BY <1>5 DEF InTasks, Marks
<1> QED BY <1>6, <1>7 DEF CallsInv, QueryCalls, CallKinds

\* What a step leaves of the calls on q's Callback: they are carried along, and a Callback that
\* still works has counted no fewer.
CallsKept(q) ==
  /\ \A t \in Threads : ArrivingKept(q.browser, SuccessesFor(q, t))
  /\ \A t \in Threads, kind \in CallKinds : Carried(InTasks(kind, q, t)', InTasks(kind, q, t))
  /\ \A d \in callbacks' : d.id = q.id => \E c \in callbacks : c.id = q.id /\ c.calls <= d.calls

\* A query whose tasks and responses are only carried along keeps what the invariant says of it.
LEMMA KeptCalls ==
  ASSUME TypeOK, TypeOK', NEW q \in pending, QueryCalls(q), CallsKept(q)
  PROVE  QueryCalls(q)'
<1> SUFFICES ASSUME NEW t \in Threads
             PROVE  /\ InLine(InPipe(q, t)', InTasks("OnCallbackSuccess", q, t)', InTasks("Success", q, t)')
                    /\ \A d \in callbacks' : d.id = q.id =>
                         /\ Within(InPipe(q, t)', d.calls)
                         /\ \A kind \in CallKinds : Within(InTasks(kind, q, t)', d.calls)
  BY DEF QueryCalls
<1>1. q.browser \in Browsers BY DEF TypeOK, QueryInfo
<1>2. Carried(InPipe(q, t)', InPipe(q, t))
  <2>1. ArrivingKept(q.browser, SuccessesFor(q, t)) BY DEF CallsKept
  <2> QED BY <1>1, <2>1, ArrivingCarried DEF InPipe, SuccessesFor
<1>3. \A kind \in CallKinds : Carried(InTasks(kind, q, t)', InTasks(kind, q, t)) BY DEF CallsKept
<1>4. InLine(InPipe(q, t), InTasks("OnCallbackSuccess", q, t), InTasks("Success", q, t))
  BY DEF QueryCalls
<1>5. InLine(InPipe(q, t)', InTasks("OnCallbackSuccess", q, t)', InTasks("Success", q, t)')
  BY <1>2, <1>3, <1>4, CarriedInLine DEF CallKinds
<1>6. ASSUME NEW d \in callbacks', d.id = q.id
      PROVE  /\ Within(InPipe(q, t)', d.calls)
             /\ \A kind \in CallKinds : Within(InTasks(kind, q, t)', d.calls)
  <2>1. PICK c \in callbacks : c.id = q.id /\ c.calls <= d.calls BY <1>6 DEF CallsKept
  <2>2. c.calls \in Nat /\ d.calls \in Nat BY DEF TypeOK, CallbackImpl
  <2>3. Within(InPipe(q, t), c.calls) /\ \A kind \in CallKinds : Within(InTasks(kind, q, t), c.calls)
    BY <2>1 DEF QueryCalls
  <2> QED BY <1>2, <1>3, <2>1, <2>2, <2>3, MarksType, CarriedWithin
<1> QED BY <1>5, <1>6

\* Tasks keep their numbers, and new ones have theirs.
LEMMA NumberedQueue ==
  ASSUME NEW s \in Seq(CallbackTask \cup CancelTask), NEW n \in Nat, Numbered(s, n)
  PROVE  /\ \A m \in Nat : n <= m => Numbered(s, m)
         /\ s # <<>> => Numbered(Tail(s), n)
         /\ \A t \in CancelTask : Numbered(Append(s, t), n)
         /\ \A t \in CallbackTask : \A m \in Nat :
              n <= m /\ t.id <= m /\ (t.kind \in {"Success", "Failure"} => t.thread = "other")
              => Numbered(Append(s, t), m)
<1>1. \A t \in CallbackTask : t.id \in Nat BY DEF CallbackTask
<1>2. \A t \in CancelTask : t \notin CallbackTask BY DEF CallbackTask, CancelTask
<1>3. ASSUME NEW m \in Nat, n <= m PROVE Numbered(s, m)
  BY <1>1, <1>3 DEF Numbered
<1>4. ASSUME s # <<>> PROVE Numbered(Tail(s), n)
  <2>1. \A k \in DOMAIN Tail(s) : k + 1 \in DOMAIN s /\ Tail(s)[k] = s[k + 1] BY <1>4
  <2> QED BY <2>1 DEF Numbered
<1>5. ASSUME NEW t \in CallbackTask \cup CancelTask
      PROVE  /\ DOMAIN Append(s, t) = DOMAIN s \cup {Len(s) + 1}
             /\ \A i \in DOMAIN s : Append(s, t)[i] = s[i]
             /\ Append(s, t)[Len(s) + 1] = t
  OBVIOUS
<1>6. \A t \in CancelTask : Numbered(Append(s, t), n) BY <1>2, <1>5 DEF Numbered
<1>7. ASSUME NEW t \in CallbackTask, NEW m \in Nat, n <= m, t.id <= m,
             t.kind \in {"Success", "Failure"} => t.thread = "other"
      PROVE  Numbered(Append(s, t), m)
  BY <1>3, <1>5, <1>7 DEF Numbered
<1> QED BY <1>3, <1>4, <1>6, <1>7

\* The calls queued on the UI thread, when a task is taken or posted.
LEMMA TaskMarks ==
  ASSUME NEW s \in Seq(CallbackTask \cup CancelTask), NEW kind \in CallKinds, NEW q, NEW t
  PROVE  /\ Carried(Marks(s, TasksFor(kind, q, t)), Marks(s, TasksFor(kind, q, t)))
         /\ s # <<>> => Carried(Marks(Tail(s), TasksFor(kind, q, t)), Marks(s, TasksFor(kind, q, t)))
         /\ \A m \in CallbackTask \cup CancelTask :
              m.kind # kind \/ m.id # q.id \/ m.thread # t =>
                Marks(Append(s, m), TasksFor(kind, q, t)) = Marks(s, TasksFor(kind, q, t))
         /\ \A m \in CallbackTask : m.kind = kind /\ m.id = q.id /\ m.thread = t =>
              Marks(Append(s, m), TasksFor(kind, q, t))
                = Marks(s, TasksFor(kind, q, t)) \cup {<<Len(s) + 1, m.call>>}
<1> DEFINE H == TasksFor(kind, q, t)
<1>1. \A m \in CallbackTask \cup CancelTask :
        m \in H <=> m \in CallbackTask /\ m.kind = kind /\ m.id = q.id /\ m.thread = t
  BY DEF TasksFor
<1> DEFINE X == CallbackTask \cup CancelTask
<1>2. s \in Seq(X) OBVIOUS
<1> HIDE DEF H, X
<1>3. Carried(Marks(s, H), Marks(s, H)) BY <1>2, MarksOf
<1>4. s # <<>> => Carried(Marks(Tail(s), H), Marks(s, H)) BY <1>2, MarksOf
<1>5. ASSUME NEW m \in X
      PROVE  /\ m \notin H => Marks(Append(s, m), H) = Marks(s, H)
             /\ m \in H => Marks(Append(s, m), H) = Marks(s, H) \cup {<<Len(s) + 1, m.call>>}
  BY <1>2, MarksAppended
<1> QED BY <1>1, <1>3, <1>4, <1>5 DEF H, X

\* Steps that make no call: queries, Callbacks, tasks and responses only go, or go on.
LEMMA QuietCalls ==
  ASSUME TypeOK, TypeOK', CallsInv, UNCHANGED uiTasks, nextQuery <= nextQuery',
         pending' \subseteq pending, callbacks' \subseteq callbacks,
         \A q \in pending' : \A t \in Threads : ArrivingKept(q.browser, SuccessesFor(q, t))
  PROVE  CallsInv'
<1>1. uiTasks \in Seq(CallbackTask \cup CancelTask) BY DEF TypeOK
<1>2. Numbered(uiTasks', nextQuery')
  <2>1. nextQuery \in Nat /\ nextQuery' \in Nat BY DEF TypeOK
  <2> QED BY <1>1, <2>1, NumberedQueue DEF CallsInv
<1>3. ASSUME NEW q \in pending' PROVE QueryCalls(q)'
  <2>1. q \in pending /\ QueryCalls(q) BY DEF CallsInv
  <2>2. \A t \in Threads, kind \in CallKinds : Carried(InTasks(kind, q, t)', InTasks(kind, q, t))
    BY <1>1, TaskMarks DEF InTasks
  <2>3. \A d \in callbacks' : d.id = q.id => \E c \in callbacks : c.id = q.id /\ c.calls <= d.calls
    <3>1. \A d \in callbacks' : d \in callbacks /\ d.calls \in Nat BY DEF TypeOK, CallbackImpl
    <3> QED BY <3>1
  <2>4. CallsKept(q) BY <2>2, <2>3 DEF CallsKept
  <2> QED BY <2>1, <2>4, KeptCalls
<1> QED BY <1>2, <1>3 DEF CallsInv

\* The UI thread's queue loses its head or gets a task that calls no pending query's Callback.
LEMMA QueueCalls ==
  ASSUME TypeOK, TypeOK', CallsInv,
         \/ uiTasks # <<>> /\ uiTasks' = Tail(uiTasks)
         \/ \E m \in CallbackTask \cup CancelTask :
              /\ uiTasks' = Append(uiTasks, m)
              /\ \A q \in pending' : m.kind \notin CallKinds \/ m.id # q.id,
         Numbered(uiTasks', nextQuery'),
         pending' \subseteq pending,
         \A d \in callbacks' : \E c \in callbacks : c.id = d.id /\ c.calls <= d.calls,
         \A q \in pending' : \A t \in Threads : ArrivingKept(q.browser, SuccessesFor(q, t))
  PROVE  CallsInv'
<1>1. uiTasks \in Seq(CallbackTask \cup CancelTask) BY DEF TypeOK
<1>2. ASSUME NEW q \in pending' PROVE QueryCalls(q)'
  <2>1. q \in pending /\ QueryCalls(q) BY DEF CallsInv
  <2>2. ASSUME NEW t \in Threads, NEW kind \in CallKinds
        PROVE  Carried(InTasks(kind, q, t)', InTasks(kind, q, t))
    <3>1. CASE uiTasks # <<>> /\ uiTasks' = Tail(uiTasks) BY <1>1, <3>1, TaskMarks DEF InTasks
    <3>2. ASSUME NEW m \in CallbackTask \cup CancelTask, uiTasks' = Append(uiTasks, m),
                 m.kind \notin CallKinds \/ m.id # q.id
          PROVE  Carried(InTasks(kind, q, t)', InTasks(kind, q, t))
      <4>1. m.kind # kind \/ m.id # q.id BY <3>2
      <4>2. Marks(Append(uiTasks, m), TasksFor(kind, q, t)) = Marks(uiTasks, TasksFor(kind, q, t))
        BY <1>1, <4>1, TaskMarks
      <4> QED BY <1>1, <3>2, <4>2, TaskMarks DEF InTasks
    <3> QED BY <3>1, <3>2
  <2>3. CallsKept(q) BY <2>2 DEF CallsKept
  <2> QED BY <2>1, <2>3, KeptCalls
<1> QED BY <1>2 DEF CallsInv

\* A call that passes to the end of one of the queues, after those before it and before those
\* behind it.
LEMMA InLineWith ==
  ASSUME NEW A, NEW O, NEW S, InLine(A, O, S), NEW n \in Nat, NEW c \in Nat
  PROVE  /\ /\ \A x \in A : x[1] \in 1..n /\ x[2] \in Nat /\ x[2] < c
            /\ \A x \in O \cup S : c < x[2]
            => InLine(A \cup {<<n + 1, c>>}, O, S)
         /\ /\ \A x \in O : x[1] \in 1..n /\ x[2] \in Nat /\ x[2] < c
            /\ \A x \in A : x[2] < c
            /\ \A x \in S : c < x[2]
            => InLine(A, O \cup {<<n + 1, c>>}, S)
         /\ /\ \A x \in S : x[1] \in 1..n /\ x[2] \in Nat /\ x[2] < c
            /\ \A x \in A \cup O : x[2] < c
            => InLine(A, O, S \cup {<<n + 1, c>>})
<1> DEFINE z == <<n + 1, c>>
<1>1. z[2] = c OBVIOUS
<1>2. ASSUME NEW P, Rising(P), \A x \in P : x[1] \in 1..n /\ x[2] \in Nat /\ x[2] < c
      PROVE  Rising(P \cup {z})
  BY <1>2, GrownRising
<1> HIDE DEF z
<1>3. ASSUME \A x \in A : x[1] \in 1..n /\ x[2] \in Nat /\ x[2] < c, \A x \in O \cup S : c < x[2]
      PROVE  InLine(A \cup {z}, O, S)
  <2>1. Rising(A \cup {z}) BY <1>2, <1>3 DEF InLine
  <2> QED BY <1>1, <1>3, <2>1 DEF InLine, Before
<1>4. ASSUME \A x \in O : x[1] \in 1..n /\ x[2] \in Nat /\ x[2] < c,
             \A x \in A : x[2] < c, \A x \in S : c < x[2]
      PROVE  InLine(A, O \cup {z}, S)
  <2>1. Rising(O \cup {z}) BY <1>2, <1>4 DEF InLine
  <2> QED BY <1>1, <1>4, <2>1 DEF InLine, Before
<1>5. ASSUME \A x \in S : x[1] \in 1..n /\ x[2] \in Nat /\ x[2] < c,
             \A x \in A \cup O : x[2] < c
      PROVE  InLine(A, O, S \cup {z})
  <2>1. Rising(S \cup {z}) BY <1>2, <1>5 DEF InLine
  <2> QED BY <1>1, <1>5, <2>1 DEF InLine, Before
<1> QED BY <1>3, <1>4, <1>5 DEF z

\* The calls left in a queue that is carried along are numbered.
LEMMA BaseMarks ==
  ASSUME TypeOK, NEW base \in Seq(CallbackTask \cup CancelTask), NEW q \in pending,
         NEW t \in Threads, NEW kind \in CallKinds,
         Carried(Marks(base, TasksFor(kind, q, t)), InTasks(kind, q, t))
  PROVE  \A x \in Marks(base, TasksFor(kind, q, t)) :
           /\ x[1] \in 1..Len(base) /\ x[2] \in Nat
           /\ \E v \in InTasks(kind, q, t) : v[2] = x[2]
<1> TAKE x \in Marks(base, TasksFor(kind, q, t))
<1>1. x[1] \in 1..Len(base) BY MarksOf
<1>2. PICK v \in InTasks(kind, q, t) : v[2] = x[2] BY DEF Carried
<1> QED BY <1>1, <1>2, MarksType

\* A call whose response is posted, by the thread itself or by the task it posted, comes after
\* those answered before and before those that wait.
LEMMA RespondCalls ==
  ASSUME TypeOK, TypeOK', CallbackInv, CallsInv,
         UNCHANGED <<nextQuery, pending, renderTasks, toRenderer>>,
         NEW base \in Seq(CallbackTask \cup CancelTask), Numbered(base, nextQuery),
         \A q \in pending, t \in Threads, k \in CallKinds :
           Carried(Marks(base, TasksFor(k, q, t)), InTasks(k, q, t)),
         NEW c \in callbacks, NEW kind \in Responds, NEW call \in Nat, NEW thread \in Threads,
         \A q \in pending : kind = "OnCallbackSuccess" /\ q.id = c.id =>
           /\ \A x \in InPipe(q, thread) : x[2] < call
           /\ \A x \in InTasks("OnCallbackSuccess", q, thread) : x[2] < call
           /\ \A x \in Marks(base, TasksFor("Success", q, thread)) : call < x[2],
         Respond(c, kind, call, thread, base)
  PROVE  CallsInv'
<1> DEFINE m == [kind |-> kind, id |-> c.id, call |-> call, thread |-> thread]
<1>1. c.id \in Nat /\ c.calls \in Nat /\ c \in CallbackImpl BY DEF TypeOK, CallbackImpl
<1>2. m \in CallbackTask /\ m.kind = kind /\ m.id = c.id /\ m.call = call /\ m.thread = thread
  BY <1>1 DEF CallbackTask, Responds
<1>3. uiTasks' = Append(base, m) BY DEF Respond
<1> HIDE DEF m
<1>4. Numbered(uiTasks', nextQuery')
  <2>1. nextQuery \in Nat /\ c.id <= nextQuery BY DEF CallbackInv, TypeOK
  <2>2. m.kind \notin {"Success", "Failure"} BY <1>2 DEF Responds
  <2>3. nextQuery <= nextQuery /\ m.id <= nextQuery BY <1>2, <2>1
  <2>4. Numbered(Append(base, m), nextQuery) BY <1>2, <2>1, <2>2, <2>3, NumberedQueue
  <2>5. nextQuery' = nextQuery OBVIOUS
  <2> QED BY <1>3, <2>4, <2>5
<1>5. \A d \in callbacks' : \/ d \in callbacks /\ d # c
                            \/ /\ kind = "OnCallbackSuccess" /\ c.persistent
                               /\ d.id = c.id /\ d.calls = IF call > c.calls THEN call ELSE c.calls
  BY <1>1 DEF Respond, CallbackImpl
<1>6. \A d \in callbacks' : \E e \in callbacks : e.id = d.id /\ e.calls <= d.calls
  <2>1. \A d \in callbacks : d.calls \in Nat BY DEF TypeOK, CallbackImpl
  <2> QED BY <1>1, <1>5, <2>1
<1>7. \A b \in Browsers : Arriving(b)' = Arriving(b) BY DEF Arriving
<1>8. \A q \in pending : q.browser \in Browsers BY DEF TypeOK, QueryInfo
<1>9. ASSUME NEW q \in pending, ~(kind = "OnCallbackSuccess" /\ q.id = c.id) PROVE QueryCalls(q)'
  <2>1. ASSUME NEW t \in Threads, NEW k \in CallKinds
        PROVE  Carried(InTasks(k, q, t)', InTasks(k, q, t))
    <3>1. m.kind # k \/ m.id # q.id BY <1>2, <1>9 DEF Responds, CallKinds
    <3>2. Marks(Append(base, m), TasksFor(k, q, t)) = Marks(base, TasksFor(k, q, t))
      BY <1>2, <3>1, TaskMarks
    <3> QED BY <1>3, <3>2 DEF InTasks
  <2>2. CallsKept(q) BY <1>6, <1>7, <1>8, <2>1 DEF CallsKept, ArrivingKept
  <2> QED BY <2>2, KeptCalls DEF CallsInv
<1>10. ASSUME NEW q \in pending, kind = "OnCallbackSuccess", q.id = c.id, NEW t \in Threads
       PROVE  /\ InLine(InPipe(q, t)', InTasks("OnCallbackSuccess", q, t)', InTasks("Success", q, t)')
              /\ \A d \in callbacks' : d.id = q.id =>
                   /\ Within(InPipe(q, t)', d.calls)
                   /\ \A k \in CallKinds : Within(InTasks(k, q, t)', d.calls)
  <2> DEFINE A == InPipe(q, t)
             O == Marks(base, TasksFor("OnCallbackSuccess", q, t))
             S == Marks(base, TasksFor("Success", q, t))
             z == <<Len(base) + 1, call>>
  <2>1. InPipe(q, t)' = A BY <1>7, <1>8 DEF InPipe
  <2>2. Carried(A, A) BY DEF Carried
  <2>3. InLine(A, O, S)
    BY <1>10, <2>2, CarriedInLine DEF CallsInv, QueryCalls, CallKinds
  <2>4. InTasks("Success", q, t)' = S
    <3>1. m.kind # "Success" BY <1>2, <1>10
    <3> QED BY <1>2, <1>3, <3>1, TaskMarks DEF InTasks, CallKinds
  <2>5. /\ t = thread => InTasks("OnCallbackSuccess", q, t)' = O \cup {z}
        /\ t # thread => InTasks("OnCallbackSuccess", q, t)' = O
    BY <1>2, <1>3, <1>10, TaskMarks DEF InTasks, CallKinds
  <2>6. \A k \in CallKinds : \A x \in Marks(base, TasksFor(k, q, t)) :
          /\ x[1] \in 1..Len(base) /\ x[2] \in Nat
          /\ \E v \in InTasks(k, q, t) : v[2] = x[2]
    BY BaseMarks
  <2>7. t = thread => InLine(A, O \cup {z}, S)
    <3> SUFFICES ASSUME t = thread PROVE InLine(A, O \cup {z}, S) OBVIOUS
    <3>1. /\ \A x \in A : x[2] < call
          /\ \A x \in InTasks("OnCallbackSuccess", q, t) : x[2] < call
          /\ \A x \in S : call < x[2]
      BY <1>10
    <3>2. \A x \in O : x[1] \in 1..Len(base) /\ x[2] \in Nat /\ x[2] < call
      BY <2>6, <3>1 DEF CallKinds
    <3>3. Len(base) \in Nat OBVIOUS
    <3> HIDE DEF A, O, S
    <3> QED BY <2>3, <3>1, <3>2, <3>3, InLineWith
  <2>8. ASSUME NEW d \in callbacks', d.id = q.id
        PROVE  Within(A, d.calls) /\ Within(O \cup {z}, d.calls) /\ Within(S, d.calls)
    <3>1. d.calls = IF call > c.calls THEN call ELSE c.calls
      BY <1>5, <1>10, <2>8 DEF CallbackInv
    <3>2. c.calls <= d.calls /\ call <= d.calls /\ d.calls \in Nat BY <1>1, <3>1
    <3>3. /\ Within(A, c.calls) /\ Within(InTasks("OnCallbackSuccess", q, t), c.calls)
          /\ Within(InTasks("Success", q, t), c.calls)
      BY <1>10 DEF CallsInv, QueryCalls, CallKinds
    <3>4. \A x \in A : x[2] \in Nat BY MarksType
    <3>5. Within(A, d.calls) BY <1>1, <3>2, <3>3, <3>4 DEF Within
    <3>6. Within(O, d.calls) /\ Within(S, d.calls)
      BY <1>1, <2>6, <3>2, <3>3 DEF Within, CallKinds
    <3>7. z[2] = call OBVIOUS
    <3> QED BY <3>2, <3>5, <3>6, <3>7 DEF Within
  <2>9. \A d \in callbacks' : d.id = q.id =>
          /\ Within(InPipe(q, t)', d.calls)
          /\ \A k \in CallKinds : Within(InTasks(k, q, t)', d.calls)
    <3> HIDE DEF A, O, S, z
    <3> QED BY <2>1, <2>4, <2>5, <2>8 DEF CallKinds, Within
  <2> HIDE DEF A, O, S, z
  <2> QED BY <2>1, <2>3, <2>4, <2>5, <2>7, <2>9
<1>11. \A q \in pending : QueryCalls(q)'
  <2> TAKE q \in pending
  <2>1. CASE kind = "OnCallbackSuccess" /\ q.id = c.id BY <1>10, <2>1 DEF QueryCalls
  <2>2. CASE ~(kind = "OnCallbackSuccess" /\ q.id = c.id) BY <1>9, <2>2
  <2> QED BY <2>1, <2>2
<1> QED BY <1>4, <1>11 DEF CallsInv

\* A call on another thread is posted behind all that thread's calls before.
LEMMA PostCalls ==
  ASSUME TypeOK, TypeOK', CallbackInv, CallsInv, NEW c \in callbacks,
         NEW kind \in {"Success", "Failure"}, CallOnOtherThread(c, kind)
  PROVE  CallsInv'
<1> DEFINE m == [kind |-> kind, id |-> c.id, call |-> c.calls + 1, thread |-> "other"]
           d == [c EXCEPT !.calls = @ + 1]
<1>1. c.id \in Nat /\ c.calls \in Nat /\ c \in CallbackImpl BY DEF TypeOK, CallbackImpl
<1>2. /\ m \in CallbackTask /\ m.kind = kind /\ m.id = c.id /\ m.call = c.calls + 1
      /\ m.thread = "other" /\ d.id = c.id /\ d.calls = c.calls + 1
  BY <1>1 DEF CallbackTask, CallbackImpl, Threads
<1>3. /\ uiTasks' = Append(uiTasks, m) /\ callbacks' = (callbacks \ {c}) \cup {d}
      /\ UNCHANGED <<nextQuery, pending, renderTasks, toRenderer>>
  BY DEF CallOnOtherThread, rendererVars
<1> HIDE DEF m, d
<1>4. uiTasks \in Seq(CallbackTask \cup CancelTask) /\ nextQuery \in Nat BY DEF TypeOK
<1>5. Numbered(uiTasks', nextQuery')
  <2>1. c.id <= nextQuery BY DEF CallbackInv
  <2> QED BY <1>2, <1>3, <1>4, <2>1, NumberedQueue DEF CallsInv
<1>6. \A e \in callbacks' : \E f \in callbacks : f.id = e.id /\ f.calls <= e.calls
  <2>1. \A e \in callbacks : e.calls \in Nat BY DEF TypeOK, CallbackImpl
  <2> QED BY <1>1, <1>2, <1>3, <2>1
<1>7. \A b \in Browsers : Arriving(b)' = Arriving(b) BY <1>3 DEF Arriving
<1>8. \A q \in pending : q.browser \in Browsers BY DEF TypeOK, QueryInfo
<1>9. ASSUME NEW q \in pending, NEW t \in Threads
      PROVE  /\ InLine(InPipe(q, t)', InTasks("OnCallbackSuccess", q, t)', InTasks("Success", q, t)')
             /\ \A e \in callbacks' : e.id = q.id =>
                  /\ Within(InPipe(q, t)', e.calls)
                  /\ \A k \in CallKinds : Within(InTasks(k, q, t)', e.calls)
  <2> DEFINE A == InPipe(q, t)
             O == InTasks("OnCallbackSuccess", q, t)
             S == InTasks("Success", q, t)
             z == <<Len(uiTasks) + 1, c.calls + 1>>
  <2>1. InPipe(q, t)' = A BY <1>7, <1>8 DEF InPipe
  <2>2. InTasks("OnCallbackSuccess", q, t)' = O
    <3>1. m.kind # "OnCallbackSuccess" BY <1>2
    <3> QED BY <1>2, <1>3, <1>4, <3>1, TaskMarks DEF InTasks, CallKinds
  <2>3. \/ InTasks("Success", q, t)' = S
        \/ q.id = c.id /\ InTasks("Success", q, t)' = S \cup {z}
    BY <1>2, <1>3, <1>4, TaskMarks DEF InTasks, CallKinds
  <2>4. InLine(A, O, S) BY DEF CallsInv, QueryCalls
  <2>5. /\ \A x \in A : x[2] \in Nat
        /\ \A x \in O : x[2] \in Nat
        /\ \A x \in S : x[1] \in 1..Len(uiTasks) /\ x[2] \in Nat
    BY MarksType DEF CallKinds
  <2>6. \A e \in callbacks : e.id = q.id => Within(A, e.calls) /\ Within(O, e.calls) /\ Within(S, e.calls)
    BY DEF CallsInv, QueryCalls, CallKinds
  <2>7. z[2] = c.calls + 1 OBVIOUS
  <2>8. Len(uiTasks) \in Nat /\ c.calls + 1 \in Nat BY <1>1, <1>4
  <2>9. q.id = c.id => InLine(A, O, S \cup {z})
    <3> SUFFICES ASSUME q.id = c.id PROVE InLine(A, O, S \cup {z}) OBVIOUS
    <3>1. /\ \A x \in A \cup O : x[2] < c.calls + 1
          /\ \A x \in S : x[1] \in 1..Len(uiTasks) /\ x[2] \in Nat /\ x[2] < c.calls + 1
      BY <1>1, <2>5, <2>6 DEF Within
    <3> HIDE DEF A, O, S
    <3> QED BY <2>4, <2>8, <3>1, InLineWith
  <2>10. ASSUME NEW e \in callbacks', e.id = q.id
         PROVE  Within(A, e.calls) /\ Within(O, e.calls) /\ Within(S, e.calls)
                  /\ (q.id = c.id => c.calls + 1 <= e.calls)
    <3>1. PICK f \in callbacks : f.id = e.id /\ f.calls <= e.calls BY <1>6
    <3>2. f.calls \in Nat /\ e.calls \in Nat BY DEF TypeOK, CallbackImpl
    <3>3. Within(A, f.calls) /\ Within(O, f.calls) /\ Within(S, f.calls) BY <2>6, <2>10, <3>1
    <3>4. Within(A, e.calls) /\ Within(O, e.calls) /\ Within(S, e.calls)
      BY <2>5, <3>1, <3>2, <3>3 DEF Within
    <3>5. q.id = c.id => e = d BY <1>3, <2>10 DEF CallbackInv
    <3> QED BY <1>1, <1>2, <3>4, <3>5
  <2>11. ASSUME NEW e \in callbacks', e.id = q.id
         PROVE  /\ Within(InPipe(q, t)', e.calls)
                /\ \A k \in CallKinds : Within(InTasks(k, q, t)', e.calls)
    <3>1. Within(A, e.calls) /\ Within(O, e.calls) /\ Within(S, e.calls)
            /\ (q.id = c.id => c.calls + 1 <= e.calls)
      BY <2>10, <2>11
    <3> HIDE DEF A, O, S, z
    <3> QED BY <2>1, <2>2, <2>3, <2>7, <3>1 DEF CallKinds, Within
  <2> HIDE DEF A, O, S, z
  <2> QED BY <2>1, <2>2, <2>3, <2>4, <2>9, <2>11
<1>10. \A q \in pending : QueryCalls(q)' BY <1>9 DEF QueryCalls
<1> QED BY <1>3, <1>5, <1>10 DEF CallsInv

\* A success that is sent comes after the calls already sent and before those that wait; and it
\* is no response to any other query.
LEMMA AnswerCalls ==
  ASSUME TypeOK, TypeOK', CallsInv, OnePlace, OnCallbackSuccess, NEW p \in pending,
         p.id = Head(uiTasks).id,
         pending' = IF p.persistent THEN pending ELSE pending \ {p},
         SendToRenderer(p.browser, <<Success(p, Head(uiTasks))>>)
  PROVE  CallsInv'
<1> DEFINE m == Head(uiTasks)
           r == Success(p, m)
<1>1. uiTasks \in Seq(CallbackTask \cup CancelTask) /\ nextQuery \in Nat BY DEF TypeOK
<1>2. /\ uiTasks # <<>> /\ m.kind = "OnCallbackSuccess" /\ uiTasks' = Tail(uiTasks)
      /\ UNCHANGED <<nextQuery, callbacks, renderTasks>>
  BY DEF OnCallbackSuccess, rendererVars
<1>3. m \in CallbackTask /\ m.thread \in Threads /\ m.call \in Nat
  <2>1. m \in CallbackTask \cup CancelTask BY <1>1, <1>2
  <2>2. m \notin CancelTask BY <1>2 DEF CancelTask
  <2> QED BY <2>1, <2>2 DEF CallbackTask
<1>4. r \in Response /\ r.ok /\ r.req = p.req /\ r.thread = m.thread /\ r.call = m.call
  BY <1>3 DEF Success, Response, TypeOK, QueryInfo
<1>5. p.browser \in Browsers /\ \A q \in pending : q.browser \in Browsers BY DEF TypeOK, QueryInfo
<1>6. p.id = m.id OBVIOUS
<1>7. SendToRenderer(p.browser, <<r>>) OBVIOUS
<1> HIDE DEF r, m
<1>8. \A b \in Browsers : Arriving(b)' = IF b = p.browser /\ process[p.browser] = "up"
                                         THEN Append(Arriving(b), r) ELSE Arriving(b)
  BY <1>2, <1>4, <1>5, <1>7, ArrivingSend
<1>9. Numbered(uiTasks', nextQuery') BY <1>1, <1>2, NumberedQueue DEF CallsInv
<1>10. ASSUME NEW q \in pending, NEW t \in Threads, NEW k \in CallKinds
       PROVE  Carried(InTasks(k, q, t)', InTasks(k, q, t))
  BY <1>1, <1>2, TaskMarks DEF InTasks
<1>11. \A e \in callbacks' : e \in callbacks /\ e.calls \in Nat
  BY <1>2 DEF TypeOK, CallbackImpl
<1>12. ASSUME NEW q \in pending', q # p PROVE QueryCalls(q)'
  <2>1. q \in pending /\ q.browser \in Browsers BY <1>5
  <2>2. q.browser = p.browser => q.req # p.req BY <1>5, <1>12, <2>1 DEF OnePlace, Of
  <2>3. ASSUME NEW t \in Threads PROVE ArrivingKept(q.browser, SuccessesFor(q, t))
    <3>1. CASE q.browser = p.browser /\ process[p.browser] = "up"
      <4>1. r \notin SuccessesFor(q, t) BY <1>4, <2>2, <3>1 DEF SuccessesFor
      <4>2. Arriving(q.browser)' = Append(Arriving(q.browser), r) BY <1>8, <2>1, <3>1
      <4>3. Arriving(q.browser) \in Seq(Response) BY <2>1, ArrivingType
      <4>4. <<r>> \in Seq(Response) /\ Append(Arriving(q.browser), r) = Arriving(q.browser) \o <<r>>
        BY <1>4, <4>3
      <4>5. \A i \in DOMAIN <<r>> : <<r>>[i] = r OBVIOUS
      <4> QED BY <4>1, <4>2, <4>4, <4>5 DEF ArrivingKept
    <3>2. CASE ~(q.browser = p.browser /\ process[p.browser] = "up")
      BY <1>8, <2>1, <3>2 DEF ArrivingKept
    <3> QED BY <3>1, <3>2
  <2>4. CallsKept(q) BY <1>10, <1>11, <2>1, <2>3 DEF CallsKept
  <2> QED BY <2>1, <2>4, KeptCalls DEF CallsInv
<1>13. ASSUME p \in pending', NEW t \in Threads
       PROVE  /\ InLine(InPipe(p, t)', InTasks("OnCallbackSuccess", p, t)', InTasks("Success", p, t)')
              /\ \A e \in callbacks' : e.id = p.id =>
                   /\ Within(InPipe(p, t)', e.calls)
                   /\ \A k \in CallKinds : Within(InTasks(k, p, t)', e.calls)
  <2> DEFINE A == InPipe(p, t)
             O == InTasks("OnCallbackSuccess", p, t)
             S == InTasks("Success", p, t)
             z == <<Len(Arriving(p.browser)) + 1, m.call>>
  <2>1. Arriving(p.browser) \in Seq(Response) BY <1>5, ArrivingType
  <2>2. \/ InPipe(p, t)' = A
        \/ t = m.thread /\ InPipe(p, t)' = A \cup {z}
    <3> DEFINE a == Arriving(p.browser)
               H == SuccessesFor(p, t)
    <3>1. r \in H <=> t = m.thread BY <1>4 DEF SuccessesFor
    <3>2. Arriving(p.browser)' = a \/ Arriving(p.browser)' = Append(a, r) BY <1>5, <1>8
    <3>3. InPipe(p, t)' = Marks(Arriving(p.browser)', H) /\ A = Marks(a, H) BY DEF InPipe, SuccessesFor
    <3>4. a \in Seq(Response) BY <2>1
    <3> HIDE DEF a, H, A
    <3>5. /\ r \notin H => Marks(Append(a, r), H) = Marks(a, H)
          /\ r \in H => Marks(Append(a, r), H) = Marks(a, H) \cup {<<Len(a) + 1, r.call>>}
      BY <1>4, <3>4, MarksAppended
    <3> QED BY <1>4, <3>1, <3>2, <3>3, <3>5 DEF a
  <2>3. InLine(A, O, S) /\ Carried(A, A) BY DEF CallsInv, QueryCalls, Carried
  <2>4. /\ Carried(InTasks("OnCallbackSuccess", p, t)', O) /\ Carried(InTasks("Success", p, t)', S)
        /\ InLine(A, InTasks("OnCallbackSuccess", p, t)', InTasks("Success", p, t)')
    BY <1>10, <2>3, CarriedInLine DEF CallKinds
  <2>5. \A x \in A : x[1] \in 1..Len(Arriving(p.browser)) /\ x[2] \in Nat BY MarksType
  <2>6. t = m.thread => /\ <<1, m.call>> \in O
                        /\ \A x \in InTasks("OnCallbackSuccess", p, t)' :
                             x[1] \in Nat /\ x[1] > 0 /\ <<x[1] + 1, x[2]>> \in O
    <3> DEFINE H == TasksFor("OnCallbackSuccess", p, t)
               X == CallbackTask \cup CancelTask
    <3>1. t = m.thread => Head(uiTasks) \in H BY <1>2, <1>3, <1>6 DEF TasksFor, m
    <3>2. InTasks("OnCallbackSuccess", p, t)' = Marks(Tail(uiTasks), H) /\ O = Marks(uiTasks, H)
      BY <1>2 DEF InTasks
    <3>3. uiTasks \in Seq(X) BY <1>1
    <3> HIDE DEF H, X, O
    <3>4. /\ \A x \in Marks(Tail(uiTasks), H) : x[1] \in Nat /\ x[1] > 0 /\ <<x[1] + 1, x[2]>> \in Marks(uiTasks, H)
          /\ Head(uiTasks) \in H => <<1, Head(uiTasks).call>> \in Marks(uiTasks, H)
      BY <1>2, <3>3, MarksOf
    <3> QED BY <3>1, <3>2, <3>4 DEF m
  <2>7. t = m.thread => /\ \A x \in A : x[2] < m.call
                        /\ \A x \in InTasks("OnCallbackSuccess", p, t)' : m.call < x[2]
                        /\ \A x \in InTasks("Success", p, t)' : m.call < x[2]
    <3> SUFFICES ASSUME t = m.thread
                 PROVE  /\ \A x \in A : x[2] < m.call
                        /\ \A x \in InTasks("OnCallbackSuccess", p, t)' : m.call < x[2]
                        /\ \A x \in InTasks("Success", p, t)' : m.call < x[2]
      OBVIOUS
    <3> DEFINE y == <<1, m.call>>
    <3>1. y \in O /\ y[1] = 1 /\ y[2] = m.call BY <2>6
    <3> HIDE DEF y
    <3>2. \A x \in A : x[2] < m.call BY <2>3, <3>1 DEF InLine, Before
    <3>3. \A x \in S : m.call < x[2] BY <2>3, <3>1 DEF InLine, Before
    <3>4. \A x \in InTasks("Success", p, t)' : m.call < x[2] BY <2>4, <3>3 DEF Carried
    <3>5. ASSUME NEW x \in InTasks("OnCallbackSuccess", p, t)' PROVE m.call < x[2]
      <4> DEFINE w == <<x[1] + 1, x[2]>>
      <4>1. w \in O /\ w[1] = x[1] + 1 /\ w[2] = x[2] /\ x[1] \in Nat /\ x[1] > 0 BY <2>6, <3>5
      <4> HIDE DEF w
      <4>2. y[1] < w[1] BY <3>1, <4>1
      <4> QED BY <2>3, <3>1, <4>1, <4>2 DEF InLine, Rising
    <3> QED BY <3>2, <3>4, <3>5
  <2>8. t = m.thread => InLine(A \cup {z}, InTasks("OnCallbackSuccess", p, t)', InTasks("Success", p, t)')
    <3> SUFFICES ASSUME t = m.thread
                 PROVE  InLine(A \cup {z}, InTasks("OnCallbackSuccess", p, t)', InTasks("Success", p, t)')
      OBVIOUS
    <3> DEFINE O1 == InTasks("OnCallbackSuccess", p, t)'
               S1 == InTasks("Success", p, t)'
               n == Len(Arriving(p.browser))
    <3>1. n \in Nat BY <2>1
    <3>2. InLine(A, O1, S1) BY <2>4
    <3>3. \A x \in A : x[1] \in 1..n /\ x[2] \in Nat /\ x[2] < m.call BY <2>5, <2>7
    <3>4. \A x \in O1 \cup S1 : m.call < x[2] BY <2>7
    <3>5. z = <<n + 1, m.call>> OBVIOUS
    <3> HIDE DEF A, O1, S1, n, z
    <3>6. InLine(A \cup {<<n + 1, m.call>>}, O1, S1) BY <1>3, <3>1, <3>2, <3>3, <3>4, InLineWith
    <3> QED BY <3>5, <3>6 DEF O1, S1
  <2>9. ASSUME NEW e \in callbacks', e.id = p.id
        PROVE  /\ Within(InPipe(p, t)', e.calls)
               /\ \A k \in CallKinds : Within(InTasks(k, p, t)', e.calls)
    <3>1. e \in callbacks /\ e.calls \in Nat BY <1>11
    <3>2. Within(A, e.calls) /\ \A k \in CallKinds : Within(InTasks(k, p, t), e.calls)
      BY <2>9, <3>1 DEF CallsInv, QueryCalls
    <3>3. \A k \in CallKinds : Within(InTasks(k, p, t)', e.calls)
      BY <1>10, <3>2 DEF Within, Carried
    <3>4. z[2] = m.call OBVIOUS
    <3>5. t = m.thread => m.call <= e.calls
      <4> DEFINE y == <<1, m.call>>
      <4>1. t = m.thread => y \in O BY <2>6
      <4>2. y[2] = m.call OBVIOUS
      <4> HIDE DEF y
      <4> QED BY <3>2, <4>1, <4>2 DEF Within, CallKinds
    <3> HIDE DEF A, O, S, z
    <3> QED BY <2>2, <3>2, <3>3, <3>4, <3>5 DEF Within
  <2> HIDE DEF A, O, S, z
  <2> QED BY <2>2, <2>4, <2>8, <2>9
<1>14. \A q \in pending' : QueryCalls(q)'
  <2> TAKE q \in pending'
  <2>1. CASE q = p BY <1>13, <2>1 DEF QueryCalls
  <2>2. CASE q # p BY <1>12, <2>2
  <2> QED BY <2>1, <2>2
<1> QED BY <1>9, <1>14 DEF CallsInv

\* A failure is no success.
LEMMA FailureKept ==
  ASSUME TypeOK, NEW b \in Browsers, NEW f \in Response, ~f.ok, SendToRenderer(b, <<f>>),
         UNCHANGED renderTasks, NEW c \in Browsers, NEW q, NEW t
  PROVE  ArrivingKept(c, SuccessesFor(q, t))
<1>1. Arriving(c)' = IF c = b /\ process[b] = "up" THEN Append(Arriving(c), f) ELSE Arriving(c)
  BY ArrivingSend
<1>2. Arriving(c) \in Seq(Response) BY ArrivingType
<1>3. <<f>> \in Seq(Response) /\ Append(Arriving(c), f) = Arriving(c) \o <<f>> BY <1>2
<1>4. \A i \in DOMAIN <<f>> : <<f>>[i] \notin SuccessesFor(q, t) BY DEF SuccessesFor
<1> QED BY <1>1, <1>3, <1>4 DEF ArrivingKept

\* A query accepted has an id and a request of its own: nothing is on its way for it but the
\* call its handler made meanwhile.
LEMMA AcceptCalls ==
  ASSUME TypeOK, TypeOK', CallbackInv, CallsInv, OnePlace, NEW b \in Browsers, NEW h \in Handlers,
         NEW called \in {"none"} \cup Responds, QueryHandled(b, h, called)
  PROVE  CallsInv'
<1>0. PICK n : n = NewQuery(b, h) OBVIOUS
<1> DEFINE c == [id |-> n.id, persistent |-> n.persistent, calls |-> 0]
           m == [kind |-> called, id |-> n.id, call |-> 1, thread |-> "ui"]
<1>1. n.id = nextQuery + 1 /\ nextQuery \in Nat /\ n.browser = b /\ n.req = Head(toBrowser[b]).req
  BY <1>0 DEF NewQuery, TypeOK
<1>2. /\ pending' = pending \cup {n} /\ nextQuery' = n.id /\ UNCHANGED <<renderTasks, toRenderer>>
      /\ \/ called = "none" /\ uiTasks' = uiTasks
         \/ called # "none" /\ uiTasks' = Append(uiTasks, m)
  BY <1>0 DEF QueryHandled, rendererVars
<1>3. \A d \in callbacks' : \/ d \in callbacks
                            \/ d.id = n.id /\ (called = "none" \/ d.calls = 1)
  BY <1>0 DEF QueryHandled
<1>4. /\ m.kind = called /\ m.id = n.id /\ m.call = 1 /\ m.thread = "ui"
      /\ called # "none" => m \in CallbackTask
  BY <1>1 DEF CallbackTask, Responds, Threads
<1>5. \A k \in Asked(b), r \in Coming(b) : toBrowser[b][k].req # r.req BY DEF OnePlace
<1>6. 1 \in Asked(b) /\ Head(toBrowser[b]) = toBrowser[b][1]
  BY AskedRead DEF QueryHandled
<1> HIDE DEF c, m
<1>7. uiTasks \in Seq(CallbackTask \cup CancelTask) BY DEF TypeOK
<1>8. Numbered(uiTasks', nextQuery')
  <2>1. nextQuery <= nextQuery' /\ nextQuery' \in Nat /\ m.id <= nextQuery' BY <1>1, <1>2, <1>4
  <2>2. m.kind \notin {"Success", "Failure"} BY <1>4 DEF Responds
  <2> QED BY <1>1, <1>2, <1>4, <1>7, <2>1, <2>2, NumberedQueue DEF CallsInv
<1>9. \A e \in Browsers : Arriving(e)' = Arriving(e) BY <1>2 DEF Arriving
<1>10. \A p \in pending : p.id # n.id
  <2>1. \A p \in pending : p.id \in Nat /\ p.id <= nextQuery BY DEF CallbackInv, TypeOK, QueryInfo
  <2> QED BY <1>1, <2>1
<1>11. \A d \in callbacks : d.id # n.id BY <1>10 DEF CallbackInv
<1>12. ASSUME NEW q \in pending PROVE QueryCalls(q)'
  <2>1. q.browser \in Browsers /\ q.id # n.id BY <1>10 DEF TypeOK, QueryInfo
  <2>2. ASSUME NEW t \in Threads, NEW k \in CallKinds
        PROVE  Carried(InTasks(k, q, t)', InTasks(k, q, t))
    <3>1. Carried(Marks(uiTasks, TasksFor(k, q, t)), Marks(uiTasks, TasksFor(k, q, t)))
      BY <1>7, TaskMarks
    <3>2. called # "none" =>
            Marks(Append(uiTasks, m), TasksFor(k, q, t)) = Marks(uiTasks, TasksFor(k, q, t))
      BY <1>4, <1>7, <2>1, TaskMarks
    <3> QED BY <1>2, <3>1, <3>2 DEF InTasks
  <2>3. \A d \in callbacks' : d.id = q.id => \E e \in callbacks : e.id = q.id /\ e.calls <= d.calls
    <3>1. \A d \in callbacks : d.calls \in Nat BY DEF TypeOK, CallbackImpl
    <3> QED BY <1>3, <2>1, <3>1
  <2>4. CallsKept(q) BY <1>9, <2>1, <2>2, <2>3 DEF CallsKept, ArrivingKept
  <2> QED BY <2>4, KeptCalls DEF CallsInv
<1>13. ASSUME NEW t \in Threads
       PROVE  /\ InLine(InPipe(n, t)', InTasks("OnCallbackSuccess", n, t)', InTasks("Success", n, t)')
              /\ \A d \in callbacks' : d.id = n.id =>
                   /\ Within(InPipe(n, t)', d.calls)
                   /\ \A k \in CallKinds : Within(InTasks(k, n, t)', d.calls)
  <2>1. InPipe(n, t)' = {}
    <3>1. \A i \in DOMAIN Arriving(b) : Arriving(b)[i] \notin SuccessesFor(n, t)
      <4>1. \A i \in DOMAIN Arriving(b) : Arriving(b)[i] \in Coming(b) BY ArrivingType
      <4> QED BY <1>1, <1>5, <1>6, <4>1 DEF SuccessesFor
    <3>2. Marks(Arriving(b), SuccessesFor(n, t)) = {} BY <3>1 DEF Marks, Calls
    <3>3. InPipe(n, t)' = Marks(Arriving(b)', SuccessesFor(n, t))
      <4>1. Arriving(n.browser)' = Arriving(b)' BY <1>1
      <4> QED BY <4>1 DEF InPipe, SuccessesFor
    <3> QED BY <1>9, <3>2, <3>3
  <2>2. ASSUME NEW k \in CallKinds PROVE Marks(uiTasks, TasksFor(k, n, t)) = {}
    <3>1. \A i \in DOMAIN uiTasks : uiTasks[i] \notin TasksFor(k, n, t)
      BY <1>1 DEF CallsInv, Numbered, TasksFor
    <3> QED BY <3>1 DEF Marks, Calls
  <2> DEFINE z == <<Len(uiTasks) + 1, 1>>
  <2>3. InTasks("Success", n, t)' = {}
    <3>1. m.kind # "Success" BY <1>4 DEF Responds
    <3>2. called # "none" =>
            Marks(Append(uiTasks, m), TasksFor("Success", n, t)) = Marks(uiTasks, TasksFor("Success", n, t))
      BY <1>4, <1>7, <3>1, TaskMarks DEF CallKinds
    <3> QED BY <1>2, <2>2, <3>2 DEF InTasks, CallKinds
  <2>4. \/ InTasks("OnCallbackSuccess", n, t)' = {}
        \/ called # "none" /\ InTasks("OnCallbackSuccess", n, t)' = {z}
    <3>1. called # "none" =>
            \/ Marks(Append(uiTasks, m), TasksFor("OnCallbackSuccess", n, t))
                 = Marks(uiTasks, TasksFor("OnCallbackSuccess", n, t))
            \/ Marks(Append(uiTasks, m), TasksFor("OnCallbackSuccess", n, t))
                 = Marks(uiTasks, TasksFor("OnCallbackSuccess", n, t)) \cup {z}
      BY <1>4, <1>7, TaskMarks DEF CallKinds
    <3> QED BY <1>2, <2>2, <3>1 DEF InTasks, CallKinds
  <2>5. InLine({}, {}, {}) BY DEF InLine, Rising, Before
  <2>6. InLine({}, {z}, {})
    <3>1. Len(uiTasks) \in Nat BY <1>7
    <3>2. InLine({}, {} \cup {z}, {}) BY <2>5, <3>1, InLineWith
    <3>3. {} \cup {z} = {z} OBVIOUS
    <3> QED BY <3>2, <3>3
  <2>7. ASSUME NEW d \in callbacks', d.id = n.id
        PROVE  /\ Within(InPipe(n, t)', d.calls)
               /\ \A k \in CallKinds : Within(InTasks(k, n, t)', d.calls)
    <3>1. called = "none" \/ d.calls = 1 BY <1>3, <1>11, <2>7
    <3>2. z[2] = 1 OBVIOUS
    <3> HIDE DEF z
    <3> QED BY <2>1, <2>3, <2>4, <3>1, <3>2 DEF Within, CallKinds
  <2> QED BY <2>1, <2>3, <2>4, <2>5, <2>6, <2>7
<1>14. QueryCalls(n)' BY <1>13 DEF QueryCalls
<1> QED BY <1>2, <1>8, <1>12, <1>14 DEF CallsInv

\* Every step of the browser process keeps the invariant: the application's calls, ...
LEMMA ApplicationCalls ==
  ASSUME TypeOK, TypeOK', PendingFinite, CallbackInv, CallsInv, Application
  PROVE  CallsInv'
<1> USE DEF rendererVars
<1>1. \A q \in pending : q.browser \in Browsers BY DEF TypeOK, QueryInfo
<1>2. uiTasks \in Seq(CallbackTask \cup CancelTask) /\ nextQuery \in Nat BY DEF TypeOK
<1>3. UNCHANGED <<renderTasks, toRenderer>> =>
        \A b \in Browsers : \A H : ArrivingKept(b, H)
  BY DEF ArrivingKept, Arriving
<1>4. CASE \E h \in Handlers : AddHandler(h)
  <2>1. /\ UNCHANGED <<nextQuery, uiTasks, pending, callbacks, renderTasks, toRenderer>>
        /\ nextQuery <= nextQuery'
    BY <1>2, <1>4 DEF AddHandler
  <2> QED BY <1>1, <1>3, <2>1, QuietCalls
<1>5. ASSUME NEW bs, NEW hs, CancelPendingFor(bs, hs), UNCHANGED <<nextQuery, uiTasks, renderTasks>>
      PROVE  CallsInv'
  <2>1. Matching(bs, hs) \subseteq pending BY DEF Matching
  <2>2. pending' \subseteq pending /\ callbacks' \subseteq callbacks /\ NotifyRenderers(Matching(bs, hs))
    BY <1>5 DEF CancelPendingFor, CancelQueries
  <2>3. \A q \in pending' : \A t \in Threads : ArrivingKept(q.browser, SuccessesFor(q, t))
    BY <1>1, <1>5, <2>1, <2>2, ArrivingNotify
  <2> QED BY <1>2, <1>5, <2>2, <2>3, QuietCalls
<1>6. CASE \E h \in Handlers : RemoveHandler(h) BY <1>5, <1>6 DEF RemoveHandler
<1>7. CASE \E bs \in BrowserSets, hs \in HandlerSets : CancelPending(bs, hs)
  BY <1>5, <1>7 DEF CancelPending
<1>8. ASSUME NEW bs \in BrowserSets, NEW hs \in HandlerSets, PostCancelPending(bs, hs) PROVE CallsInv'
  <2> DEFINE m == [kind |-> "CancelPendingFor", browsers |-> bs, handlers |-> hs]
  <2>1. m \in CancelTask /\ m.kind \notin CallKinds
    BY DEF CancelTask, CallKinds, BrowserSets, HandlerSets
  <2>2. /\ uiTasks' = Append(uiTasks, m)
        /\ UNCHANGED <<nextQuery, pending, callbacks, renderTasks, toRenderer>>
    BY <1>8 DEF PostCancelPending
  <2> HIDE DEF m
  <2>3. Numbered(uiTasks', nextQuery') BY <1>2, <2>1, <2>2, NumberedQueue DEF CallsInv
  <2>4. \A d \in callbacks' : \E c \in callbacks : c.id = d.id /\ c.calls <= d.calls
    BY <2>2 DEF TypeOK, CallbackImpl
  <2>5. \A q \in pending' : \A t \in Threads : ArrivingKept(q.browser, SuccessesFor(q, t))
    BY <1>1, <1>3, <2>2
  <2> QED BY <2>1, <2>2, <2>3, <2>4, <2>5, QueueCalls
<1>9. ASSUME NEW c \in callbacks, NEW kind \in {"Success", "Failure"}, CallOnUiThread(c, kind)
      PROVE  CallsInv'
  <2>1. /\ Respond(c, Posted(kind), c.calls + 1, "ui", uiTasks)
        /\ UNCHANGED <<nextQuery, pending, renderTasks, toRenderer>>
    BY <1>9 DEF CallOnUiThread
  <2>2. Posted(kind) \in Responds /\ c.calls \in Nat /\ c.calls + 1 \in Nat /\ "ui" \in Threads
    BY DEF Posted, Responds, TypeOK, CallbackImpl, Threads
  <2>3. Numbered(uiTasks, nextQuery) BY DEF CallsInv
  <2>4. \A q \in pending, t \in Threads, k \in CallKinds :
          Carried(Marks(uiTasks, TasksFor(k, q, t)), InTasks(k, q, t))
    BY <1>2, TaskMarks DEF InTasks
  <2>5. ASSUME NEW q \in pending, q.id = c.id
        PROVE  /\ \A x \in InPipe(q, "ui") : x[2] < c.calls + 1
               /\ \A x \in InTasks("OnCallbackSuccess", q, "ui") : x[2] < c.calls + 1
               /\ \A x \in Marks(uiTasks, TasksFor("Success", q, "ui")) : c.calls + 1 < x[2]
    <3>1. Within(InPipe(q, "ui"), c.calls) /\ Within(InTasks("OnCallbackSuccess", q, "ui"), c.calls)
      BY <2>2, <2>5 DEF CallsInv, QueryCalls, CallKinds
    <3>2. /\ \A x \in InPipe(q, "ui") : x[2] \in Nat
          /\ \A x \in InTasks("OnCallbackSuccess", q, "ui") : x[2] \in Nat
      BY <2>2, MarksType DEF CallKinds
    <3>3. \A i \in DOMAIN uiTasks : uiTasks[i] \notin TasksFor("Success", q, "ui")
      BY <2>3 DEF Numbered, TasksFor
    <3>4. Marks(uiTasks, TasksFor("Success", q, "ui")) = {} BY <3>3 DEF Marks, Calls
    <3> QED BY <2>2, <3>1, <3>2, <3>4 DEF Within
  <2> DEFINE kind1 == Posted(kind)
             call == c.calls + 1
  <2> HIDE DEF kind1, call
  <2>6. kind1 \in Responds /\ call \in Nat /\ Respond(c, kind1, call, "ui", uiTasks)
    BY <2>1, <2>2 DEF kind1, call
  <2>7. \A q \in pending : kind1 = "OnCallbackSuccess" /\ q.id = c.id =>
          /\ \A x \in InPipe(q, "ui") : x[2] < call
          /\ \A x \in InTasks("OnCallbackSuccess", q, "ui") : x[2] < call
          /\ \A x \in Marks(uiTasks, TasksFor("Success", q, "ui")) : call < x[2]
    BY <2>5 DEF call
  <2> QED BY <1>2, <2>1, <2>2, <2>3, <2>4, <2>6, <2>7, RespondCalls
<1> QED BY <1>4, <1>6, <1>7, <1>8, <1>9, PostCalls, Application DEF Application

\* ... the tasks of the UI thread, ...
LEMMA UiTaskCalls ==
  ASSUME TypeOK, TypeOK', PendingFinite, CallbackInv, OnePlace, CallsInv, RunUiTask
  PROVE  CallsInv'
<1> USE DEF rendererVars
<1> DEFINE m == Head(uiTasks)
<1>1. \A q \in pending : q.browser \in Browsers BY DEF TypeOK, QueryInfo
<1>2. uiTasks \in Seq(CallbackTask \cup CancelTask) /\ nextQuery \in Nat BY DEF TypeOK
<1>3. uiTasks # <<>> /\ m \in CallbackTask \cup CancelTask
  BY <1>2 DEF RunUiTask, RunPostedCall, OnCallbackSuccess, OnCallbackFailure, RunCancelPendingFor
<1>4. UNCHANGED <<renderTasks, toRenderer>> => \A b \in Browsers : \A H : ArrivingKept(b, H)
  BY DEF ArrivingKept, Arriving
<1>5. Tail(uiTasks) \in Seq(CallbackTask \cup CancelTask) /\ Numbered(Tail(uiTasks), nextQuery)
  BY <1>2, <1>3, NumberedQueue DEF CallsInv
<1>6. ASSUME uiTasks' = Tail(uiTasks), UNCHANGED nextQuery, pending' \subseteq pending,
             callbacks' \subseteq callbacks,
             \A q \in pending' : \A t \in Threads : ArrivingKept(q.browser, SuccessesFor(q, t))
      PROVE  CallsInv'
  <2>1. \A d \in callbacks' : \E c \in callbacks : c.id = d.id /\ c.calls <= d.calls
    BY <1>6 DEF TypeOK, CallbackImpl
  <2>2. Numbered(uiTasks', nextQuery') BY <1>5, <1>6
  <2> QED BY <1>3, <1>6, <2>1, <2>2, QueueCalls
<1>7. ASSUME m.kind \in {"Success", "Failure"}, NEW c \in callbacks, c.id = m.id,
             Respond(c, Posted(m.kind), m.call, m.thread, Tail(uiTasks)),
             UNCHANGED <<nextQuery, pending, renderTasks, toRenderer>>
      PROVE  CallsInv'
  <2>1. m \in CallbackTask /\ m.call \in Nat /\ m.thread \in Threads /\ Posted(m.kind) \in Responds
    BY <1>3, <1>7 DEF CallbackTask, CancelTask, Posted, Responds
  <2>2. \A q \in pending, t \in Threads, k \in CallKinds :
          Carried(Marks(Tail(uiTasks), TasksFor(k, q, t)), InTasks(k, q, t))
    BY <1>2, <1>3, TaskMarks DEF InTasks
  <2>3. ASSUME NEW q \in pending, Posted(m.kind) = "OnCallbackSuccess", q.id = c.id
        PROVE  /\ \A x \in InPipe(q, m.thread) : x[2] < m.call
               /\ \A x \in InTasks("OnCallbackSuccess", q, m.thread) : x[2] < m.call
               /\ \A x \in Marks(Tail(uiTasks), TasksFor("Success", q, m.thread)) : m.call < x[2]
    <3> DEFINE S == InTasks("Success", q, m.thread)
               y == <<1, m.call>>
               H == TasksFor("Success", q, m.thread)
               X == CallbackTask \cup CancelTask
    <3>1. m.kind = "Success" BY <1>7, <2>3 DEF Posted
    <3>2. m \in H BY <1>7, <2>1, <2>3, <3>1 DEF TasksFor
    <3>3. uiTasks \in Seq(X) /\ S = Marks(uiTasks, H) BY <1>2 DEF InTasks
    <3>4. InLine(InPipe(q, m.thread), InTasks("OnCallbackSuccess", q, m.thread), S)
      BY <2>1 DEF CallsInv, QueryCalls
    <3>5. y[1] = 1 /\ y[2] = m.call OBVIOUS
    <3> HIDE DEF S, H, X
    <3>6. /\ y \in S
          /\ \A x \in Marks(Tail(uiTasks), H) : x[1] \in Nat /\ x[1] > 0 /\ <<x[1] + 1, x[2]>> \in S
      BY <1>3, <3>2, <3>3, MarksOf
    <3> HIDE DEF y
    <3>7. ASSUME NEW x \in Marks(Tail(uiTasks), H) PROVE m.call < x[2]
      <4> DEFINE w == <<x[1] + 1, x[2]>>
      <4>1. w \in S /\ w[1] = x[1] + 1 /\ w[2] = x[2] /\ x[1] \in Nat /\ x[1] > 0 BY <3>6, <3>7
      <4> HIDE DEF w
      <4>2. y[1] < w[1] BY <3>5, <4>1
      <4> QED BY <3>4, <3>5, <3>6, <4>1, <4>2 DEF InLine, Rising
    <3>8. /\ \A x \in InPipe(q, m.thread) : x[2] < m.call
          /\ \A x \in InTasks("OnCallbackSuccess", q, m.thread) : x[2] < m.call
      BY <3>4, <3>5, <3>6 DEF InLine, Before
    <3> QED BY <3>7, <3>8 DEF H
  <2> DEFINE kind1 == Posted(m.kind)
             call == m.call
             thread == m.thread
             base == Tail(uiTasks)
  <2>4. /\ base \in Seq(CallbackTask \cup CancelTask) /\ Numbered(base, nextQuery)
        /\ kind1 \in Responds /\ call \in Nat /\ thread \in Threads
        /\ Respond(c, kind1, call, thread, base)
        /\ \A q \in pending, t \in Threads, k \in CallKinds :
             Carried(Marks(base, TasksFor(k, q, t)), InTasks(k, q, t))
        /\ \A q \in pending : kind1 = "OnCallbackSuccess" /\ q.id = c.id =>
             /\ \A x \in InPipe(q, thread) : x[2] < call
             /\ \A x \in InTasks("OnCallbackSuccess", q, thread) : x[2] < call
             /\ \A x \in Marks(base, TasksFor("Success", q, thread)) : call < x[2]
    BY <1>5, <1>7, <2>1, <2>2, <2>3
  <2> HIDE DEF kind1, call, thread, base, m
  <2> QED BY <1>7, <2>4, RespondCalls
<1>8. CASE RunPostedCall
  <2>1. /\ m.kind \in {"Success", "Failure"}
        /\ UNCHANGED <<nextQuery, pending, renderTasks, toRenderer>>
        /\ \/ \E c \in callbacks : c.id = m.id /\ Respond(c, Posted(m.kind), m.call, m.thread, Tail(uiTasks))
           \/ uiTasks' = Tail(uiTasks) /\ UNCHANGED callbacks
    BY <1>8 DEF RunPostedCall
  <2> QED BY <1>1, <1>4, <1>6, <1>7, <2>1
<1>9. CASE OnCallbackSuccess
  <2>1. uiTasks' = Tail(uiTasks) /\ UNCHANGED <<nextQuery, callbacks, renderTasks>>
    BY <1>9 DEF OnCallbackSuccess
  <2>2. CASE UNCHANGED <<pending, toRenderer>> BY <1>1, <1>4, <1>6, <2>1, <2>2
  <2> QED BY <1>9, <2>2, AnswerCalls DEF OnCallbackSuccess
<1>10. CASE OnCallbackFailure
  <2>1. uiTasks' = Tail(uiTasks) /\ UNCHANGED <<nextQuery, callbacks, renderTasks>>
    BY <1>10 DEF OnCallbackFailure
  <2>2. CASE UNCHANGED <<pending, toRenderer>> BY <1>1, <1>4, <1>6, <2>1, <2>2
  <2>3. ASSUME NEW p \in pending, pending' = pending \ {p}, SendToRenderer(p.browser, <<Failure(p)>>)
        PROVE  CallsInv'
    <3>1. Failure(p) \in Response /\ ~Failure(p).ok
      BY DEF Failure, Response, TypeOK, QueryInfo, Threads
    <3>2. \A q \in pending' : \A t \in Threads : ArrivingKept(q.browser, SuccessesFor(q, t))
      BY <1>1, <2>1, <2>3, <3>1, FailureKept
    <3> QED BY <1>6, <2>1, <2>3, <3>2
  <2> QED BY <1>10, <2>2, <2>3 DEF OnCallbackFailure
<1>11. CASE RunCancelPendingFor
  <2>1. /\ uiTasks' = Tail(uiTasks) /\ UNCHANGED <<nextQuery, renderTasks>>
        /\ CancelPendingFor(m.browsers, m.handlers)
    BY <1>11 DEF RunCancelPendingFor
  <2>2. Matching(m.browsers, m.handlers) \subseteq pending BY DEF Matching
  <2>3. /\ pending' \subseteq pending /\ callbacks' \subseteq callbacks
        /\ NotifyRenderers(Matching(m.browsers, m.handlers))
    BY <2>1 DEF CancelPendingFor, CancelQueries
  <2>4. \A q \in pending' : \A t \in Threads : ArrivingKept(q.browser, SuccessesFor(q, t))
    BY <1>1, <2>1, <2>2, <2>3, ArrivingNotify
  <2> QED BY <1>6, <2>1, <2>3, <2>4
<1> QED BY <1>8, <1>9, <1>10, <1>11 DEF RunUiTask

\* Renderer processes are numbered.
LEMMA EpochNat == ASSUME TypeOK, NEW b \in Browsers PROVE epoch[b] \in Nat
<1>1. epoch[b] \in 1..MaxEpoch BY DEF TypeOK
<1> QED BY <1>1, Bounds

\* ... what it hears of the renderers; ...
LEMMA MessageCalls ==
  ASSUME TypeOK, TypeOK', CallbackInv, OnePlace, CallsInv, NEW b \in Browsers,
         QueryReceived(b) \/ CancelReceived(b)
  PROVE  CallsInv'
<1>1. \A q \in pending : q.browser \in Browsers BY DEF TypeOK, QueryInfo
<1>2. uiTasks \in Seq(CallbackTask \cup CancelTask) /\ nextQuery \in Nat BY DEF TypeOK
<1>8. epoch[b] \in Nat BY EpochNat
<1> USE DEF rendererVars
<1> DEFINE m == Head(toBrowser[b])
           f == Failure([ctx |-> m.ctx, req |-> m.req, epoch |-> epoch[b]])
<1>3. ASSUME Receive(b, "query"), CancelUnhandledQuery(b, m), UNCHANGED <<pending, renderTasks>>
      PROVE  \A q \in pending' : \A t \in Threads : ArrivingKept(q.browser, SuccessesFor(q, t))
  <2>2. m \in QueryMsg BY <1>3, ReceiveType
  <2>3. f \in Response /\ ~f.ok BY <1>8, <2>2 DEF Failure, Response, Threads, QueryMsg
  <2>4. SendToRenderer(b, <<f>>) BY <1>3 DEF CancelUnhandledQuery
  <2> HIDE DEF f, m
  <2> QED BY <1>1, <1>3, <2>3, <2>4, FailureKept
<1>4. CASE QueryWithoutHandlers(b)
  <2>1. /\ Receive(b, "query") /\ CancelUnhandledQuery(b, m)
        /\ UNCHANGED <<nextQuery, pending, callbacks, uiTasks, renderTasks>>
    BY <1>4 DEF QueryWithoutHandlers
  <2> HIDE DEF m, f
  <2> QED BY <1>2, <1>3, <2>1, QuietCalls
<1>5. ASSUME NEW called \in {"none"} \cup Responds, QueryUnhandled(b, called) PROVE CallsInv'
  <2> DEFINE x == [kind |-> called, id |-> nextQuery + 1, call |-> 1, thread |-> "ui"]
  <2>1. /\ Receive(b, "query") /\ CancelUnhandledQuery(b, m)
        /\ nextQuery' = nextQuery + 1 /\ UNCHANGED <<pending, callbacks, renderTasks>>
        /\ uiTasks' = IF called = "none" THEN uiTasks ELSE Append(uiTasks, x)
    BY <1>5 DEF QueryUnhandled
  <2>2. \A q \in pending' : \A t \in Threads : ArrivingKept(q.browser, SuccessesFor(q, t))
    BY <1>3, <2>1
  <2>3. nextQuery <= nextQuery' /\ nextQuery' \in Nat BY <1>2, <2>1
  <2>4. CASE called = "none" BY <2>1, <2>2, <2>3, <2>4, QuietCalls
  <2>5. CASE called # "none"
    <3>1. x \in CallbackTask /\ x.id = nextQuery' /\ x.kind \notin {"Success", "Failure"}
      BY <1>2, <1>5, <2>1, <2>5 DEF CallbackTask, Responds, Threads
    <3> HIDE DEF x, m
    <3>2. uiTasks' = Append(uiTasks, x) BY <2>1, <2>5
    <3>3. Numbered(uiTasks', nextQuery')
      BY <1>2, <2>3, <3>1, <3>2, NumberedQueue DEF CallsInv
    <3>4. \A q \in pending' : x.id # q.id
      <4>1. \A q \in pending : q.id \in Nat /\ q.id <= nextQuery BY DEF CallbackInv, TypeOK, QueryInfo
      <4> QED BY <1>2, <2>1, <3>1, <4>1
    <3>5. \A d \in callbacks' : \E c \in callbacks : c.id = d.id /\ c.calls <= d.calls
      BY <2>1 DEF TypeOK, CallbackImpl
    <3> QED BY <2>1, <2>2, <3>1, <3>2, <3>3, <3>4, <3>5, QueueCalls
  <2> QED BY <2>4, <2>5
<1>6. CASE CancelReceived(b)
  <2>1. /\ UNCHANGED <<nextQuery, uiTasks, renderTasks, toRenderer>>
        /\ pending' \subseteq pending /\ callbacks' \subseteq callbacks
    BY <1>6 DEF CancelReceived, CancelQueries
  <2>2. \A q \in pending' : \A t \in Threads : ArrivingKept(q.browser, SuccessesFor(q, t))
    BY <1>1, <2>1 DEF ArrivingKept, Arriving
  <2> QED BY <1>2, <2>1, <2>2, QuietCalls
<1>7. {"none", "OnCallbackSuccess", "OnCallbackFailure"} = {"none"} \cup Responds BY DEF Responds
<1>9. CASE OfferQuery(b)
  <2>1. UNCHANGED <<nextQuery, uiTasks, pending, callbacks, renderTasks, toRenderer>>
    BY <1>9 DEF OfferQuery
  <2>2. \A q \in pending' : \A t \in Threads : ArrivingKept(q.browser, SuccessesFor(q, t))
    BY <1>1, <2>1 DEF ArrivingKept, Arriving
  <2> QED BY <1>2, <2>1, <2>2, QuietCalls
<1> QED BY <1>4, <1>5, <1>6, <1>7, <1>9, AcceptCalls DEF QueryReceived

\* ... and the renderers themselves, which make no calls but take what arrives in the order it
\* was sent, or end with all that was on its way to them: ...
LEMMA RendererCalls ==
  ASSUME TypeOK, TypeOK', CallsInv, NEW b \in Browsers, Navigation(b) \/ Renderer(b)
  PROVE  CallsInv'
<1> USE DEF rendererVars, browserVars
<1>1. \A q \in pending : q.browser \in Browsers BY DEF TypeOK, QueryInfo
<1>2. nextQuery \in Nat BY DEF TypeOK
<1>3. ASSUME UNCHANGED <<nextQuery, uiTasks>>, pending' \subseteq pending, callbacks' \subseteq callbacks,
             \A c \in Browsers : \A H : ArrivingKept(c, H)
      PROVE  CallsInv'
  BY <1>1, <1>2, <1>3, QuietCalls
<1>4. UNCHANGED <<renderTasks, toRenderer>> => \A c \in Browsers : \A H : ArrivingKept(c, H)
  BY DEF ArrivingKept, Arriving
<1>5. CASE OnBeforeClose(b)
  <2>1. UNCHANGED <<nextQuery, uiTasks>> /\ ResetRenderer(b) BY <1>5 DEF OnBeforeClose
  <2>2. pending' \subseteq pending /\ callbacks' \subseteq callbacks
    BY <1>5 DEF OnBeforeClose, CloseInRouter, CloseInCefClient, CancelQueries
  <2> QED BY <1>3, <2>1, <2>2, ArrivingReset
<1>6. CASE OnBeforeBrowse(b) \/ OnRenderProcessTerminated(b)
  <2>1. /\ UNCHANGED <<nextQuery, uiTasks, renderTasks, toRenderer>>
        /\ pending' \subseteq pending /\ callbacks' \subseteq callbacks
    BY <1>6 DEF OnBeforeBrowse, OnRenderProcessTerminated, CancelSilently, CancelQueries
  <2> QED BY <1>3, <1>4, <2>1
<1>7. CASE NavigationAborted(b) \/ Relaunch(b)
  BY <1>3, <1>4, <1>7 DEF NavigationAborted, Relaunch
<1>8. CASE Crash(b)
  <2>1. UNCHANGED <<nextQuery, uiTasks, pending, callbacks>> /\ ResetRenderer(b) BY <1>8 DEF Crash
  <2> QED BY <1>3, <2>1, ArrivingReset
<1>9. CASE ResponseReceived(b) \/ ExecuteCallback(b)
  <2>1. UNCHANGED <<nextQuery, uiTasks, pending, callbacks>>
    BY <1>9 DEF ResponseReceived, ExecuteCallback
  <2> QED BY <1>3, <1>9, <2>1, ArrivingTaken
<1>10. ASSUME NEW f \in Frames,
              \/ OnContextCreated(b, f) \/ OnContextReleased(b, f)
              \/ \E persistent \in Persistence : CefQuery(b, f, persistent)
              \/ \E r \in 1..MaxRequests : CefQueryCancel(b, f, r)
       PROVE  CallsInv'
  <2>1. UNCHANGED <<nextQuery, uiTasks, pending, callbacks, renderTasks, toRenderer>>
    BY <1>10 DEF OnContextCreated, OnContextReleased, CefQuery, CefQueryCancel
  <2> QED BY <1>3, <1>4, <2>1
<1> QED BY <1>5, <1>6, <1>7, <1>8, <1>9, <1>10 DEF Navigation, Renderer

\* ... every step keeps the invariant.
LEMMA NextCalls ==
  PlacesInv /\ TypeOK /\ TypeOK' /\ PendingFinite /\ CallbackInv /\ CallsInv /\ [Next]_vars => CallsInv'
<1> SUFFICES ASSUME PlacesInv, TypeOK, TypeOK', PendingFinite, CallbackInv, CallsInv, [Next]_vars
             PROVE  CallsInv'
  OBVIOUS
<1>1. OnePlace BY DEF PlacesInv
<1>2. CASE UNCHANGED vars
  <2>1. /\ UNCHANGED <<nextQuery, uiTasks, pending, callbacks, renderTasks, toRenderer>>
        /\ nextQuery <= nextQuery'
    BY <1>2 DEF vars, browserVars, rendererVars, TypeOK
  <2>2. \A q \in pending' : \A t \in Threads : ArrivingKept(q.browser, SuccessesFor(q, t))
    BY <2>1 DEF ArrivingKept, Arriving
  <2> QED BY <2>1, <2>2, QuietCalls
<1>3. CASE Next
  BY <1>1, <1>3, ApplicationCalls, UiTaskCalls, MessageCalls, RendererCalls DEF Next
<1> QED BY <1>2, <1>3

\* There is no query to begin with.
LEMMA InitCalls == Init => CallsInv
BY DEF Init, CallsInv, Numbered

\* The calls one thread makes on a persistent query's Callback reach the page in the order they
\* were made: posted to the UI thread, queued there to be sent, and on their way to the page,
\* they never overtake each other, whatever crashes, cancellations and other queries go between.
THEOREM CallsReachPageInOrder == Spec => []CallsInOrder
<1> DEFINE Inv == PlacesInv /\ TypeOK /\ PendingFinite /\ CallbackInv /\ CallsInv
<1>1. Init => Inv BY InitPlaces, InitType, InitCallbacks, InitCalls
<1>2. Inv /\ [Next]_vars => Inv' BY NextPlaces, NextType, NextCallbacks, NextCalls
<1>3. Inv => CallsInOrder BY CallsMeanOrder
<1> QED BY <1>1, <1>2, <1>3, PTL DEF Spec
=============================================================================
