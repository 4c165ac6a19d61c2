------------------------ MODULE MessageRouterProofs ------------------------
(***************************************************************************)
(* Proofs about MessageRouter, for every set of browsers, frames and       *)
(* handlers and every value of the bounds.                                 *)
(***************************************************************************)
EXTENDS MessageRouter, FiniteSetTheorems, TLAPS

\* The bounds are natural numbers and a browser has had at least one renderer process.
LEMMA Bounds ==
  /\ MaxEpoch \in Nat /\ MaxContexts \in Nat /\ MaxRequests \in Nat
  /\ MaxCalls \in Nat /\ MaxTasks \in Nat /\ MaxEpoch > 0
BY ConstantsAssumption

\* The map of queries is finite, so an iteration over part of it is a finite sequence.
PendingFinite == IsFiniteSet(pending)

\* Nothing is sent to the renderer of b, or responses to it while it is up, each of them the
\* failure of a query of S that b asked.
SendsFailures(S, b) ==
  \/ toRenderer'[b] = toRenderer[b]
  \/ /\ process[b] = "up"
     /\ \E s \in Seq(Response) :
          /\ toRenderer'[b] = toRenderer[b] \o s
          /\ \A i \in DOMAIN s : \E q \in S : q.browser = b /\ s[i] = Failure(q)

\* That is all CancelQuery sends, whatever queries are canceled.
LEMMA NotifyRenderersSends ==
  ASSUME TypeOK, PendingFinite, NEW S, S \subseteq pending, NotifyRenderers(S)
  PROVE  \A b \in Browsers : SendsFailures(S, b)
<1>1. IsFiniteSet(S) BY FS_Subset DEF PendingFinite
<1>2. Cardinality(S) \in Nat BY <1>1, FS_CardinalityType
<1>3. PICK order \in [Browsers -> Orders(S)] :
        /\ \A b \in Browsers : InMapOrder(order[b], {q \in S : q.browser = b})
        /\ toRenderer' = [b \in Browsers |->
             IF process[b] = "up"
             THEN toRenderer[b] \o [i \in DOMAIN order[b] |-> Failure(order[b][i])]
             ELSE toRenderer[b]]
  BY DEF NotifyRenderers
<1> SUFFICES ASSUME NEW b \in Browsers, process[b] = "up"
             PROVE  \E s \in Seq(Response) :
                      /\ toRenderer'[b] = toRenderer[b] \o s
                      /\ \A i \in DOMAIN s : \E q \in S : q.browser = b /\ s[i] = Failure(q)
  BY <1>3 DEF SendsFailures
<1> DEFINE s == [i \in DOMAIN order[b] |-> Failure(order[b][i])]
<1>4. PICK n \in 0..Cardinality(S) : order[b] \in [1..n -> S] BY <1>3 DEF Orders
<1>5. n \in Nat BY <1>2
<1>6. \A q \in S : Failure(q) \in Response BY DEF TypeOK, QueryInfo, Failure, Response, Threads
<1>7. s \in Seq(Response)
  <2>1. DOMAIN order[b] = 1..n BY <1>4
  <2>2. s \in [1..n -> Response] BY <1>4, <1>6, <2>1
  <2> QED BY <1>5, <2>2
<1>8. \A i \in DOMAIN s : \E q \in S : q.browser = b /\ s[i] = Failure(q)
  <2> SUFFICES ASSUME NEW i \in DOMAIN s PROVE \E q \in S : q.browser = b /\ s[i] = Failure(q)
    OBVIOUS
  <2>1. i \in DOMAIN order[b] OBVIOUS
  <2>2. order[b][i] \in {q \in S : q.browser = b} BY <1>3, <2>1 DEF InMapOrder
  <2> QED BY <2>1, <2>2
<1>9. toRenderer'[b] = toRenderer[b] \o s BY <1>3
<1> HIDE DEF s
<1> QED BY <1>7, <1>8, <1>9
-----------------------------------------------------------------------------
(***************************************************************************)
(* Types.                                                                  *)
(***************************************************************************)
\* The browser-side helpers keep the types of what they assign.
LEMMA NotifyRenderersType ==
  ASSUME TypeOK, PendingFinite, NEW S, S \subseteq pending, NotifyRenderers(S)
  PROVE  toRenderer' \in [Browsers -> Seq(Response)]
<1>1. ASSUME NEW b \in Browsers PROVE toRenderer'[b] \in Seq(Response)
  <2>1. SendsFailures(S, b) BY NotifyRenderersSends
  <2>2. toRenderer[b] \in Seq(Response) BY DEF TypeOK
  <2>3. CASE toRenderer'[b] = toRenderer[b] BY <2>2, <2>3
  <2>4. CASE toRenderer'[b] # toRenderer[b]
    <3>1. PICK m \in Seq(Response) : toRenderer'[b] = toRenderer[b] \o m
      BY <2>1, <2>4 DEF SendsFailures
    <3> QED BY <2>2, <3>1
  <2> QED BY <2>3, <2>4
<1>2. toRenderer' = [b \in Browsers |-> toRenderer'[b]] BY DEF NotifyRenderers
<1> QED BY <1>1, <1>2

\* One more message to a renderer keeps the type of its pipe.
LEMMA SendToRendererType ==
  ASSUME TypeOK, NEW b \in Browsers, NEW m \in Response, SendToRenderer(b, <<m>>)
  PROVE  toRenderer' \in [Browsers -> Seq(Response)]
BY DEF TypeOK, SendToRenderer

\* The application's view of a query keeps its type.
LEMMA RecordType ==
  ASSUME TypeOK, NEW us, NEW s \in AppStates, Record(us, s)
  PROVE  app' \in [Uid -> AppStates]
BY DEF TypeOK, Record

\* The page's view of a query keeps its type.
LEMMA RecordPageType ==
  ASSUME TypeOK, NEW us, NEW s \in PageStates, RecordPage(us, s)
  PROVE  page' \in [Uid -> PageStates]
BY DEF TypeOK, RecordPage

\* CancelQuery, on any set of queries, keeps the types of what it changes.
LEMMA CancelQueriesType ==
  ASSUME TypeOK, PendingFinite, NEW S, CancelQueries(S)
  PROVE  /\ pending' \subseteq QueryInfo
         /\ callbacks' \subseteq CallbackImpl
         /\ app' \in [Uid -> AppStates]
         /\ PendingFinite'
<1>1. pending' \subseteq pending /\ callbacks' \subseteq callbacks BY DEF CancelQueries
<1>2. app' \in [Uid -> AppStates] BY RecordType DEF CancelQueries, AppStates
<1>3. PendingFinite' BY <1>1, FS_Subset DEF PendingFinite
<1> QED BY <1>1, <1>2, <1>3 DEF TypeOK

\* The loss of a renderer process keeps the types of what it owned.
LEMMA ResetRendererType ==
  ASSUME TypeOK, NEW b \in Browsers, ResetRenderer(b)
  PROVE  /\ context' \in [Browsers -> [Frames -> Nat \cup {NoContext}]]
         /\ nextContext' \in [Browsers -> Nat]
         /\ nextRequest' \in [Browsers -> 0..MaxRequests]
         /\ requests' \in [Browsers -> SUBSET RequestInfo]
         /\ renderTasks' \in [Browsers -> Seq(Response)]
         /\ toRenderer' \in [Browsers -> Seq(Response)]
         /\ page' \in [Uid -> PageStates]
<1>1. page' \in [Uid -> PageStates] BY RecordPageType DEF ResetRenderer, PageStates
<1>2. 0 \in 0..MaxRequests BY Bounds
<1> QED BY <1>1, <1>2 DEF TypeOK, ResetRenderer, kReservedId

\* Init establishes the types.
LEMMA InitType == Init => TypeOK /\ PendingFinite
<1> SUFFICES ASSUME Init PROVE TypeOK /\ PendingFinite OBVIOUS
<1>1. PendingFinite BY FS_EmptySet DEF Init, PendingFinite
<1>2. TypeOK
  BY Bounds DEF Init, TypeOK, kReservedId, NoContext, AppStates, PageStates, Process
<1> QED BY <1>1, <1>2

\* The steps of the application keep the types.
LEMMA ApplicationType == TypeOK /\ PendingFinite /\ Application => TypeOK' /\ PendingFinite'
<1> SUFFICES ASSUME TypeOK, PendingFinite, Application PROVE TypeOK' /\ PendingFinite'
  OBVIOUS
<1> USE DEF rendererVars
<1>1. ASSUME NEW h \in Handlers, AddHandler(h) PROVE TypeOK' /\ PendingFinite'
  BY <1>1 DEF AddHandler, TypeOK, PendingFinite
<1>2. ASSUME NEW bs, NEW hs, CancelPendingFor(bs, hs)
      PROVE  /\ pending' \subseteq QueryInfo /\ callbacks' \subseteq CallbackImpl
             /\ app' \in [Uid -> AppStates] /\ PendingFinite'
             /\ toRenderer' \in [Browsers -> Seq(Response)]
  <2>1. Matching(bs, hs) \subseteq pending BY DEF Matching
  <2> QED BY <1>2, <2>1, CancelQueriesType, NotifyRenderersType DEF CancelPendingFor
<1>3. ASSUME NEW h \in Handlers, RemoveHandler(h) PROVE TypeOK' /\ PendingFinite'
  BY <1>2, <1>3 DEF RemoveHandler, TypeOK
<1>4. ASSUME NEW bs, NEW hs, CancelPending(bs, hs) PROVE TypeOK' /\ PendingFinite'
  BY <1>2, <1>4 DEF CancelPending, TypeOK
<1>5. ASSUME NEW bs \in SUBSET Browsers, NEW hs \in SUBSET Handlers, PostCancelPending(bs, hs)
      PROVE  TypeOK' /\ PendingFinite'
  BY <1>5 DEF PostCancelPending, TypeOK, PendingFinite, CancelTask
<1>6. ASSUME NEW c \in callbacks, NEW kind \in {"Success", "Failure"}, CallOnUiThread(c, kind)
      PROVE  TypeOK' /\ PendingFinite'
  <2>1. c \in CallbackImpl BY DEF TypeOK
  <2>2. uiTasks' \in Seq(CallbackTask \cup CancelTask)
    BY <1>6, <2>1 DEF CallOnUiThread, Respond, Posted, TypeOK, CallbackImpl, CallbackTask, Threads
  <2>3. callbacks' \subseteq CallbackImpl
    <3>1. \A n \in Nat : [c EXCEPT !.calls = n] \in CallbackImpl BY <2>1 DEF CallbackImpl
    <3> DEFINE n == IF c.calls + 1 > c.calls THEN c.calls + 1 ELSE c.calls
    <3>2. n \in Nat BY <2>1 DEF CallbackImpl
    <3>3. callbacks' \subseteq callbacks \cup {[c EXCEPT !.calls = n]}
      BY <1>6 DEF CallOnUiThread, Respond
    <3> HIDE DEF n
    <3> QED BY <3>1, <3>2, <3>3 DEF TypeOK
  <2> QED BY <1>6, <2>2, <2>3 DEF CallOnUiThread, TypeOK, PendingFinite
<1>7. ASSUME NEW c \in callbacks, NEW kind \in {"Success", "Failure"}, CallOnOtherThread(c, kind)
      PROVE  TypeOK' /\ PendingFinite'
  <2>1. c \in CallbackImpl BY DEF TypeOK
  <2>2. uiTasks' \in Seq(CallbackTask \cup CancelTask)
    BY <1>7, <2>1 DEF CallOnOtherThread, TypeOK, CallbackImpl, CallbackTask, Threads
  <2>3. callbacks' \subseteq CallbackImpl
    <3>1. c.calls \in Nat /\ [c EXCEPT !.calls = c.calls + 1] \in CallbackImpl
      BY <2>1 DEF CallbackImpl
    <3> QED BY <1>7, <3>1 DEF CallOnOtherThread, TypeOK
  <2> QED BY <1>7, <2>2, <2>3 DEF CallOnOtherThread, TypeOK, PendingFinite
<1>8. BrowserSets \subseteq SUBSET Browsers /\ HandlerSets \subseteq SUBSET Handlers
  BY DEF BrowserSets, HandlerSets
<1> QED BY <1>1, <1>3, <1>4, <1>5, <1>6, <1>7, <1>8 DEF Application

\* The tasks of the UI thread keep the types.
LEMMA RunUiTaskType == TypeOK /\ PendingFinite /\ RunUiTask => TypeOK' /\ PendingFinite'
<1> SUFFICES ASSUME TypeOK, PendingFinite, RunUiTask PROVE TypeOK' /\ PendingFinite'
  OBVIOUS
<1> USE DEF rendererVars
<1> DEFINE t == Head(uiTasks)
<1>0. uiTasks # <<>> /\ uiTasks \in Seq(CallbackTask \cup CancelTask)
  BY DEF RunUiTask, RunPostedCall, OnCallbackSuccess, OnCallbackFailure, RunCancelPendingFor, TypeOK
<1>1. t \in CallbackTask \cup CancelTask /\ Tail(uiTasks) \in Seq(CallbackTask \cup CancelTask)
  BY <1>0
<1>2. CASE RunPostedCall
  <2>1. t \in CallbackTask BY <1>1, <1>2 DEF RunPostedCall, CancelTask
  <2>2. ASSUME NEW c \in callbacks, Respond(c, Posted(t.kind), t.call, t.thread, Tail(uiTasks)),
               c.id = t.id, t.kind \in {"Success", "Failure"}
        PROVE  uiTasks' \in Seq(CallbackTask \cup CancelTask) /\ callbacks' \subseteq CallbackImpl
    <3>1. c \in CallbackImpl BY DEF TypeOK
    <3>2. [kind |-> Posted(t.kind), id |-> c.id, call |-> t.call, thread |-> t.thread] \in CallbackTask
      BY <2>1, <2>2, <3>1 DEF Posted, CallbackTask, CallbackImpl
    <3>3. uiTasks' \in Seq(CallbackTask \cup CancelTask)
      BY <1>1, <2>2, <3>2 DEF Respond
    <3>4. t.call \in Nat BY <2>1 DEF CallbackTask
    <3>5. callbacks' \subseteq CallbackImpl
      BY <2>2, <3>1, <3>4 DEF Respond, TypeOK, CallbackImpl
    <3> QED BY <3>3, <3>5
  <2>3. uiTasks' \in Seq(CallbackTask \cup CancelTask) /\ callbacks' \subseteq CallbackImpl
    BY <1>1, <1>2, <2>2 DEF RunPostedCall, TypeOK
  <2> QED BY <1>2, <2>3 DEF RunPostedCall, TypeOK, PendingFinite
<1>3. ASSUME NEW q \in pending, t \in CallbackTask
      PROVE  /\ Success(q, t) \in Response /\ Failure(q) \in Response
             /\ pending \ {q} \subseteq QueryInfo /\ IsFiniteSet(pending \ {q})
             /\ q.browser \in Browsers
  <2>1. q \in QueryInfo BY DEF TypeOK
  <2>2. IsFiniteSet(pending \ {q}) BY FS_Subset DEF PendingFinite
  <2> QED BY <1>3, <2>1, <2>2
        DEF TypeOK, QueryInfo, CallbackTask, Success, Failure, Response, Threads
<1>4. CASE OnCallbackSuccess
  <2>1. t \in CallbackTask BY <1>1, <1>4 DEF OnCallbackSuccess, CancelTask
  <2>2. pending' \subseteq QueryInfo /\ PendingFinite'
    BY <1>3, <1>4, <2>1 DEF OnCallbackSuccess, TypeOK, PendingFinite
  <2>3. toRenderer' \in [Browsers -> Seq(Response)]
    BY <1>3, <1>4, <2>1, SendToRendererType DEF OnCallbackSuccess, TypeOK
  <2>4. app' \in [Uid -> AppStates]
    BY <1>4, RecordType DEF OnCallbackSuccess, TypeOK, AppStates
  <2> QED BY <1>1, <1>4, <2>2, <2>3, <2>4 DEF OnCallbackSuccess, TypeOK
<1>5. CASE OnCallbackFailure
  <2>1. t \in CallbackTask BY <1>1, <1>5 DEF OnCallbackFailure, CancelTask
  <2>2. pending' \subseteq QueryInfo /\ PendingFinite'
    BY <1>3, <1>5, <2>1 DEF OnCallbackFailure, TypeOK, PendingFinite
  <2>3. toRenderer' \in [Browsers -> Seq(Response)]
    BY <1>3, <1>5, <2>1, SendToRendererType DEF OnCallbackFailure, TypeOK
  <2>4. app' \in [Uid -> AppStates]
    BY <1>5, RecordType DEF OnCallbackFailure, TypeOK, AppStates
  <2> QED BY <1>1, <1>5, <2>2, <2>3, <2>4 DEF OnCallbackFailure, TypeOK
<1>6. CASE RunCancelPendingFor
  <2>1. Matching(t.browsers, t.handlers) \subseteq pending BY DEF Matching
  <2>2. /\ pending' \subseteq QueryInfo /\ callbacks' \subseteq CallbackImpl
        /\ app' \in [Uid -> AppStates] /\ PendingFinite'
        /\ toRenderer' \in [Browsers -> Seq(Response)]
    BY <1>6, <2>1, CancelQueriesType, NotifyRenderersType DEF RunCancelPendingFor, CancelPendingFor
  <2> QED BY <1>1, <1>6, <2>2 DEF RunCancelPendingFor, TypeOK
<1> QED BY <1>2, <1>4, <1>5, <1>6 DEF RunUiTask

\* A message read leaves the types of the others, and its fields have theirs.
LEMMA ReceiveType ==
  ASSUME TypeOK, NEW b \in Browsers, NEW type \in {"query", "cancel"}, Receive(b, type)
  PROVE  /\ toBrowser' \in [Browsers -> Seq(QueryMsg \cup CancelMsg)]
         /\ type = "query" => Head(toBrowser[b]) \in QueryMsg
         /\ type = "cancel" => Head(toBrowser[b]) \in CancelMsg
<1>1. toBrowser[b] \in Seq(QueryMsg \cup CancelMsg) /\ toBrowser[b] # <<>>
  BY DEF TypeOK, Receive
<1>2. /\ Head(toBrowser[b]) \in QueryMsg \cup CancelMsg
      /\ Tail(toBrowser[b]) \in Seq(QueryMsg \cup CancelMsg)
  BY <1>1
<1>3. toBrowser' \in [Browsers -> Seq(QueryMsg \cup CancelMsg)]
  BY <1>2 DEF TypeOK, Receive
<1>4. Head(toBrowser[b]).type = type BY DEF Receive
<1> QED BY <1>2, <1>3, <1>4 DEF QueryMsg, CancelMsg

\* The failure sent for a message that no handler took is a response.
LEMMA UnhandledType ==
  ASSUME TypeOK, NEW b \in Browsers, NEW m \in QueryMsg, CancelUnhandledQuery(b, m)
  PROVE  toRenderer' \in [Browsers -> Seq(Response)] /\ app' \in [Uid -> AppStates]
<1>1. epoch[b] \in Nat BY Bounds DEF TypeOK
<1>2. Failure([ctx |-> m.ctx, req |-> m.req, epoch |-> epoch[b]]) \in Response
  BY <1>1 DEF Failure, Response, Threads, QueryMsg
<1> QED BY <1>2, SendToRendererType, RecordType DEF CancelUnhandledQuery, AppStates

\* Reading a query keeps the types.
LEMMA QueryReceivedType ==
  ASSUME TypeOK, PendingFinite, NEW b \in Browsers, QueryReceived(b)
  PROVE  TypeOK' /\ PendingFinite'
<1> USE DEF rendererVars
<1>0. CASE OfferQuery(b)
  <2>1. offered' \in [Browsers -> SUBSET Handlers] BY <1>0 DEF OfferQuery, TypeOK
  <2> QED BY <1>0, <2>1 DEF OfferQuery, TypeOK, PendingFinite
<1> SUFFICES ASSUME ~OfferQuery(b) PROVE TypeOK' /\ PendingFinite' BY <1>0
<1> DEFINE m == Head(toBrowser[b])
<1>1. Receive(b, "query")
  BY DEF QueryReceived, QueryWithoutHandlers, QueryUnhandled, QueryHandled
<1>2. m \in QueryMsg /\ toBrowser' \in [Browsers -> Seq(QueryMsg \cup CancelMsg)]
  BY <1>1, ReceiveType
<1> HIDE DEF m
<1>3. nextQuery + 1 \in Nat BY DEF TypeOK
<1>4. CASE QueryWithoutHandlers(b)
  <2>1. toRenderer' \in [Browsers -> Seq(Response)] /\ app' \in [Uid -> AppStates]
    BY <1>2, <1>4, UnhandledType DEF QueryWithoutHandlers, m
  <2> QED BY <1>2, <1>4, <2>1 DEF QueryWithoutHandlers, TypeOK, PendingFinite
<1>5. ASSUME NEW called \in {"none", "OnCallbackSuccess", "OnCallbackFailure"},
             QueryUnhandled(b, called)
      PROVE  TypeOK' /\ PendingFinite'
  <2>1. toRenderer' \in [Browsers -> Seq(Response)] /\ app' \in [Uid -> AppStates]
    BY <1>2, <1>5, UnhandledType DEF QueryUnhandled, m
  <2>2. uiTasks' \in Seq(CallbackTask \cup CancelTask)
    <3> DEFINE task == [kind |-> called, id |-> nextQuery + 1, call |-> 1, thread |-> "ui"]
    <3>1. called # "none" => task \in CallbackTask BY <1>3 DEF CallbackTask, Threads
    <3>2. uiTasks' = IF called = "none" THEN uiTasks ELSE Append(uiTasks, task)
      BY <1>5 DEF QueryUnhandled
    <3> HIDE DEF task
    <3> QED BY <3>1, <3>2 DEF TypeOK
  <2> QED BY <1>2, <1>3, <1>5, <2>1, <2>2 DEF QueryUnhandled, TypeOK, PendingFinite
<1>6. ASSUME NEW called \in {"none", "OnCallbackSuccess", "OnCallbackFailure"},
             NEW h \in Handlers, QueryHandled(b, h, called)
      PROVE  TypeOK' /\ PendingFinite'
  <2> DEFINE q == NewQuery(b, h)
             c == [id |-> q.id, persistent |-> q.persistent, calls |-> 0]
  <2>1. q \in QueryInfo
    <3>1. epoch[b] \in Nat BY Bounds DEF TypeOK
    <3> QED BY <1>2, <1>3, <3>1 DEF NewQuery, QueryInfo, QueryMsg, m
  <2>2. pending' = pending \cup {q} /\ nextQuery' = q.id BY <1>6 DEF QueryHandled
  <2>3. pending' \subseteq QueryInfo /\ PendingFinite'
    BY <2>1, <2>2, FS_AddElement DEF TypeOK, PendingFinite
  <2>4. app' \in [Uid -> AppStates] BY <1>6, RecordType DEF QueryHandled, AppStates
  <2>5. q.id \in Nat /\ q.persistent \in BOOLEAN BY <2>1 DEF QueryInfo
  <2>6. c \in CallbackImpl /\ [c EXCEPT !.calls = 1] \in CallbackImpl
    BY <2>5 DEF CallbackImpl
  <2>7. callbacks' \subseteq callbacks \cup {c, [c EXCEPT !.calls = 1]}
    BY <1>6 DEF QueryHandled
  <2>8. callbacks' \subseteq CallbackImpl BY <2>6, <2>7 DEF TypeOK
  <2>9. uiTasks' \in Seq(CallbackTask \cup CancelTask)
    <3> DEFINE task == [kind |-> called, id |-> q.id, call |-> 1, thread |-> "ui"]
    <3>1. called # "none" => task \in CallbackTask BY <2>5 DEF CallbackTask, Threads
    <3>2. uiTasks' = IF called = "none" THEN uiTasks ELSE Append(uiTasks, task)
      BY <1>6 DEF QueryHandled
    <3> HIDE DEF task
    <3> QED BY <3>1, <3>2 DEF TypeOK
  <2>10. UNCHANGED <<handlers, navigating, rendererVars, toRenderer>>
         /\ offered' = [offered EXCEPT ![b] = {}]
    BY <1>6 DEF QueryHandled
  <2> HIDE DEF q, c
  <2> QED BY <1>2, <2>2, <2>3, <2>4, <2>5, <2>8, <2>9, <2>10 DEF TypeOK
<1> QED BY <1>4, <1>5, <1>6 DEF QueryReceived

\* Reading a cancellation keeps the types.
LEMMA CancelReceivedType ==
  ASSUME TypeOK, PendingFinite, NEW b \in Browsers, CancelReceived(b)
  PROVE  TypeOK' /\ PendingFinite'
<1>1. toBrowser' \in [Browsers -> Seq(QueryMsg \cup CancelMsg)]
  BY ReceiveType DEF CancelReceived
<1>2. /\ pending' \subseteq QueryInfo /\ callbacks' \subseteq CallbackImpl
      /\ app' \in [Uid -> AppStates] /\ PendingFinite'
  BY CancelQueriesType DEF CancelReceived
<1> QED BY <1>1, <1>2 DEF CancelReceived, TypeOK, rendererVars

\* Navigations, crashes and closed browsers keep the types.
LEMMA NavigationType ==
  ASSUME TypeOK, PendingFinite, NEW b \in Browsers, Navigation(b)
  PROVE  TypeOK' /\ PendingFinite'
<1> USE DEF rendererVars, browserVars
<1>0. ASSUME CancelSilently(b)
      PROVE  /\ pending' \subseteq QueryInfo /\ callbacks' \subseteq CallbackImpl
             /\ app' \in [Uid -> AppStates] /\ PendingFinite'
             /\ toRenderer' \in [Browsers -> Seq(Response)]
  BY <1>0, CancelQueriesType DEF CancelSilently, TypeOK
<1>1. CASE OnBeforeBrowse(b)
  BY <1>0, <1>1 DEF OnBeforeBrowse, TypeOK
<1>2. CASE NavigationAborted(b)
  BY <1>2 DEF NavigationAborted, TypeOK, PendingFinite
<1>3. CASE OnBeforeClose(b)
  <2>1. /\ pending' \subseteq QueryInfo /\ callbacks' \subseteq CallbackImpl
        /\ app' \in [Uid -> AppStates] /\ PendingFinite'
        /\ handlers' \subseteq Handlers
    <3>1. CASE UNCHANGED <<handlers, pending, callbacks, app>>
      BY <3>1 DEF TypeOK, PendingFinite
    <3>2. ASSUME NEW S, CancelQueries(S), handlers' \subseteq handlers
          PROVE  /\ pending' \subseteq QueryInfo /\ callbacks' \subseteq CallbackImpl
                 /\ app' \in [Uid -> AppStates] /\ PendingFinite'
                 /\ handlers' \subseteq Handlers
      BY <3>2, CancelQueriesType DEF TypeOK
    <3> QED BY <1>3, <3>1, <3>2 DEF OnBeforeClose, CloseInRouter, CloseInCefClient
  <2>2. process' \in [Browsers -> Process] /\ navigating' \in [Browsers -> BOOLEAN]
    BY <1>3 DEF OnBeforeClose, TypeOK, Process
  <2>3. toBrowser' \in [Browsers -> Seq(QueryMsg \cup CancelMsg)]
    BY <1>3 DEF OnBeforeClose, TypeOK
  <2>4. ResetRenderer(b) BY <1>3 DEF OnBeforeClose
  <2> QED BY <1>3, <2>1, <2>2, <2>3, <2>4, ResetRendererType DEF OnBeforeClose, TypeOK
<1>4. CASE Crash(b)
  <2>1. toBrowser' \in [Browsers -> Seq(QueryMsg \cup CancelMsg)]
    <3>1. PICK n \in 0..Len(toBrowser[b]) :
            toBrowser' = [toBrowser EXCEPT ![b] = SubSeq(@, 1, n)]
      BY <1>4 DEF Crash
    <3>2. toBrowser[b] \in Seq(QueryMsg \cup CancelMsg) BY DEF TypeOK
    <3>3. SubSeq(toBrowser[b], 1, n) \in Seq(QueryMsg \cup CancelMsg) BY <3>2
    <3> QED BY <3>1, <3>3 DEF TypeOK
  <2>2. process' \in [Browsers -> Process] BY <1>4 DEF Crash, TypeOK, Process
  <2>3. ResetRenderer(b) BY <1>4 DEF Crash
  <2> QED BY <1>4, <2>1, <2>2, <2>3, ResetRendererType DEF Crash, TypeOK, PendingFinite
<1>5. CASE OnRenderProcessTerminated(b)
  <2>1. process' \in [Browsers -> Process] BY <1>5 DEF OnRenderProcessTerminated, TypeOK, Process
  <2> QED BY <1>0, <1>5, <2>1 DEF OnRenderProcessTerminated, TypeOK
<1>6. CASE Relaunch(b)
  <2>1. epoch' \in [Browsers -> 1..MaxEpoch] BY <1>6, Bounds DEF Relaunch, TypeOK
  <2>2. process' \in [Browsers -> Process] BY <1>6 DEF Relaunch, TypeOK, Process
  <2> QED BY <1>6, <2>1, <2>2 DEF Relaunch, TypeOK, PendingFinite
<1> QED BY <1>1, <1>2, <1>3, <1>4, <1>5, <1>6 DEF Navigation

\* A context is used with an id that is a natural number.
LEMMA UseContextType ==
  ASSUME TypeOK, NEW b \in Browsers, NEW f \in Frames, UseContext(b, f)
  PROVE  /\ ContextId(b, f) \in Nat
         /\ context' \in [Browsers -> [Frames -> Nat \cup {NoContext}]]
         /\ nextContext' \in [Browsers -> Nat]
<1>1. context[b][f] \in Nat /\ nextContext[b] \in Nat BY DEF TypeOK, UseContext
<1>2. ContextId(b, f) \in Nat BY <1>1 DEF ContextId
<1> QED BY <1>1, <1>2 DEF UseContext, TypeOK

\* SendCancel keeps the types of what it changes.
LEMMA SendCancelType ==
  ASSUME TypeOK, NEW b \in Browsers, NEW c \in Nat, NEW r \in Nat, SendCancel(b, c, r)
  PROVE  /\ requests' \in [Browsers -> SUBSET RequestInfo]
         /\ page' \in [Uid -> PageStates]
         /\ toBrowser' \in [Browsers -> Seq(QueryMsg \cup CancelMsg)]
<1>1. page' \in [Uid -> PageStates] BY RecordPageType DEF SendCancel, PageStates
<1>2. [type |-> "cancel", ctx |-> c, req |-> r] \in CancelMsg BY DEF CancelMsg
<1>3. Abandoned(b, c, r) \subseteq requests[b] BY DEF Abandoned
<1>4. requests' \in [Browsers -> SUBSET RequestInfo] BY <1>3 DEF SendCancel, TypeOK
<1>5. toBrowser' \in [Browsers -> Seq(QueryMsg \cup CancelMsg)]
  <2>1. CASE Abandoned(b, c, r) = {} BY <2>1 DEF SendCancel, TypeOK
  <2>2. CASE Abandoned(b, c, r) # {}
    <3>1. toBrowser[b] \in Seq(QueryMsg \cup CancelMsg) BY DEF TypeOK
    <3>2. Append(toBrowser[b], [type |-> "cancel", ctx |-> c, req |-> r])
            \in Seq(QueryMsg \cup CancelMsg)
      BY <1>2, <3>1
    <3>3. toBrowser' = [toBrowser EXCEPT ![b] =
                          Append(toBrowser[b], [type |-> "cancel", ctx |-> c, req |-> r])]
      BY <2>2 DEF SendCancel
    <3> QED BY <3>2, <3>3 DEF TypeOK
  <2> QED BY <2>1, <2>2
<1> QED BY <1>1, <1>4, <1>5

\* The steps of a renderer process keep the types.
LEMMA RendererType ==
  ASSUME TypeOK, PendingFinite, NEW b \in Browsers, Renderer(b)
  PROVE  TypeOK' /\ PendingFinite'
<1> USE DEF browserVars
<1>1. ASSUME NEW f \in Frames, OnContextCreated(b, f) PROVE TypeOK' /\ PendingFinite'
  <2>1. context' \in [Browsers -> [Frames -> Nat \cup {NoContext}]]
    BY <1>1 DEF OnContextCreated, TypeOK, kReservedId
  <2>2. navigating' \in [Browsers -> BOOLEAN] BY <1>1 DEF OnContextCreated, TypeOK
  <2> QED BY <1>1, <2>1, <2>2 DEF OnContextCreated, TypeOK, PendingFinite
<1>2. ASSUME NEW f \in Frames, OnContextReleased(b, f) PROVE TypeOK' /\ PendingFinite'
  <2>1. context[b][f] \in Nat BY <1>2 DEF OnContextReleased, TypeOK
  <2>2. context' \in [Browsers -> [Frames -> Nat \cup {NoContext}]]
    BY <1>2 DEF OnContextReleased, TypeOK
  <2>3. /\ requests' \in [Browsers -> SUBSET RequestInfo]
        /\ page' \in [Uid -> PageStates]
        /\ toBrowser' \in [Browsers -> Seq(QueryMsg \cup CancelMsg)]
    <3>1. CASE context[b][f] = kReservedId BY <1>2, <3>1 DEF OnContextReleased, TypeOK
    <3>2. CASE context[b][f] # kReservedId
      <4>1. SendCancel(b, context[b][f], kReservedId) BY <1>2, <3>2 DEF OnContextReleased
      <4> QED BY <2>1, <4>1, SendCancelType DEF kReservedId
    <3> QED BY <3>1, <3>2
  <2> QED BY <1>2, <2>2, <2>3 DEF OnContextReleased, TypeOK, PendingFinite
<1>3. ASSUME NEW f \in Frames, NEW persistent \in Persistence, CefQuery(b, f, persistent)
      PROVE  TypeOK' /\ PendingFinite'
  <2> DEFINE c == ContextId(b, f)
             r == nextRequest[b] + 1
  <2>1. UseContext(b, f) BY <1>3 DEF CefQuery
  <2>2. /\ c \in Nat
        /\ context' \in [Browsers -> [Frames -> Nat \cup {NoContext}]]
        /\ nextContext' \in [Browsers -> Nat]
    BY <2>1, UseContextType
  <2>3. r \in 0..MaxRequests /\ r \in Nat /\ persistent \in BOOLEAN
    BY <1>3, Bounds, ConstantsAssumption DEF CefQuery, TypeOK
  <2>4. page' \in [Uid -> PageStates] BY <1>3, RecordPageType DEF CefQuery, PageStates
  <2>5. /\ nextRequest' = [nextRequest EXCEPT ![b] = r]
        /\ requests' = [requests EXCEPT ![b] = @ \cup {[ctx |-> c, req |-> r, persistent |-> persistent]}]
        /\ toBrowser' = [toBrowser EXCEPT ![b] =
             Append(@, [type |-> "query", ctx |-> c, req |-> r, persistent |-> persistent])]
        /\ UNCHANGED <<browserVars, process, epoch, renderTasks, toRenderer>>
    BY <1>3 DEF CefQuery
  <2> HIDE DEF c, r
  <2>6. /\ nextRequest' \in [Browsers -> 0..MaxRequests]
        /\ requests' \in [Browsers -> SUBSET RequestInfo]
    BY <2>2, <2>3, <2>5 DEF TypeOK, RequestInfo
  <2>7. toBrowser' \in [Browsers -> Seq(QueryMsg \cup CancelMsg)]
    <3> DEFINE m == [type |-> "query", ctx |-> c, req |-> r, persistent |-> persistent]
    <3>1. m \in QueryMsg \cup CancelMsg BY <2>2, <2>3 DEF QueryMsg
    <3>2. toBrowser[b] \in Seq(QueryMsg \cup CancelMsg) BY DEF TypeOK
    <3>3. toBrowser' = [toBrowser EXCEPT ![b] = Append(toBrowser[b], m)] BY <2>5
    <3> HIDE DEF m
    <3>4. Append(toBrowser[b], m) \in Seq(QueryMsg \cup CancelMsg) BY <3>1, <3>2
    <3> QED BY <3>3, <3>4 DEF TypeOK
  <2> QED BY <2>2, <2>4, <2>5, <2>6, <2>7 DEF TypeOK, PendingFinite
<1>4. ASSUME NEW f \in Frames, NEW r \in 1..MaxRequests, CefQueryCancel(b, f, r)
      PROVE  TypeOK' /\ PendingFinite'
  <2>1. /\ ContextId(b, f) \in Nat
        /\ context' \in [Browsers -> [Frames -> Nat \cup {NoContext}]]
        /\ nextContext' \in [Browsers -> Nat]
    BY <1>4, UseContextType DEF CefQueryCancel
  <2>2. r \in Nat BY Bounds
  <2>3. /\ requests' \in [Browsers -> SUBSET RequestInfo]
        /\ page' \in [Uid -> PageStates]
        /\ toBrowser' \in [Browsers -> Seq(QueryMsg \cup CancelMsg)]
    BY <1>4, <2>1, <2>2, SendCancelType DEF CefQueryCancel
  <2> QED BY <1>4, <2>1, <2>3 DEF CefQueryCancel, TypeOK, PendingFinite
<1>5. CASE ResponseReceived(b)
  <2>1. /\ Head(toRenderer[b]) \in Response /\ Tail(toRenderer[b]) \in Seq(Response)
    BY <1>5 DEF ResponseReceived, TypeOK
  <2>2. toRenderer' \in [Browsers -> Seq(Response)]
    BY <1>5, <2>1 DEF ResponseReceived, TypeOK
  <2>3. Append(renderTasks[b], Head(toRenderer[b])) \in Seq(Response)
    <3>1. renderTasks[b] \in Seq(Response) BY DEF TypeOK
    <3> QED BY <2>1, <3>1
  <2>4. renderTasks' \in [Browsers -> Seq(Response)]
    BY <1>5, <2>3 DEF ResponseReceived, TypeOK
  <2> QED BY <1>5, <2>2, <2>4 DEF ResponseReceived, TypeOK, PendingFinite
<1>6. CASE ExecuteCallback(b)
  <2>1. Tail(renderTasks[b]) \in Seq(Response) BY <1>6 DEF ExecuteCallback, TypeOK
  <2>2. page' \in [Uid -> PageStates] BY <1>6, RecordPageType DEF ExecuteCallback, PageStates
  <2>3. requests' \in [Browsers -> SUBSET RequestInfo] BY <1>6 DEF ExecuteCallback, TypeOK
  <2> QED BY <1>6, <2>1, <2>2, <2>3 DEF ExecuteCallback, TypeOK, PendingFinite
<1> QED BY <1>1, <1>2, <1>3, <1>4, <1>5, <1>6 DEF Renderer

\* Every step keeps the types.
LEMMA NextType == TypeOK /\ PendingFinite /\ [Next]_vars => TypeOK' /\ PendingFinite'
<1> SUFFICES ASSUME TypeOK, PendingFinite, [Next]_vars PROVE TypeOK' /\ PendingFinite'
  OBVIOUS
<1>1. CASE Next
  BY <1>1, ApplicationType, RunUiTaskType, QueryReceivedType, CancelReceivedType,
     NavigationType, RendererType DEF Next
<1>2. CASE UNCHANGED vars
  BY <1>2 DEF vars, browserVars, rendererVars, TypeOK, PendingFinite
<1> QED BY <1>1, <1>2

\* Every variable of the router keeps its type, and the map of pending queries stays finite, so
\* that the iterations over it (CancelPendingFor, OnRenderProcessTerminated) end.
THEOREM TypeCorrect == Spec => []TypeOK
<1>1. Init => TypeOK /\ PendingFinite BY InitType
<1>2. (TypeOK /\ PendingFinite) /\ [Next]_vars => (TypeOK /\ PendingFinite)'
  BY NextType
<1>3. TypeOK /\ PendingFinite => TypeOK OBVIOUS
<1> QED BY <1>1, <1>2, <1>3, PTL DEF Spec
-----------------------------------------------------------------------------
(***************************************************************************)
(* No stale response. NoStaleResponse is not inductive: a response is sent *)
(* for a pending query, so the pending queries must be of the running      *)
(* process too, and nothing may be in flight when a process is replaced.   *)
(***************************************************************************)
\* Every response of s answers a query of the e-th renderer process.
OfEpoch(s, e) == \A i \in DOMAIN s : s[i].epoch = e

InFlightCurrent ==
  \A b \in Browsers : OfEpoch(toRenderer[b], epoch[b]) /\ OfEpoch(renderTasks[b], epoch[b])

\* A renderer that is not up has nothing to read and nothing to run.
NothingForTheDead ==
  \A b \in Browsers : process[b] # "up" => toRenderer[b] = <<>> /\ renderTasks[b] = <<>>

\* A pending query is of its browser's last process, whose end has not been handled yet.
PendingCurrent ==
  \A q \in pending : q.epoch = epoch[q.browser] /\ process[q.browser] # "terminated"

EpochInv ==
  TypeOK /\ PendingFinite /\ InFlightCurrent /\ NothingForTheDead /\ PendingCurrent

\* Responses of one epoch remain so in a queue's tail and in two queues joined.
LEMMA OfEpochSequences ==
  ASSUME NEW s \in Seq(Response), NEW e, OfEpoch(s, e)
  PROVE  /\ \A m \in Seq(Response) : OfEpoch(m, e) => OfEpoch(s \o m, e)
         /\ s # <<>> => Head(s).epoch = e /\ OfEpoch(Tail(s), e)
<1>1. ASSUME NEW m \in Seq(Response), OfEpoch(m, e) PROVE OfEpoch(s \o m, e)
  <2> SUFFICES ASSUME NEW i \in DOMAIN (s \o m) PROVE (s \o m)[i].epoch = e
    BY DEF OfEpoch
  <2>1. CASE i \in DOMAIN s BY <2>1 DEF OfEpoch
  <2>2. CASE i \notin DOMAIN s
    <3>1. i - Len(s) \in DOMAIN m /\ (s \o m)[i] = m[i - Len(s)] BY <2>2
    <3> QED BY <1>1, <3>1 DEF OfEpoch
  <2> QED BY <2>1, <2>2
<1>2. ASSUME s # <<>> PROVE Head(s).epoch = e /\ OfEpoch(Tail(s), e)
  <2>1. 1 \in DOMAIN s /\ Head(s) = s[1] BY <1>2
  <2>2. ASSUME NEW i \in DOMAIN Tail(s) PROVE i + 1 \in DOMAIN s /\ Tail(s)[i] = s[i + 1]
    BY <1>2
  <2> QED BY <2>1, <2>2 DEF OfEpoch
<1> QED BY <1>1, <1>2

\* What a step leaves in the pipes to the renderers, when it does not touch the processes.
PipesCurrent ==
  \A b \in Browsers : /\ OfEpoch(toRenderer'[b], epoch[b])
                      /\ process[b] # "up" => toRenderer'[b] = <<>>

\* A step that sends nothing keeps the pipes current.
LEMMA PipesUnchanged == EpochInv /\ UNCHANGED toRenderer => PipesCurrent
BY DEF EpochInv, InFlightCurrent, NothingForTheDead, PipesCurrent

\* One response to the running process of b.
LEMMA SendToRendererCurrent ==
  ASSUME EpochInv, NEW b \in Browsers, NEW m \in Response, m.epoch = epoch[b],
         SendToRenderer(b, <<m>>)
  PROVE  PipesCurrent
<1> SUFFICES ASSUME NEW c \in Browsers
             PROVE  /\ OfEpoch(toRenderer'[c], epoch[c])
                    /\ process[c] # "up" => toRenderer'[c] = <<>>
  BY DEF PipesCurrent
<1>1. /\ toRenderer \in [Browsers -> Seq(Response)]
      /\ OfEpoch(toRenderer[c], epoch[c]) /\ (process[c] # "up" => toRenderer[c] = <<>>)
  BY DEF EpochInv, TypeOK, InFlightCurrent, NothingForTheDead
<1>2. CASE c = b /\ process[b] = "up"
  <2>1. toRenderer'[c] = toRenderer[c] \o <<m>> BY <1>1, <1>2 DEF SendToRenderer
  <2>2. <<m>> \in Seq(Response) /\ OfEpoch(<<m>>, epoch[c]) BY <1>2 DEF OfEpoch
  <2>3. OfEpoch(toRenderer[c] \o <<m>>, epoch[c]) BY <1>1, <2>2, OfEpochSequences
  <2> QED BY <1>2, <2>1, <2>3
<1>3. CASE ~(c = b /\ process[b] = "up")
  BY <1>1, <1>3 DEF SendToRenderer
<1> QED BY <1>2, <1>3

\* The failures CancelQuery sends.
LEMMA NotifyRenderersCurrent ==
  ASSUME EpochInv, NEW S, S \subseteq pending, NotifyRenderers(S)
  PROVE  PipesCurrent
<1> SUFFICES ASSUME NEW b \in Browsers
             PROVE  /\ OfEpoch(toRenderer'[b], epoch[b])
                    /\ process[b] # "up" => toRenderer'[b] = <<>>
  BY DEF PipesCurrent
<1>1. SendsFailures(S, b) BY NotifyRenderersSends DEF EpochInv
<1>2. /\ toRenderer[b] \in Seq(Response)
      /\ OfEpoch(toRenderer[b], epoch[b]) /\ (process[b] # "up" => toRenderer[b] = <<>>)
  BY DEF EpochInv, TypeOK, InFlightCurrent, NothingForTheDead
<1>3. CASE toRenderer'[b] = toRenderer[b] BY <1>2, <1>3
<1>4. CASE toRenderer'[b] # toRenderer[b]
  <2>1. process[b] = "up" BY <1>1, <1>4 DEF SendsFailures
  <2>2. PICK m \in Seq(Response) :
          /\ toRenderer'[b] = toRenderer[b] \o m
          /\ \A i \in DOMAIN m : \E q \in S : q.browser = b /\ m[i] = Failure(q)
    BY <1>1, <1>4 DEF SendsFailures
  <2>3. \A q \in S : q.browser = b => Failure(q).epoch = epoch[b]
    BY DEF EpochInv, PendingCurrent, Failure
  <2>4. OfEpoch(m, epoch[b]) BY <2>2, <2>3 DEF OfEpoch
  <2>5. OfEpoch(toRenderer[b] \o m, epoch[b]) BY <1>2, <2>4, OfEpochSequences
  <2> QED BY <2>1, <2>2, <2>5
<1> QED BY <1>3, <1>4

\* A step that leaves the processes alone, and adds no query, keeps the invariant.
LEMMA QuietStep ==
  ASSUME EpochInv, PipesCurrent, UNCHANGED <<process, epoch, renderTasks>>, pending' \subseteq pending
  PROVE  InFlightCurrent' /\ NothingForTheDead' /\ PendingCurrent'
BY DEF EpochInv, PipesCurrent, InFlightCurrent, NothingForTheDead, PendingCurrent

\* Init establishes the invariant: nothing is pending or in flight.
LEMMA InitEpoch == Init => EpochInv
<1> SUFFICES ASSUME Init PROVE EpochInv OBVIOUS
<1>1. InFlightCurrent BY DEF Init, InFlightCurrent, OfEpoch
<1>2. NothingForTheDead /\ PendingCurrent BY DEF Init, NothingForTheDead, PendingCurrent
<1> QED BY <1>1, <1>2, InitType DEF EpochInv

\* The application's calls.
LEMMA ApplicationEpoch ==
  ASSUME EpochInv, Application PROVE InFlightCurrent' /\ NothingForTheDead' /\ PendingCurrent'
<1> USE DEF rendererVars
<1>1. ASSUME NEW bs, NEW hs, CancelPendingFor(bs, hs)
      PROVE  PipesCurrent /\ pending' \subseteq pending
  <2>1. Matching(bs, hs) \subseteq pending BY DEF Matching
  <2> QED BY <1>1, <2>1, NotifyRenderersCurrent DEF CancelPendingFor, CancelQueries
<1>2. CASE \E h \in Handlers : AddHandler(h)
  BY <1>2, PipesUnchanged, QuietStep DEF AddHandler
<1>3. CASE \E h \in Handlers : RemoveHandler(h)
  BY <1>1, <1>3, QuietStep DEF RemoveHandler
<1>4. CASE \E bs \in BrowserSets, hs \in HandlerSets : CancelPending(bs, hs)
  BY <1>1, <1>4, QuietStep DEF CancelPending
<1>5. CASE \E bs \in BrowserSets, hs \in HandlerSets : PostCancelPending(bs, hs)
  BY <1>5, PipesUnchanged, QuietStep DEF PostCancelPending
<1>6. CASE \E c \in callbacks, kind \in {"Success", "Failure"} :
             CallOnUiThread(c, kind) \/ CallOnOtherThread(c, kind)
  BY <1>6, PipesUnchanged, QuietStep DEF CallOnUiThread, CallOnOtherThread
<1> QED BY <1>2, <1>3, <1>4, <1>5, <1>6 DEF Application

\* The tasks of the UI thread.
LEMMA RunUiTaskEpoch ==
  ASSUME EpochInv, RunUiTask PROVE InFlightCurrent' /\ NothingForTheDead' /\ PendingCurrent'
<1> USE DEF rendererVars
<1> DEFINE t == Head(uiTasks)
<1>1. CASE RunPostedCall BY <1>1, PipesUnchanged, QuietStep DEF RunPostedCall
<1>2. ASSUME t \in CallbackTask, NEW q \in pending
      PROVE  /\ Success(q, t) \in Response /\ Failure(q) \in Response
             /\ Success(q, t).epoch = epoch[q.browser] /\ Failure(q).epoch = epoch[q.browser]
             /\ q.browser \in Browsers
  BY <1>2 DEF EpochInv, PendingCurrent, TypeOK, QueryInfo, CallbackTask, Success, Failure,
              Response, Threads
<1>3. uiTasks # <<>> => t \in CallbackTask \cup CancelTask BY DEF EpochInv, TypeOK
<1>4. CASE OnCallbackSuccess
  <2>1. t \in CallbackTask BY <1>3, <1>4 DEF OnCallbackSuccess, CancelTask
  <2>2. PipesCurrent
    BY <1>2, <1>4, <2>1, SendToRendererCurrent, PipesUnchanged DEF OnCallbackSuccess
  <2>3. pending' \subseteq pending BY <1>4 DEF OnCallbackSuccess
  <2> QED BY <1>4, <2>2, <2>3, QuietStep DEF OnCallbackSuccess
<1>5. CASE OnCallbackFailure
  <2>1. t \in CallbackTask BY <1>3, <1>5 DEF OnCallbackFailure, CancelTask
  <2>2. PipesCurrent
    BY <1>2, <1>5, <2>1, SendToRendererCurrent, PipesUnchanged DEF OnCallbackFailure
  <2>3. pending' \subseteq pending BY <1>5 DEF OnCallbackFailure
  <2> QED BY <1>5, <2>2, <2>3, QuietStep DEF OnCallbackFailure
<1>6. CASE RunCancelPendingFor
  <2>1. Matching(t.browsers, t.handlers) \subseteq pending BY DEF Matching
  <2>2. PipesCurrent /\ pending' \subseteq pending
    BY <1>6, <2>1, NotifyRenderersCurrent DEF RunCancelPendingFor, CancelPendingFor, CancelQueries
  <2> QED BY <1>6, <2>2, QuietStep DEF RunCancelPendingFor
<1> QED BY <1>1, <1>4, <1>5, <1>6 DEF RunUiTask

\* The messages of the page. A query accepted is of the running process: its message was read
\* from a pipe of a process whose end has not been handled.
LEMMA MessageEpoch ==
  ASSUME EpochInv, NEW b \in Browsers, QueryReceived(b) \/ CancelReceived(b)
  PROVE  InFlightCurrent' /\ NothingForTheDead' /\ PendingCurrent'
<1> USE DEF rendererVars
<1> DEFINE m == Head(toBrowser[b])
           f == Failure([ctx |-> m.ctx, req |-> m.req, epoch |-> epoch[b]])
<1>1. Receive(b, "query") => f \in Response /\ f.epoch = epoch[b]
  <2>1. Receive(b, "query") => m \in QueryMsg BY ReceiveType DEF EpochInv
  <2>2. epoch[b] \in Nat BY Bounds DEF EpochInv, TypeOK
  <2> QED BY <2>1, <2>2 DEF Failure, Response, Threads, QueryMsg
<1>2. CASE QueryWithoutHandlers(b)
  <2>1. PipesCurrent
    BY <1>1, <1>2, SendToRendererCurrent DEF QueryWithoutHandlers, CancelUnhandledQuery
  <2> QED BY <1>2, <2>1, QuietStep DEF QueryWithoutHandlers
<1>3. ASSUME NEW called, QueryUnhandled(b, called)
      PROVE  InFlightCurrent' /\ NothingForTheDead' /\ PendingCurrent'
  <2>1. PipesCurrent
    BY <1>1, <1>3, SendToRendererCurrent DEF QueryUnhandled, CancelUnhandledQuery
  <2> QED BY <1>3, <2>1, QuietStep DEF QueryUnhandled
<1>4. ASSUME NEW called, NEW h \in Handlers, QueryHandled(b, h, called)
      PROVE  InFlightCurrent' /\ NothingForTheDead' /\ PendingCurrent'
  <2>1. NewQuery(b, h).browser = b /\ NewQuery(b, h).epoch = epoch[b] BY DEF NewQuery
  <2>2. pending' = pending \cup {NewQuery(b, h)} /\ process[b] # "terminated"
    BY <1>4 DEF QueryHandled, Receive
  <2>3. UNCHANGED <<process, epoch, renderTasks, toRenderer>> BY <1>4 DEF QueryHandled
  <2> QED BY <2>1, <2>2, <2>3 DEF EpochInv, InFlightCurrent, NothingForTheDead, PendingCurrent
<1>5. CASE CancelReceived(b)
  BY <1>5, PipesUnchanged, QuietStep DEF CancelReceived, CancelQueries
<1>6. CASE OfferQuery(b) BY <1>6, PipesUnchanged, QuietStep DEF OfferQuery
<1> QED BY <1>2, <1>3, <1>4, <1>5, <1>6 DEF QueryReceived

\* Navigations, and the death and birth of processes: a process starts with empty pipes, after
\* OnRenderProcessTerminated canceled what its predecessor had asked.
LEMMA NavigationEpoch ==
  ASSUME EpochInv, NEW b \in Browsers, Navigation(b)
  PROVE  InFlightCurrent' /\ NothingForTheDead' /\ PendingCurrent'
<1> USE DEF rendererVars, browserVars
<1>0. /\ process \in [Browsers -> Process] /\ epoch \in [Browsers -> 1..MaxEpoch]
      /\ toRenderer \in [Browsers -> Seq(Response)] /\ renderTasks \in [Browsers -> Seq(Response)]
      /\ pending \subseteq QueryInfo
  BY DEF EpochInv, TypeOK
<1>1. CASE OnBeforeBrowse(b)
  BY <1>1, PipesUnchanged, QuietStep DEF OnBeforeBrowse, CancelSilently, CancelQueries
<1>2. CASE NavigationAborted(b)
  BY <1>2, PipesUnchanged, QuietStep DEF NavigationAborted
<1>3. ASSUME ResetRenderer(b), UNCHANGED epoch, pending' \subseteq pending,
             NEW p \in {"crashed", "closed"}, process' = [process EXCEPT ![b] = p]
      PROVE  InFlightCurrent' /\ NothingForTheDead' /\ PendingCurrent'
  <2>1. /\ toRenderer' = [toRenderer EXCEPT ![b] = <<>>]
        /\ renderTasks' = [renderTasks EXCEPT ![b] = <<>>]
    BY <1>3 DEF ResetRenderer
  <2>2. InFlightCurrent'
    BY <1>0, <1>3, <2>1 DEF EpochInv, InFlightCurrent, OfEpoch
  <2>3. NothingForTheDead'
    BY <1>0, <1>3, <2>1 DEF EpochInv, NothingForTheDead
  <2>4. PendingCurrent'
    BY <1>0, <1>3 DEF EpochInv, PendingCurrent
  <2> QED BY <2>2, <2>3, <2>4
<1>4. CASE OnBeforeClose(b)
  <2>1. pending' \subseteq pending
    BY <1>4 DEF OnBeforeClose, CloseInRouter, CloseInCefClient, CancelQueries
  <2> QED BY <1>3, <1>4, <2>1 DEF OnBeforeClose
<1>5. CASE Crash(b) BY <1>3, <1>5 DEF Crash
<1>6. CASE OnRenderProcessTerminated(b)
  <2>1. /\ process' = [process EXCEPT ![b] = "terminated"] /\ process[b] = "crashed"
        /\ UNCHANGED <<epoch, renderTasks, toRenderer>>
        /\ pending' = pending \ Matching({b}, Handlers)
    BY <1>6 DEF OnRenderProcessTerminated, CancelSilently, CancelQueries
  <2>2. InFlightCurrent' BY <2>1 DEF EpochInv, InFlightCurrent
  <2>3. NothingForTheDead' BY <1>0, <2>1 DEF EpochInv, NothingForTheDead
  <2>4. \A q \in pending' : q.browser # b BY <1>0, <2>1 DEF Matching, QueryInfo
  <2>5. ASSUME NEW q \in pending'
        PROVE  q.epoch = epoch'[q.browser] /\ process'[q.browser] # "terminated"
    <3>1. q \in pending /\ q.browser # b /\ q.browser \in Browsers
      BY <1>0, <2>1, <2>4 DEF QueryInfo
    <3>2. process'[q.browser] = process[q.browser] BY <1>0, <2>1, <3>1
    <3> QED BY <2>1, <3>1, <3>2 DEF EpochInv, PendingCurrent
  <2>6. PendingCurrent' BY <2>5 DEF PendingCurrent
  <2> QED BY <2>2, <2>3, <2>6
<1>7. CASE Relaunch(b)
  <2>1. /\ process' = [process EXCEPT ![b] = "up"] /\ process[b] = "terminated"
        /\ epoch' = [epoch EXCEPT ![b] = @ + 1]
        /\ UNCHANGED <<renderTasks, toRenderer, pending>>
    BY <1>7 DEF Relaunch
  <2>2. toRenderer[b] = <<>> /\ renderTasks[b] = <<>>
    BY <2>1 DEF EpochInv, NothingForTheDead
  <2>3. InFlightCurrent' BY <1>0, <2>1, <2>2 DEF EpochInv, InFlightCurrent, OfEpoch
  <2>4. NothingForTheDead' BY <1>0, <2>1 DEF EpochInv, NothingForTheDead
  <2>5. \A q \in pending : q.browser # b BY <2>1 DEF EpochInv, PendingCurrent
  <2>6. PendingCurrent' BY <1>0, <2>1, <2>5 DEF EpochInv, PendingCurrent
  <2> QED BY <2>3, <2>4, <2>6
<1> QED BY <1>1, <1>2, <1>4, <1>5, <1>6, <1>7 DEF Navigation

\* The renderer's own steps: only ResponseReceived and ExecuteCallback touch the responses.
LEMMA RendererEpoch ==
  ASSUME EpochInv, NEW b \in Browsers, Renderer(b)
  PROVE  InFlightCurrent' /\ NothingForTheDead' /\ PendingCurrent'
<1> USE DEF browserVars
<1>0. toRenderer \in [Browsers -> Seq(Response)] /\ renderTasks \in [Browsers -> Seq(Response)]
  BY DEF EpochInv, TypeOK
<1>1. ASSUME UNCHANGED <<pending, process, epoch, renderTasks, toRenderer>>
      PROVE  InFlightCurrent' /\ NothingForTheDead' /\ PendingCurrent'
  BY <1>1, PipesUnchanged, QuietStep
<1>2. CASE \E f \in Frames : OnContextCreated(b, f) \/ OnContextReleased(b, f)
  BY <1>1, <1>2 DEF OnContextCreated, OnContextReleased
<1>3. CASE \E f \in Frames : \/ \E persistent \in Persistence : CefQuery(b, f, persistent)
                             \/ \E r \in 1..MaxRequests : CefQueryCancel(b, f, r)
  BY <1>1, <1>3 DEF CefQuery, CefQueryCancel
<1>4. CASE ResponseReceived(b)
  <2> DEFINE m == Head(toRenderer[b])
  <2>1. /\ toRenderer[b] # <<>>
        /\ toRenderer' = [toRenderer EXCEPT ![b] = Tail(toRenderer[b])]
        /\ renderTasks' = [renderTasks EXCEPT ![b] = Append(renderTasks[b], m)]
        /\ UNCHANGED <<pending, process, epoch>>
    BY <1>4 DEF ResponseReceived
  <2>2. m \in Response BY <1>0, <2>1
  <2>3. m.epoch = epoch[b] /\ OfEpoch(Tail(toRenderer[b]), epoch[b])
    BY <1>0, <2>1, OfEpochSequences DEF EpochInv, InFlightCurrent
  <2> HIDE DEF m
  <2>4. OfEpoch(Append(renderTasks[b], m), epoch[b])
    <3>1. <<m>> \in Seq(Response) /\ OfEpoch(<<m>>, epoch[b]) BY <2>2, <2>3 DEF OfEpoch
    <3>2. Append(renderTasks[b], m) = renderTasks[b] \o <<m>> BY <1>0, <2>2
    <3>3. renderTasks[b] \in Seq(Response) /\ OfEpoch(renderTasks[b], epoch[b])
      BY <1>0 DEF EpochInv, InFlightCurrent
    <3>4. OfEpoch(renderTasks[b] \o <<m>>, epoch[b]) BY <3>1, <3>3, OfEpochSequences
    <3> QED BY <3>2, <3>4
  <2>5. InFlightCurrent' BY <1>0, <2>1, <2>3, <2>4 DEF EpochInv, InFlightCurrent
  <2>6. process[b] = "up" BY <2>1 DEF EpochInv, NothingForTheDead
  <2>7. NothingForTheDead' BY <1>0, <2>1, <2>6 DEF EpochInv, NothingForTheDead
  <2>8. PendingCurrent' BY <2>1 DEF EpochInv, PendingCurrent
  <2> QED BY <2>5, <2>7, <2>8
<1>5. CASE ExecuteCallback(b)
  <2>1. /\ renderTasks[b] # <<>>
        /\ renderTasks' = [renderTasks EXCEPT ![b] = Tail(renderTasks[b])]
        /\ UNCHANGED <<pending, process, epoch, toRenderer>>
    BY <1>5 DEF ExecuteCallback
  <2>2. OfEpoch(Tail(renderTasks[b]), epoch[b])
    BY <1>0, <2>1, OfEpochSequences DEF EpochInv, InFlightCurrent
  <2>3. InFlightCurrent' BY <1>0, <2>1, <2>2 DEF EpochInv, InFlightCurrent
  <2>4. process[b] = "up" BY <2>1 DEF EpochInv, NothingForTheDead
  <2>5. NothingForTheDead' BY <1>0, <2>1, <2>4 DEF EpochInv, NothingForTheDead
  <2>6. PendingCurrent' BY <2>1 DEF EpochInv, PendingCurrent
  <2> QED BY <2>3, <2>5, <2>6
<1> QED BY <1>2, <1>3, <1>4, <1>5 DEF Renderer

\* Every step keeps the invariant.
LEMMA NextEpoch == EpochInv /\ [Next]_vars => EpochInv'
<1> SUFFICES ASSUME EpochInv, [Next]_vars PROVE InFlightCurrent' /\ NothingForTheDead' /\ PendingCurrent'
  BY NextType DEF EpochInv
<1>1. CASE Next
  BY <1>1, ApplicationEpoch, RunUiTaskEpoch, MessageEpoch, NavigationEpoch, RendererEpoch DEF Next
<1>2. CASE UNCHANGED vars
  BY <1>2, PipesUnchanged, QuietStep DEF vars, browserVars, rendererVars
<1> QED BY <1>1, <1>2

\* A response on its way to a renderer process, or in its task queue, answers a query that very
\* process asked: ids start again in a new process, and a response to the old one would run the
\* callback of another query.
THEOREM NoStale == Spec => []NoStaleResponse
<1>1. Init => EpochInv BY InitEpoch
<1>2. EpochInv /\ [Next]_vars => EpochInv' BY NextEpoch
<1>3. EpochInv => NoStaleResponse
  <2> SUFFICES ASSUME EpochInv, NEW b \in Browsers, NEW i \in DOMAIN Arriving(b)
               PROVE  Arriving(b)[i].epoch = epoch[b]
    BY DEF NoStaleResponse
  <2>1. renderTasks[b] \in Seq(Response) /\ toRenderer[b] \in Seq(Response)
    BY DEF EpochInv, TypeOK
  <2>2. OfEpoch(Arriving(b), epoch[b])
    BY <2>1, OfEpochSequences DEF EpochInv, InFlightCurrent, Arriving
  <2> QED BY <2>2 DEF OfEpoch
<1> QED BY <1>1, <1>2, <1>3, PTL DEF Spec

-----------------------------------------------------------------------------
(***************************************************************************)
(* Callbacks.                                                              *)
(***************************************************************************)
\* The tasks that end in GetQueryInfo, and those that complete a query when they run.
Responds == {"OnCallbackSuccess", "OnCallbackFailure"}
CompletesWith(persistent) ==
  {"OnCallbackFailure"} \cup (IF persistent THEN {} ELSE {"OnCallbackSuccess"})

\* A task of a kind in ks for the query with this id is in the queue s.
QueuedIn(s, ks, id) == \E i \in DOMAIN s : s[i].kind \in ks /\ s[i].id = id

\* Ids of queries are given out in order, to one query and one Callback each, and are in the
\* tasks; a Callback that works is of a pending query, whose last response is not queued; and a
\* pending query has the one or the other.
CallbackInv ==
  /\ \A p, q \in pending : p.id = q.id => p = q
  /\ \A c, d \in callbacks : c.id = d.id => c = d
  /\ \A q \in pending : q.id <= nextQuery
  /\ \A id \in Nat : QueuedIn(uiTasks, Responds, id) => id <= nextQuery
  /\ \A c \in callbacks : \E q \in pending : q.id = c.id /\ q.persistent = c.persistent
  /\ \A c \in callbacks : ~QueuedIn(uiTasks, CompletesWith(c.persistent), c.id)
  /\ \A q \in pending :
       QueuedIn(uiTasks, CompletesWith(q.persistent), q.id) \/ \E c \in callbacks : c.id = q.id

\* What is queued after a task is posted, and what was queued before one was taken to run.
LEMMA QueueEnds ==
  ASSUME NEW s \in Seq(CallbackTask \cup CancelTask), NEW ks, NEW id
  PROVE  /\ \A t \in CallbackTask \cup CancelTask :
              QueuedIn(Append(s, t), ks, id) <=> QueuedIn(s, ks, id) \/ (t.kind \in ks /\ t.id = id)
         /\ s # <<>> => (QueuedIn(s, ks, id) <=>
              QueuedIn(Tail(s), ks, id) \/ (Head(s).kind \in ks /\ Head(s).id = id))
<1>1. ASSUME NEW t \in CallbackTask \cup CancelTask
      PROVE  QueuedIn(Append(s, t), ks, id) <=> QueuedIn(s, ks, id) \/ (t.kind \in ks /\ t.id = id)
  <2>1. /\ DOMAIN Append(s, t) = DOMAIN s \cup {Len(s) + 1}
        /\ \A i \in DOMAIN s : Append(s, t)[i] = s[i]
        /\ Append(s, t)[Len(s) + 1] = t
    OBVIOUS
  <2> QED BY <2>1 DEF QueuedIn
<1>2. ASSUME s # <<>>
      PROVE  QueuedIn(s, ks, id) <=>
               QueuedIn(Tail(s), ks, id) \/ (Head(s).kind \in ks /\ Head(s).id = id)
  <2>1. 1 \in DOMAIN s /\ Head(s) = s[1] BY <1>2
  <2>2. \A i \in DOMAIN Tail(s) : i + 1 \in DOMAIN s /\ Tail(s)[i] = s[i + 1] BY <1>2
  <2>3. \A i \in DOMAIN s \ {1} : i - 1 \in DOMAIN Tail(s) /\ Tail(s)[i - 1] = s[i] BY <1>2
  <2>4. QueuedIn(s, ks, id) => QueuedIn(Tail(s), ks, id) \/ (Head(s).kind \in ks /\ Head(s).id = id)
    BY <2>1, <2>3 DEF QueuedIn
  <2>5. QueuedIn(Tail(s), ks, id) => QueuedIn(s, ks, id) BY <2>2 DEF QueuedIn
  <2>6. Head(s).kind \in ks /\ Head(s).id = id => QueuedIn(s, ks, id) BY <2>1 DEF QueuedIn
  <2> QED BY <2>4, <2>5, <2>6
<1> QED BY <1>1, <1>2

\* The queues t and s are the same for GetQueryInfo.
SameResponses(t, s) ==
  /\ \A id \in Nat : QueuedIn(t, Responds, id) <=> QueuedIn(s, Responds, id)
  /\ \A id \in Nat, p \in BOOLEAN :
       QueuedIn(t, CompletesWith(p), id) <=> QueuedIn(s, CompletesWith(p), id)

\* Steps that leave queries, Callbacks and their responses alone keep the invariant.
LEMMA SameCallbacks ==
  ASSUME TypeOK, CallbackInv, UNCHANGED <<nextQuery, pending, callbacks>>,
         SameResponses(uiTasks', uiTasks)
  PROVE  CallbackInv'
<1>1. \A c \in callbacks : c.id \in Nat /\ c.persistent \in BOOLEAN BY DEF TypeOK, CallbackImpl
<1>2. \A q \in pending : q.id \in Nat /\ q.persistent \in BOOLEAN BY DEF TypeOK, QueryInfo
<1>3. \A c \in callbacks : ~QueuedIn(uiTasks', CompletesWith(c.persistent), c.id)
  BY <1>1 DEF CallbackInv, SameResponses
<1>4. \A q \in pending :
        QueuedIn(uiTasks', CompletesWith(q.persistent), q.id) \/ \E c \in callbacks : c.id = q.id
  BY <1>2 DEF CallbackInv, SameResponses
<1>5. \A id \in Nat : QueuedIn(uiTasks', Responds, id) => id <= nextQuery
  BY DEF CallbackInv, SameResponses
<1> QED BY <1>3, <1>4, <1>5 DEF CallbackInv

\* CancelQuery detaches the Callbacks of the queries it takes away, and of no other.
LEMMA CancelKeepsCallbacks ==
  ASSUME TypeOK, CallbackInv, NEW S \in SUBSET pending, CancelQueries(S), UNCHANGED nextQuery,
         SameResponses(uiTasks', uiTasks)
  PROVE  CallbackInv'
<1>1. pending' = pending \ S /\ callbacks' = {c \in callbacks : \A q \in S : q.id # c.id}
  BY DEF CancelQueries
<1>2. \A c \in callbacks' : \E q \in pending' : q.id = c.id /\ q.persistent = c.persistent
  BY <1>1 DEF CallbackInv
<1>3. ASSUME NEW q \in pending'
      PROVE  QueuedIn(uiTasks', CompletesWith(q.persistent), q.id) \/ \E c \in callbacks' : c.id = q.id
  <2>1. q \in pending /\ q.id \in Nat /\ q.persistent \in BOOLEAN /\ \A p \in S : p.id # q.id
    BY <1>1 DEF TypeOK, QueryInfo, CallbackInv
  <2>2. QueuedIn(uiTasks, CompletesWith(q.persistent), q.id) \/ \E c \in callbacks : c.id = q.id
    BY <2>1 DEF CallbackInv
  <2>3. \A c \in callbacks : c.id = q.id => c \in callbacks' BY <1>1, <2>1
  <2> QED BY <2>1, <2>2, <2>3 DEF SameResponses
<1>4. \A c \in callbacks' : ~QueuedIn(uiTasks', CompletesWith(c.persistent), c.id)
  BY <1>1 DEF CallbackInv, TypeOK, CallbackImpl, SameResponses
<1>5. \A id \in Nat : QueuedIn(uiTasks', Responds, id) => id <= nextQuery
  BY DEF CallbackInv, SameResponses
<1> QED BY <1>1, <1>2, <1>3, <1>4, <1>5 DEF CallbackInv

\* Posting a task that is no response, or running one, leaves the responses queued.
LEMMA OtherTask ==
  ASSUME NEW s \in Seq(CallbackTask \cup CancelTask)
  PROVE  /\ SameResponses(s, s)
         /\ \A t \in CallbackTask \cup CancelTask :
              t.kind \notin Responds => SameResponses(Append(s, t), s)
         /\ s # <<>> /\ Head(s).kind \notin Responds => SameResponses(Tail(s), s)
<1>1. \A p \in BOOLEAN : CompletesWith(p) \subseteq Responds BY DEF CompletesWith, Responds
<1>2. SameResponses(s, s) BY DEF SameResponses
<1>3. ASSUME NEW t \in CallbackTask \cup CancelTask, t.kind \notin Responds
      PROVE  SameResponses(Append(s, t), s)
  BY <1>1, <1>3, QueueEnds DEF SameResponses
<1>4. ASSUME s # <<>>, Head(s).kind \notin Responds PROVE SameResponses(Tail(s), s)
  BY <1>1, <1>4, QueueEnds DEF SameResponses
<1> QED BY <1>2, <1>3, <1>4

\* Success or Failure of a Callback that works posts one response; if it is the last, the
\* Callback stops working.
LEMMA RespondKeepsCallbacks ==
  ASSUME TypeOK, CallbackInv, UNCHANGED <<nextQuery, pending>>,
         NEW base \in Seq(CallbackTask \cup CancelTask), SameResponses(base, uiTasks),
         NEW c \in callbacks, NEW kind \in Responds, NEW call \in Nat, NEW thread \in Threads,
         Respond(c, kind, call, thread, base)
  PROVE  CallbackInv'
<1> DEFINE t == [kind |-> kind, id |-> c.id, call |-> call, thread |-> thread]
<1>1. c \in CallbackImpl /\ c.id \in Nat /\ c.persistent \in BOOLEAN /\ c.calls \in Nat
  BY DEF TypeOK, CallbackImpl
<1>2. t \in CallbackTask BY <1>1 DEF CallbackTask, Responds
<1>3. uiTasks' = Append(base, t) BY DEF Respond
<1>4. \A ks, id : QueuedIn(uiTasks', ks, id) <=>
                    QueuedIn(base, ks, id) \/ (kind \in ks /\ c.id = id)
  <2>1. t.kind = kind /\ t.id = c.id OBVIOUS
  <2> HIDE DEF t
  <2> TAKE ks, id
  <2>2. QueuedIn(Append(base, t), ks, id) <=> QueuedIn(base, ks, id) \/ (t.kind \in ks /\ t.id = id)
    BY <1>2, QueueEnds
  <2> QED BY <1>3, <2>1, <2>2
<1> HIDE DEF t
<1>5. PICK q \in pending : q.id = c.id /\ q.persistent = c.persistent BY DEF CallbackInv
<1>6. \A p \in pending : p.id = c.id => p = q BY <1>5 DEF CallbackInv
<1>7. \A d \in callbacks : d.id = c.id => d = c BY DEF CallbackInv
<1>8. \A d \in callbacks : d.id \in Nat /\ d.persistent \in BOOLEAN BY DEF TypeOK, CallbackImpl
<1>9. \A p \in pending : p.id \in Nat /\ p.persistent \in BOOLEAN BY DEF TypeOK, QueryInfo
<1>10. \A id \in Nat : QueuedIn(uiTasks', Responds, id) => id <= nextQuery
  BY <1>4, <1>5 DEF CallbackInv, SameResponses
<1>11. CASE kind = "OnCallbackSuccess" /\ c.persistent
  <2> DEFINE d == [c EXCEPT !.calls = IF call > c.calls THEN call ELSE c.calls]
  <2>1. callbacks' = (callbacks \ {c}) \cup {d} BY <1>11 DEF Respond
  <2>2. d.id = c.id /\ d.persistent = c.persistent BY <1>1 DEF CallbackImpl
  <2> HIDE DEF d
  <2>3. \A e, f \in callbacks' : e.id = f.id => e = f BY <1>7, <2>1, <2>2 DEF CallbackInv
  <2>4. \A e \in callbacks' : \E p \in pending : p.id = e.id /\ p.persistent = e.persistent
    BY <1>5, <2>1, <2>2 DEF CallbackInv
  <2>5. \A e \in callbacks' : ~QueuedIn(uiTasks', CompletesWith(e.persistent), e.id)
    <3>1. kind \notin CompletesWith(c.persistent) BY <1>11 DEF CompletesWith
    <3>2. \A e \in callbacks : ~QueuedIn(base, CompletesWith(e.persistent), e.id)
      BY <1>8 DEF CallbackInv, SameResponses
    <3> QED BY <1>4, <1>7, <2>1, <2>2, <3>1, <3>2
  <2>6. \A p \in pending : QueuedIn(uiTasks', CompletesWith(p.persistent), p.id)
                             \/ \E e \in callbacks' : e.id = p.id
    BY <1>4, <1>9, <2>1, <2>2 DEF CallbackInv, SameResponses
  <2> QED BY <1>10, <2>3, <2>4, <2>5, <2>6 DEF CallbackInv
<1>12. CASE ~(kind = "OnCallbackSuccess" /\ c.persistent)
  <2>1. callbacks' = callbacks \ {c} BY <1>12 DEF Respond
  <2>2. kind \in CompletesWith(c.persistent) BY <1>12 DEF CompletesWith, Responds
  <2>3. \A e \in callbacks' : ~QueuedIn(uiTasks', CompletesWith(e.persistent), e.id)
    <3>1. \A e \in callbacks' : e.id # c.id BY <1>7, <2>1
    <3> QED BY <1>4, <1>8, <2>1, <3>1 DEF CallbackInv, SameResponses
  <2>4. ASSUME NEW p \in pending
        PROVE  QueuedIn(uiTasks', CompletesWith(p.persistent), p.id)
                 \/ \E e \in callbacks' : e.id = p.id
    <3>1. CASE p = q BY <1>4, <1>5, <2>2, <3>1
    <3>2. CASE p # q
      <4>1. p.id # c.id BY <1>6, <3>2
      <4> QED BY <1>4, <1>9, <2>1, <4>1 DEF CallbackInv, SameResponses
    <3> QED BY <3>1, <3>2
  <2> QED BY <1>10, <2>1, <2>3, <2>4 DEF CallbackInv
<1> QED BY <1>11, <1>12

\* The task of a response takes away the query it completes, whose Callback has stopped working
\* before, and nothing else.
LEMMA CompleteKeepsCallbacks ==
  ASSUME TypeOK, CallbackInv, UNCHANGED <<nextQuery, callbacks>>, uiTasks # <<>>,
         Head(uiTasks).kind \in Responds, uiTasks' = Tail(uiTasks),
         pending' = {q \in pending : ~(/\ q.id = Head(uiTasks).id
                                       /\ Head(uiTasks).kind \in CompletesWith(q.persistent))}
  PROVE  CallbackInv'
<1> DEFINE t == Head(uiTasks)
<1>1. uiTasks \in Seq(CallbackTask \cup CancelTask) BY DEF TypeOK
<1>2. \A ks, id : QueuedIn(uiTasks, ks, id) <=>
                    QueuedIn(uiTasks', ks, id) \/ (t.kind \in ks /\ t.id = id)
  BY <1>1, QueueEnds
<1> HIDE DEF t
<1>3. pending' = {q \in pending : ~(q.id = t.id /\ t.kind \in CompletesWith(q.persistent))}
  BY DEF t
<1>4. ASSUME NEW c \in callbacks
      PROVE  /\ \E q \in pending' : q.id = c.id /\ q.persistent = c.persistent
             /\ ~QueuedIn(uiTasks', CompletesWith(c.persistent), c.id)
  <2>1. PICK q \in pending : q.id = c.id /\ q.persistent = c.persistent BY DEF CallbackInv
  <2>2. ~QueuedIn(uiTasks, CompletesWith(c.persistent), c.id) BY DEF CallbackInv
  <2>3. q \in pending' BY <1>2, <1>3, <2>1, <2>2
  <2> QED BY <1>2, <2>1, <2>2, <2>3
<1>5. ASSUME NEW q \in pending'
      PROVE  QueuedIn(uiTasks', CompletesWith(q.persistent), q.id) \/ \E c \in callbacks : c.id = q.id
  BY <1>2, <1>3 DEF CallbackInv
<1>6. \A id \in Nat : QueuedIn(uiTasks', Responds, id) => id <= nextQuery
  BY <1>2 DEF CallbackInv
<1> QED BY <1>3, <1>4, <1>5, <1>6 DEF CallbackInv

\* A query accepted gets the next id and a Callback, or has its response queued already.
LEMMA AcceptKeepsCallbacks ==
  ASSUME TypeOK, CallbackInv, NEW b \in Browsers, NEW h \in Handlers,
         NEW called \in {"none"} \cup Responds, QueryHandled(b, h, called)
  PROVE  CallbackInv'
<1> DEFINE q == NewQuery(b, h)
           c == [id |-> q.id, persistent |-> q.persistent, calls |-> 0]
           t == [kind |-> called, id |-> q.id, call |-> 1, thread |-> "ui"]
<1>1. q.id = nextQuery + 1 /\ nextQuery \in Nat /\ q.persistent \in BOOLEAN
  BY ReceiveType DEF NewQuery, TypeOK, QueryHandled, QueryMsg
<1>2. /\ pending' = pending \cup {q} /\ nextQuery' = q.id
      /\ \/ called = "none" /\ callbacks' = callbacks \cup {c} /\ UNCHANGED uiTasks
         \/ /\ called # "none" /\ uiTasks' = Append(uiTasks, t)
            /\ callbacks' = IF called = "OnCallbackSuccess" /\ c.persistent
                            THEN callbacks \cup {[c EXCEPT !.calls = 1]}
                            ELSE callbacks
  BY DEF QueryHandled
<1>3. called # "none" => t \in CallbackTask
  BY <1>1 DEF CallbackTask, Responds, Threads
<1>4. \A ks : \A id : QueuedIn(uiTasks', ks, id) <=>
        QueuedIn(uiTasks, ks, id) \/ (called # "none" /\ called \in ks /\ q.id = id)
  <2>1. uiTasks \in Seq(CallbackTask \cup CancelTask) BY DEF TypeOK
  <2>2. t.kind = called /\ t.id = q.id OBVIOUS
  <2> HIDE DEF t
  <2>3. CASE called = "none" BY <1>2, <2>3
  <2>4. CASE called # "none"
    <3>1. uiTasks' = Append(uiTasks, t) BY <1>2, <2>4
    <3>2. t \in CallbackTask \cup CancelTask BY <1>3, <2>4
    <3> HIDE DEF q
    <3> QED BY <2>1, <2>2, <2>4, <3>1, <3>2, QueueEnds
  <2> QED BY <2>3, <2>4
<1>5. \A p \in pending : p.id \in Nat /\ p.id <= nextQuery /\ p.id # q.id
  BY <1>1 DEF TypeOK, QueryInfo, CallbackInv
<1>6. \A d \in callbacks : d.id # q.id BY <1>5 DEF CallbackInv
<1>7. /\ c.id = q.id /\ c.persistent = q.persistent
      /\ [c EXCEPT !.calls = 1].id = q.id /\ [c EXCEPT !.calls = 1].persistent = q.persistent
  OBVIOUS
<1> HIDE DEF q, c, t
<1>8. \A ks \in SUBSET Responds : ~QueuedIn(uiTasks, ks, q.id)
  <2>1. ~QueuedIn(uiTasks, Responds, q.id) BY <1>1 DEF CallbackInv
  <2> QED BY <2>1 DEF QueuedIn
<1>9. CompletesWith(q.persistent) \subseteq Responds BY DEF CompletesWith, Responds
<1>10. \E new : /\ callbacks' \subseteq callbacks \cup {new}
                /\ callbacks \subseteq callbacks'
                /\ new.id = q.id /\ new.persistent = q.persistent
                /\ new \in callbacks' <=> ~(called # "none" /\ called \in CompletesWith(q.persistent))
  <2>1. CASE called = "none" BY <1>2, <1>6, <1>7, <2>1
  <2>2. CASE called # "none" /\ called = "OnCallbackSuccess" /\ c.persistent
    <3>1. called \notin CompletesWith(q.persistent) BY <1>7, <2>2 DEF CompletesWith
    <3> QED BY <1>2, <1>7, <2>2, <3>1
  <2>3. CASE called # "none" /\ ~(called = "OnCallbackSuccess" /\ c.persistent)
    <3>1. called \in CompletesWith(q.persistent) BY <1>7, <2>3 DEF CompletesWith, Responds
    <3> QED BY <1>2, <1>6, <1>7, <2>3, <3>1
  <2> QED BY <2>1, <2>2, <2>3
<1>11. PICK new : /\ callbacks' \subseteq callbacks \cup {new}
                  /\ callbacks \subseteq callbacks'
                  /\ new.id = q.id /\ new.persistent = q.persistent
                  /\ new \in callbacks' <=>
                       ~(called # "none" /\ called \in CompletesWith(q.persistent))
  BY <1>10
<1>12. \A d, e \in callbacks' : d.id = e.id => d = e BY <1>6, <1>11 DEF CallbackInv
<1>13. \A p, r \in pending' : p.id = r.id => p = r BY <1>2, <1>5 DEF CallbackInv
<1>14. \A p \in pending' : p.id <= nextQuery' BY <1>1, <1>2, <1>5
<1>15. \A id \in Nat : QueuedIn(uiTasks', Responds, id) => id <= nextQuery'
  BY <1>1, <1>2, <1>4 DEF CallbackInv
<1>16. \A d \in callbacks' : \E p \in pending' : p.id = d.id /\ p.persistent = d.persistent
  BY <1>2, <1>11 DEF CallbackInv
<1>17. \A d \in callbacks' : ~QueuedIn(uiTasks', CompletesWith(d.persistent), d.id)
  BY <1>4, <1>6, <1>8, <1>9, <1>11 DEF CallbackInv
<1>18. \A p \in pending' :
         QueuedIn(uiTasks', CompletesWith(p.persistent), p.id) \/ \E d \in callbacks' : d.id = p.id
  BY <1>2, <1>4, <1>11 DEF CallbackInv
<1> QED BY <1>12, <1>13, <1>14, <1>15, <1>16, <1>17, <1>18 DEF CallbackInv

\* A query that no handler takes uses up an id; what was posted for it finds no entry.
LEMMA RefuseKeepsCallbacks ==
  ASSUME TypeOK, CallbackInv, NEW b \in Browsers,
         NEW called \in {"none"} \cup Responds, QueryUnhandled(b, called)
  PROVE  CallbackInv'
<1> DEFINE t == [kind |-> called, id |-> nextQuery + 1, call |-> 1, thread |-> "ui"]
<1>1. /\ nextQuery \in Nat /\ nextQuery' = nextQuery + 1 /\ UNCHANGED <<pending, callbacks>>
      /\ uiTasks' = IF called = "none" THEN uiTasks ELSE Append(uiTasks, t)
  BY DEF QueryUnhandled, TypeOK
<1>2. called # "none" => t \in CallbackTask BY <1>1 DEF CallbackTask, Responds, Threads
<1>3. t.kind = called /\ t.id = nextQuery + 1 OBVIOUS
<1> HIDE DEF t
<1>4. \A ks : \A id : QueuedIn(uiTasks', ks, id) <=>
        QueuedIn(uiTasks, ks, id) \/ (called # "none" /\ called \in ks /\ nextQuery + 1 = id)
  <2>1. uiTasks \in Seq(CallbackTask \cup CancelTask) BY DEF TypeOK
  <2> QED BY <1>1, <1>2, <1>3, <2>1, QueueEnds
<1>5. \A p \in pending : p.id \in Nat /\ p.id <= nextQuery BY DEF TypeOK, QueryInfo, CallbackInv
<1>6. \A d \in callbacks : d.id \in Nat /\ d.id <= nextQuery BY <1>5 DEF CallbackInv
<1>7. \A id \in Nat : QueuedIn(uiTasks', Responds, id) => id <= nextQuery'
  BY <1>1, <1>4 DEF CallbackInv
<1>8. \A d \in callbacks : ~QueuedIn(uiTasks', CompletesWith(d.persistent), d.id)
  BY <1>1, <1>4, <1>6 DEF CallbackInv
<1>9. \A p \in pending : p.id <= nextQuery' BY <1>1, <1>5
<1> QED BY <1>1, <1>4, <1>7, <1>8, <1>9 DEF CallbackInv

\* Every step keeps the invariant.
LEMMA NextCallbacks == TypeOK /\ CallbackInv /\ [Next]_vars => CallbackInv'
<1> SUFFICES ASSUME TypeOK, CallbackInv, [Next]_vars PROVE CallbackInv' OBVIOUS
<1> USE DEF rendererVars, browserVars
<1>0. uiTasks \in Seq(CallbackTask \cup CancelTask) /\ SameResponses(uiTasks, uiTasks)
  BY OtherTask DEF TypeOK
<1>1. ASSUME UNCHANGED <<nextQuery, pending, callbacks, uiTasks>> PROVE CallbackInv'
  BY <1>0, <1>1, SameCallbacks
<1>2. ASSUME NEW S \in SUBSET pending, CancelQueries(S), UNCHANGED <<nextQuery, uiTasks>>
      PROVE  CallbackInv'
  BY <1>0, <1>2, CancelKeepsCallbacks
<1>3. \A bs, hs : Matching(bs, hs) \in SUBSET pending BY DEF Matching
<1>4. CASE Application
  <2>1. ASSUME NEW bs \in SUBSET Browsers, NEW hs \in SUBSET Handlers, PostCancelPending(bs, hs)
        PROVE  CallbackInv'
    <3> DEFINE t == [kind |-> "CancelPendingFor", browsers |-> bs, handlers |-> hs]
    <3>1. t \in CancelTask /\ t.kind \notin Responds BY DEF CancelTask, Responds
    <3>2. uiTasks' = Append(uiTasks, t) /\ UNCHANGED <<nextQuery, pending, callbacks>>
      BY <2>1 DEF PostCancelPending
    <3> QED BY <1>0, <3>1, <3>2, OtherTask, SameCallbacks
  <2>2. ASSUME NEW c \in callbacks, NEW kind \in {"Success", "Failure"}, CallOnUiThread(c, kind)
        PROVE  CallbackInv'
    <3>1. Posted(kind) \in Responds /\ c.calls + 1 \in Nat /\ "ui" \in Threads
      BY DEF Posted, Responds, TypeOK, CallbackImpl, Threads
    <3> QED BY <1>0, <2>2, <3>1, RespondKeepsCallbacks DEF CallOnUiThread
  <2>3. ASSUME NEW c \in callbacks, NEW kind \in {"Success", "Failure"}, CallOnOtherThread(c, kind)
        PROVE  CallbackInv'
    <3> DEFINE t == [kind |-> kind, id |-> c.id, call |-> c.calls + 1, thread |-> "other"]
               d == [c EXCEPT !.calls = @ + 1]
    <3>1. t \in CallbackTask /\ t.kind \notin Responds
      BY DEF CallbackTask, Responds, TypeOK, CallbackImpl, Threads
    <3>2. SameResponses(Append(uiTasks, t), uiTasks) BY <1>0, <3>1, OtherTask
    <3>3. /\ uiTasks' = Append(uiTasks, t) /\ UNCHANGED <<nextQuery, pending>>
          /\ callbacks' = (callbacks \ {c}) \cup {d}
      BY <2>3 DEF CallOnOtherThread
    <3>4. d.id = c.id /\ d.persistent = c.persistent /\ c \in CallbackImpl BY DEF TypeOK, CallbackImpl
    <3> HIDE DEF t, d
    <3>5. SameResponses(uiTasks', uiTasks) BY <3>2, <3>3
    <3>6. \A e \in callbacks' : \E f \in callbacks : f.id = e.id /\ f.persistent = e.persistent
      BY <3>3, <3>4
    <3>7. \A f \in callbacks : \E e \in callbacks' : f.id = e.id /\ f.persistent = e.persistent
      BY <3>3, <3>4
    <3>8. \A e, f \in callbacks' : e.id = f.id => e = f BY <3>3, <3>4 DEF CallbackInv
    <3>9. \A f \in callbacks : f.id \in Nat /\ f.persistent \in BOOLEAN BY DEF TypeOK, CallbackImpl
    <3>10. \A e \in callbacks' : ~QueuedIn(uiTasks', CompletesWith(e.persistent), e.id)
      <4>1. \A f \in callbacks : ~QueuedIn(uiTasks', CompletesWith(f.persistent), f.id)
        BY <3>5, <3>9 DEF CallbackInv, SameResponses
      <4> QED BY <3>6, <4>1
    <3>11. \A q \in pending : QueuedIn(uiTasks', CompletesWith(q.persistent), q.id)
                                \/ \E e \in callbacks' : e.id = q.id
      <4>1. \A q \in pending : q.id \in Nat /\ q.persistent \in BOOLEAN BY DEF TypeOK, QueryInfo
      <4> QED BY <3>5, <3>7, <4>1 DEF CallbackInv, SameResponses
    <3>12. \A id \in Nat : QueuedIn(uiTasks', Responds, id) => id <= nextQuery
      BY <3>5 DEF CallbackInv, SameResponses
    <3>13. \A e \in callbacks' : \E q \in pending : q.id = e.id /\ q.persistent = e.persistent
      BY <3>6 DEF CallbackInv
    <3> QED BY <3>3, <3>8, <3>10, <3>11, <3>12, <3>13 DEF CallbackInv
  <2>4. CASE \E h \in Handlers : AddHandler(h) \/ RemoveHandler(h)
    BY <1>1, <1>2, <1>3, <2>4 DEF AddHandler, RemoveHandler, CancelPendingFor
  <2>5. CASE \E bs \in BrowserSets, hs \in HandlerSets : CancelPending(bs, hs)
    BY <1>2, <1>3, <2>5 DEF CancelPending, CancelPendingFor
  <2>6. BrowserSets \subseteq SUBSET Browsers /\ HandlerSets \subseteq SUBSET Handlers
    BY DEF BrowserSets, HandlerSets
  <2> QED BY <1>4, <2>1, <2>2, <2>3, <2>4, <2>5, <2>6 DEF Application
<1>5. CASE RunUiTask
  <2> DEFINE t == Head(uiTasks)
  <2>1. uiTasks # <<>> /\ t \in CallbackTask \cup CancelTask
    BY <1>0, <1>5 DEF RunUiTask, RunPostedCall, OnCallbackSuccess, OnCallbackFailure, RunCancelPendingFor
  <2>2. Tail(uiTasks) \in Seq(CallbackTask \cup CancelTask) BY <1>0, <2>1
  <2>3. t.kind \notin Responds => SameResponses(Tail(uiTasks), uiTasks) BY <1>0, <2>1, OtherTask
  <2>4. CASE RunPostedCall
    <3>1. t.kind \in {"Success", "Failure"} /\ t.kind \notin Responds /\ t \in CallbackTask
      BY <2>1, <2>4 DEF RunPostedCall, Responds, CancelTask
    <3>2. Posted(t.kind) \in Responds /\ t.call \in Nat /\ t.thread \in Threads
      BY <3>1 DEF Posted, Responds, CallbackTask
    <3>3. UNCHANGED <<nextQuery, pending>> BY <2>4 DEF RunPostedCall
    <3>4. CASE \E c \in callbacks :
                 c.id = t.id /\ Respond(c, Posted(t.kind), t.call, t.thread, Tail(uiTasks))
      BY <2>2, <2>3, <3>1, <3>2, <3>3, <3>4, RespondKeepsCallbacks
    <3>5. CASE uiTasks' = Tail(uiTasks) /\ UNCHANGED callbacks
      BY <2>3, <3>1, <3>3, <3>5, SameCallbacks
    <3> QED BY <2>4, <3>4, <3>5 DEF RunPostedCall
  <2>5. CASE OnCallbackSuccess
    <3>1. /\ t.kind = "OnCallbackSuccess" /\ uiTasks' = Tail(uiTasks)
          /\ UNCHANGED <<nextQuery, callbacks>>
      BY <2>5 DEF OnCallbackSuccess
    <3>2. \A p : t.kind \in CompletesWith(p) <=> ~p BY <3>1 DEF CompletesWith
    <3>3. t.kind \in Responds BY <3>1 DEF Responds
    <3>4. pending' = {q \in pending : ~(q.id = t.id /\ t.kind \in CompletesWith(q.persistent))}
      <4>1. CASE UNCHANGED pending /\ \A q \in pending : q.id # t.id BY <4>1
      <4>2. ASSUME NEW q \in pending, q.id = t.id,
                   pending' = IF q.persistent THEN pending ELSE pending \ {q}
            PROVE  pending' = {p \in pending : ~(p.id = t.id /\ t.kind \in CompletesWith(p.persistent))}
        <5>1. \A p \in pending : p.id = t.id <=> p = q BY <4>2 DEF CallbackInv
        <5> HIDE DEF t
        <5> QED BY <3>2, <4>2, <5>1
      <4> QED BY <2>5, <4>1, <4>2 DEF OnCallbackSuccess
    <3> QED BY <2>1, <3>1, <3>3, <3>4, CompleteKeepsCallbacks
  <2>6. CASE OnCallbackFailure
    <3>1. /\ t.kind = "OnCallbackFailure" /\ uiTasks' = Tail(uiTasks)
          /\ UNCHANGED <<nextQuery, callbacks>>
      BY <2>6 DEF OnCallbackFailure
    <3>2. \A p : t.kind \in CompletesWith(p) BY <3>1 DEF CompletesWith
    <3>3. t.kind \in Responds BY <3>1 DEF Responds
    <3>4. pending' = {q \in pending : ~(q.id = t.id /\ t.kind \in CompletesWith(q.persistent))}
      <4>1. CASE UNCHANGED pending /\ \A q \in pending : q.id # t.id BY <4>1
      <4>2. ASSUME NEW q \in pending, q.id = t.id, pending' = pending \ {q}
            PROVE  pending' = {p \in pending : ~(p.id = t.id /\ t.kind \in CompletesWith(p.persistent))}
        <5>1. \A p \in pending : p.id = t.id <=> p = q BY <4>2 DEF CallbackInv
        <5> HIDE DEF t
        <5> QED BY <3>2, <4>2, <5>1
      <4> QED BY <2>6, <4>1, <4>2 DEF OnCallbackFailure
    <3> QED BY <2>1, <3>1, <3>3, <3>4, CompleteKeepsCallbacks
  <2>7. CASE RunCancelPendingFor
    <3>1. /\ t.kind \notin Responds /\ uiTasks' = Tail(uiTasks) /\ UNCHANGED nextQuery
          /\ CancelQueries(Matching(t.browsers, t.handlers))
      BY <2>7 DEF RunCancelPendingFor, CancelPendingFor, Responds
    <3> HIDE DEF t
    <3> QED BY <1>3, <2>3, <3>1, CancelKeepsCallbacks
  <2> QED BY <1>5, <2>4, <2>5, <2>6, <2>7 DEF RunUiTask
<1>6. ASSUME NEW b \in Browsers, QueryReceived(b) PROVE CallbackInv'
  <2>1. {"none", "OnCallbackSuccess", "OnCallbackFailure"} = {"none"} \cup Responds
    BY DEF Responds
  <2> QED BY <1>1, <1>6, <2>1, AcceptKeepsCallbacks, RefuseKeepsCallbacks
          DEF QueryReceived, QueryWithoutHandlers, OfferQuery
<1>7. ASSUME NEW b \in Browsers, CancelReceived(b) PROVE CallbackInv'
  <2>1. CanceledBy(b, Head(toBrowser[b])) \in SUBSET pending BY DEF CanceledBy
  <2> QED BY <1>2, <1>7, <2>1 DEF CancelReceived
<1>8. ASSUME NEW b \in Browsers, Navigation(b) PROVE CallbackInv'
  <2>1. CASE OnBeforeClose(b)
    <3>1. UNCHANGED <<nextQuery, uiTasks>> BY <2>1 DEF OnBeforeClose
    <3>2. UNCHANGED <<pending, callbacks>> \/ \E S \in SUBSET pending : CancelQueries(S)
      BY <1>3, <2>1 DEF OnBeforeClose, CloseInRouter, CloseInCefClient
    <3> QED BY <1>1, <1>2, <3>1, <3>2
  <2>2. CASE OnBeforeBrowse(b) \/ OnRenderProcessTerminated(b)
    BY <1>2, <1>3, <2>2 DEF OnBeforeBrowse, OnRenderProcessTerminated, CancelSilently
  <2>3. CASE NavigationAborted(b) \/ Crash(b) \/ Relaunch(b)
    BY <1>1, <2>3 DEF NavigationAborted, Crash, Relaunch
  <2> QED BY <1>8, <2>1, <2>2, <2>3 DEF Navigation
<1>9. ASSUME NEW b \in Browsers, Renderer(b) PROVE CallbackInv'
  BY <1>1, <1>9
     DEF Renderer, OnContextCreated, OnContextReleased, CefQuery, CefQueryCancel,
         ResponseReceived, ExecuteCallback
<1>10. CASE UNCHANGED vars BY <1>1, <1>10 DEF vars
<1> QED BY <1>4, <1>5, <1>6, <1>7, <1>8, <1>9, <1>10 DEF Next

\* There is no Callback and no task to begin with.
LEMMA InitCallbacks == Init => CallbackInv
BY DEF Init, CallbackInv, QueuedIn

\* The application can always complete a pending query: it holds a Callback that works, or the
\* task that completes the query is queued; and no Callback works for a query that is not
\* pending, since router_ is cleared by the last response and by CancelQuery.
THEOREM CallbacksAccounted == Spec => []CallbackAccounted
<1>1. Init => TypeOK /\ PendingFinite /\ CallbackInv BY InitType, InitCallbacks
<1>2. (TypeOK /\ PendingFinite /\ CallbackInv) /\ [Next]_vars
      => (TypeOK /\ PendingFinite /\ CallbackInv)'
  BY NextType, NextCallbacks
<1>3. CallbackInv => CallbackAccounted
  BY DEF CallbackInv, CallbackAccounted, Completing, QueuedIn, CompletesWith
<1> QED BY <1>1, <1>2, <1>3, PTL DEF Spec
=============================================================================
