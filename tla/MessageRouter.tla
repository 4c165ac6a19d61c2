--------------------------- MODULE MessageRouter ---------------------------
(***************************************************************************)
(* The CEF message router: JavaScript in a renderer process calls          *)
(* window.cefQuery, handlers in the browser process answer through a       *)
(* Callback, and the answer runs the query's JavaScript callback.          *)
(*   src/cef3/libcef_dll/wrapper/cef_message_router.cc                     *)
(*   src/cef3/libcef_dll/wrapper/cef_browser_info_map.h                    *)
(* One browser-side router serves every browser; each browser has its own  *)
(* renderer process with a renderer-side router. Process messages are      *)
(* FIFO in each direction. Everything on the browser side runs on the UI   *)
(* thread except Callback.Success/Failure and CancelPending, which any     *)
(* thread may call and which then post a task to the UI thread.            *)
(***************************************************************************)
EXTENDS Integers, Sequences, FiniteSets

CONSTANTS
  Browsers,             \* browser identifiers
  Frames, MainFrame,    \* the frames a page may have, and its main frame
  Handlers,             \* the handlers the application may register
  ForwardOnBeforeClose, \* does the client call OnBeforeClose when a browser closes?
  NavigationMayAbort,   \* may a navigation end without replacing the page?
  Persistence,          \* the kinds of query pages send, a subset of BOOLEAN
  MaxEpoch,             \* bound: renderer processes started for a browser
  MaxContexts,          \* bound: context ids of one renderer process
  MaxRequests,          \* bound: request ids of one renderer process
  MaxCalls,             \* bound: calls the application makes on one Callback
  MaxTasks              \* bound: queued UI tasks when an application thread posts

ASSUME ConstantsAssumption ==
  /\ MainFrame \in Frames
  /\ Persistence \subseteq BOOLEAN
  /\ ForwardOnBeforeClose \in BOOLEAN /\ NavigationMayAbort \in BOOLEAN
  /\ {MaxEpoch, MaxContexts, MaxRequests, MaxCalls, MaxTasks} \subseteq Nat
  /\ MaxEpoch > 0

kReservedId == 0
NoContext == -1         \* the frame has no V8 context at the moment
Threads == {"ui", "other"}
Process == {"up", "crashed", "terminated", "closed"}

VARIABLES
  \* Browser process.
  handlers,     \* handler_set_
  offered,      \* the copy of handler_set_ that a browser's query is being offered to; {} if none
  nextQuery,    \* query_id_generator_
  pending,      \* browser_query_info_map_: the QueryInfo entries
  callbacks,    \* the CallbackImpl objects whose router_ is still set
  uiTasks,      \* tasks posted to TID_UI
  navigating,   \* main-frame navigations between OnBeforeBrowse and the new page
  app,          \* history: what became of each query, as the application sees it
  \* Renderer processes.
  process, epoch, \* state of the renderer, and how many were started before it
  context,      \* V8HandlerImpl.context_id_ of each frame's context; context_map_
  nextContext, nextRequest, \* context_id_generator_, request_id_generator_
  requests,     \* browser_request_info_map_: the RequestInfo entries
  renderTasks,  \* tasks posted to TID_RENDERER
  page,         \* history: what became of each query, as the page's JavaScript sees it
  \* Process messages.
  toBrowser, toRenderer

browserVars == <<handlers, offered, nextQuery, pending, callbacks, uiTasks, navigating, app>>
rendererVars ==
  <<process, epoch, context, nextContext, nextRequest, requests, renderTasks, page>>
vars == <<browserVars, rendererVars, toBrowser, toRenderer>>

(***************************************************************************)
(* Data. The epoch of a query and of a response, the number of the         *)
(* application's call and its thread are not in the program: they identify *)
(* for the properties which query a response answers and which call made   *)
(* it.                                                                     *)
(***************************************************************************)
QueryMsg == [type: {"query"}, ctx: Nat, req: Nat, persistent: BOOLEAN]
CancelMsg == [type: {"cancel"}, ctx: Nat, req: Nat]
Response == [ok: BOOLEAN, ctx: Nat, req: Nat, epoch: Nat, call: Nat, thread: Threads]
RequestInfo == [ctx: Nat, req: Nat, persistent: BOOLEAN]
QueryInfo == [id: Nat, browser: Browsers, epoch: Nat, ctx: Nat, req: Nat,
              persistent: BOOLEAN, handler: Handlers]
CallbackImpl == [id: Nat, persistent: BOOLEAN, calls: Nat]
CallbackTask == [kind: {"Success", "Failure", "OnCallbackSuccess", "OnCallbackFailure"},
                 id: Nat, call: Nat, thread: Threads]
CancelTask == [kind: {"CancelPendingFor"}, browsers: SUBSET Browsers, handlers: SUBSET Handlers]

\* A query's identity for the history: its browser, renderer process and request id.
Uid == Browsers \X (1..MaxEpoch) \X (1..MaxRequests)
UidOf(q) == <<q.browser, q.epoch, q.req>>
AppStates == {"unseen", "open", "streaming", "answered", "failed", "canceled", "refused"}
PageStates == {"idle", "once", "many", "succeeded", "failed", "withdrawn"}
Record(us, s) == app' = [u \in Uid |-> IF u \in us THEN s ELSE app[u]]
RecordPage(us, s) == page' = [u \in Uid |-> IF u \in us THEN s ELSE page[u]]

TypeOK ==
  /\ handlers \subseteq Handlers /\ offered \in [Browsers -> SUBSET Handlers]
  /\ nextQuery \in Nat
  /\ pending \subseteq QueryInfo
  /\ callbacks \subseteq CallbackImpl
  /\ uiTasks \in Seq(CallbackTask \cup CancelTask)
  /\ navigating \in [Browsers -> BOOLEAN]
  /\ app \in [Uid -> AppStates] /\ page \in [Uid -> PageStates]
  /\ process \in [Browsers -> Process]
  /\ epoch \in [Browsers -> 1..MaxEpoch]
  /\ context \in [Browsers -> [Frames -> Nat \cup {NoContext}]]
  /\ nextContext \in [Browsers -> Nat]
  /\ nextRequest \in [Browsers -> 0..MaxRequests]
  /\ requests \in [Browsers -> SUBSET RequestInfo]
  /\ renderTasks \in [Browsers -> Seq(Response)]
  /\ toBrowser \in [Browsers -> Seq(QueryMsg \cup CancelMsg)]
  /\ toRenderer \in [Browsers -> Seq(Response)]

Init ==
  /\ handlers = {} /\ offered = [b \in Browsers |-> {}] /\ nextQuery = kReservedId
  /\ pending = {} /\ callbacks = {} /\ uiTasks = <<>>
  /\ navigating = [b \in Browsers |-> FALSE]
  /\ app = [u \in Uid |-> "unseen"] /\ page = [u \in Uid |-> "idle"]
  /\ process = [b \in Browsers |-> "up"] /\ epoch = [b \in Browsers |-> 1]
  /\ context = [b \in Browsers |-> [f \in Frames |-> NoContext]]
  /\ nextContext = [b \in Browsers |-> kReservedId]
  /\ nextRequest = [b \in Browsers |-> kReservedId]
  /\ requests = [b \in Browsers |-> {}]
  /\ renderTasks = [b \in Browsers |-> <<>>]
  /\ toBrowser = [b \in Browsers |-> <<>>]
  /\ toRenderer = [b \in Browsers |-> <<>>]
-----------------------------------------------------------------------------
(***************************************************************************)
(* Helpers of the browser side.                                            *)
(***************************************************************************)
\* SendProcessMessage(PID_RENDERER, ...): nobody receives it once the renderer is gone.
SendToRenderer(b, messages) ==
  toRenderer' = [toRenderer EXCEPT ![b] = IF process[b] = "up" THEN @ \o messages ELSE @]

Success(q, task) == [ok |-> TRUE, ctx |-> q.ctx, req |-> q.req, epoch |-> q.epoch,
                     call |-> task.call, thread |-> task.thread]
Failure(q) == [ok |-> FALSE, ctx |-> q.ctx, req |-> q.req, epoch |-> q.epoch,
               call |-> 0, thread |-> "ui"]

\* The queries of S in the order of browser_query_info_map_, which is that of their ids.
InMapOrder(order, S) ==
  /\ S = {order[i] : i \in DOMAIN order}
  /\ \A i, j \in DOMAIN order : i < j => order[i].id < order[j].id
Orders(S) == UNION {[1..n -> S] : n \in 0..Cardinality(S)}

\* The entries CancelPendingFor visits; bs and hs are everything when NULL is passed.
Matching(bs, hs) == {q \in pending : q.browser \in bs /\ q.handler \in hs}

\* Mutant: the canceled queries' Callbacks are not detached.
CancelWithoutDetach(S) ==
  pending' = pending \ S /\ UNCHANGED callbacks /\ Record({UidOf(q) : q \in S}, "canceled")
\* CancelQuery on every query of S, each leaving the map: OnQueryCanceled, then Detach.
CancelQueries(S) ==
  /\ pending' = pending \ S
  /\ callbacks' = {c \in callbacks : \A q \in S : q.id # c.id}
  /\ Record({UidOf(q) : q \in S}, "canceled")

\* ... with notify_renderer = true: a failure for each, in the order visited.
NotifyRenderers(S) ==
  \E order \in [Browsers -> Orders(S)] :
    /\ \A b \in Browsers : InMapOrder(order[b], {q \in S : q.browser = b})
    /\ toRenderer' = [b \in Browsers |->
         IF process[b] = "up"
         THEN toRenderer[b] \o [i \in DOMAIN order[b] |-> Failure(order[b][i])]
         ELSE toRenderer[b]]

CancelPendingFor(bs, hs) ==
  CancelQueries(Matching(bs, hs)) /\ NotifyRenderers(Matching(bs, hs))

\* Mutant: the queries of a renderer that ended or navigates are forgotten about.
CancelNothing(b) == UNCHANGED <<pending, callbacks, app, toRenderer>>
\* ... with notify_renderer = false: nothing is sent.
CancelSilently(b) == CancelQueries(Matching({b}, Handlers)) /\ UNCHANGED toRenderer
-----------------------------------------------------------------------------
(***************************************************************************)
(* The application's calls on the browser-side router.                     *)
(***************************************************************************)
AddHandler(h) ==
  /\ h \notin handlers
  /\ handlers' = handlers \cup {h}
  /\ UNCHANGED <<offered, nextQuery, pending, callbacks, uiTasks, navigating, app,
                 rendererVars, toBrowser, toRenderer>>

RemoveHandler(h) ==
  /\ h \in handlers
  /\ handlers' = handlers \ {h}
  /\ CancelPendingFor(Browsers, {h})
  /\ UNCHANGED <<offered, nextQuery, uiTasks, navigating, rendererVars, toBrowser>>

\* CancelPending on the UI thread; a NULL browser or handler stands for all of them.
CancelPending(bs, hs) ==
  /\ Matching(bs, hs) # {}
  /\ CancelPendingFor(bs, hs)
  /\ UNCHANGED <<handlers, offered, nextQuery, uiTasks, navigating, rendererVars, toBrowser>>

\* CancelPending on any other thread only posts itself.
PostCancelPending(bs, hs) ==
  /\ Len(uiTasks) < MaxTasks
  /\ uiTasks' = Append(uiTasks, [kind |-> "CancelPendingFor", browsers |-> bs, handlers |-> hs])
  /\ UNCHANGED <<handlers, offered, nextQuery, pending, callbacks, navigating, app,
                 rendererVars, toBrowser, toRenderer>>

\* Callback.Success and Failure on the UI thread, router_ set: post the response and, unless
\* it is a Success of a persistent query, clear router_. base is the queue it is posted to.
Respond(c, kind, call, thread, base) ==
  /\ uiTasks' = Append(base, [kind |-> kind, id |-> c.id, call |-> call, thread |-> thread])
  /\ callbacks' = IF kind = "OnCallbackSuccess" /\ c.persistent
                  THEN (callbacks \ {c}) \cup {[c EXCEPT !.calls = IF call > @ THEN call ELSE @]}
                  ELSE callbacks \ {c}

Posted(kind) == IF kind = "Success" THEN "OnCallbackSuccess" ELSE "OnCallbackFailure"

CallOnUiThread(c, kind) ==
  /\ c.calls < MaxCalls
  /\ Respond(c, Posted(kind), c.calls + 1, "ui", uiTasks)
  /\ UNCHANGED <<handlers, offered, nextQuery, pending, navigating, app,
                 rendererVars, toBrowser, toRenderer>>

\* The same calls on any other thread post themselves to the UI thread.
CallOnOtherThread(c, kind) ==
  /\ c.calls < MaxCalls /\ Len(uiTasks) < MaxTasks
  /\ uiTasks' = Append(uiTasks, [kind |-> kind, id |-> c.id, call |-> c.calls + 1,
                                 thread |-> "other"])
  /\ callbacks' = (callbacks \ {c}) \cup {[c EXCEPT !.calls = @ + 1]}
  /\ UNCHANGED <<handlers, offered, nextQuery, pending, navigating, app,
                 rendererVars, toBrowser, toRenderer>>
-----------------------------------------------------------------------------
(***************************************************************************)
(* Tasks of the UI thread, in the order they were posted. While handlers   *)
(* are offered a query the thread does nothing but what they do.           *)
(***************************************************************************)
UiThreadIdle == \A b \in Browsers : offered[b] = {}

RunPostedCall ==
  LET t == Head(uiTasks) IN
  /\ uiTasks # <<>> /\ t.kind \in {"Success", "Failure"}
  /\ \/ \E c \in callbacks :
          /\ c.id = t.id
          /\ Respond(c, Posted(t.kind), t.call, t.thread, Tail(uiTasks))
     \/ /\ \A c \in callbacks : c.id # t.id
        /\ uiTasks' = Tail(uiTasks)
        /\ UNCHANGED callbacks
  /\ UNCHANGED <<handlers, offered, nextQuery, pending, navigating, app,
                 rendererVars, toBrowser, toRenderer>>

\* GetQueryInfo(always_remove = false), then SendQuerySuccess; a canceled query has no entry.
OnCallbackSuccess ==
  LET t == Head(uiTasks) IN
  /\ uiTasks # <<>> /\ t.kind = "OnCallbackSuccess"
  /\ uiTasks' = Tail(uiTasks)
  /\ \/ \E q \in pending :
          /\ q.id = t.id
          /\ pending' = IF q.persistent THEN pending ELSE pending \ {q}
          /\ SendToRenderer(q.browser, <<Success(q, t)>>)
          /\ Record({UidOf(q)}, IF q.persistent THEN "streaming" ELSE "answered")
     \/ /\ \A q \in pending : q.id # t.id
        /\ UNCHANGED <<pending, toRenderer, app>>
  /\ UNCHANGED <<handlers, offered, nextQuery, callbacks, navigating, rendererVars, toBrowser>>

\* GetQueryInfo(always_remove = true), then SendQueryFailure.
OnCallbackFailure ==
  LET t == Head(uiTasks) IN
  /\ uiTasks # <<>> /\ t.kind = "OnCallbackFailure"
  /\ uiTasks' = Tail(uiTasks)
  /\ \/ \E q \in pending :
          /\ q.id = t.id
          /\ pending' = pending \ {q}
          /\ SendToRenderer(q.browser, <<Failure(q)>>)
          /\ Record({UidOf(q)}, "failed")
     \/ /\ \A q \in pending : q.id # t.id
        /\ UNCHANGED <<pending, toRenderer, app>>
  /\ UNCHANGED <<handlers, offered, nextQuery, callbacks, navigating, rendererVars, toBrowser>>

RunCancelPendingFor ==
  LET t == Head(uiTasks) IN
  /\ uiTasks # <<>> /\ t.kind = "CancelPendingFor"
  /\ uiTasks' = Tail(uiTasks)
  /\ CancelPendingFor(t.browsers, t.handlers)
  /\ UNCHANGED <<handlers, offered, nextQuery, navigating, rendererVars, toBrowser>>

RunUiTask ==
  /\ UiThreadIdle
  /\ RunPostedCall \/ OnCallbackSuccess \/ OnCallbackFailure \/ RunCancelPendingFor
-----------------------------------------------------------------------------
(***************************************************************************)
(* Process messages and notifications that CEF delivers on the UI thread.  *)
(***************************************************************************)
\* A message is read from b's pipe; what a crashed renderer had written is still read.
Receive(b, type) ==
  /\ process[b] \in {"up", "crashed"}
  /\ toBrowser[b] # <<>> /\ Head(toBrowser[b]).type = type
  /\ toBrowser' = [toBrowser EXCEPT ![b] = Tail(@)]

NewQuery(b, h) ==
  LET m == Head(toBrowser[b]) IN
  [id |-> nextQuery + 1, browser |-> b, epoch |-> epoch[b], ctx |-> m.ctx, req |-> m.req,
   persistent |-> m.persistent, handler |-> h]

\* Mutant: the page is not told that nobody handled its query.
CancelUnhandledQuerySilently(b, m) ==
  Record({<<b, epoch[b], m.req>>}, "refused") /\ UNCHANGED toRenderer
CancelUnhandledQuery(b, m) ==
  /\ SendToRenderer(b, <<Failure([ctx |-> m.ctx, req |-> m.req, epoch |-> epoch[b]])>>)
  /\ Record({<<b, epoch[b], m.req>>}, "refused")

\* No handler is registered.
QueryWithoutHandlers(b) ==
  /\ UiThreadIdle /\ Receive(b, "query")
  /\ handlers = {}
  /\ CancelUnhandledQuery(b, Head(toBrowser[b]))
  /\ UNCHANGED <<handlers, offered, nextQuery, pending, callbacks, uiTasks, navigating,
                 rendererVars>>

\* The set of handlers is copied, and those of the copy are asked until one of them takes the
\* query; the application's calls on the router from inside OnQuery are steps between this one
\* and the next two. The query stays at the head of its pipe until then.
OfferQuery(b) ==
  /\ UiThreadIdle /\ process[b] \in {"up", "crashed"}
  /\ toBrowser[b] # <<>> /\ Head(toBrowser[b]).type = "query"
  /\ handlers # {}
  /\ offered' = [offered EXCEPT ![b] = handlers]
  /\ UNCHANGED <<handlers, nextQuery, pending, callbacks, uiTasks, navigating, app,
                 rendererVars, toBrowser, toRenderer>>

\* OnQuery of h, a handler of the copy, returns true; the handler may already have executed the
\* Callback, whose response is a task, so it finds the entry that is added after OnQuery returns.
QueryHandled(b, h, called) ==
  LET q == NewQuery(b, h)
      c == [id |-> q.id, persistent |-> q.persistent, calls |-> 0]
      task == [kind |-> called, id |-> q.id, call |-> 1, thread |-> "ui"]
  IN
  /\ Receive(b, "query")
  /\ h \in offered[b] /\ offered' = [offered EXCEPT ![b] = {}]
  /\ nextQuery' = q.id
  /\ pending' = pending \cup {q}
  /\ \/ called = "none" /\ callbacks' = callbacks \cup {c} /\ UNCHANGED uiTasks
     \/ /\ called # "none"
        /\ uiTasks' = Append(uiTasks, task)
        /\ callbacks' = IF called = "OnCallbackSuccess" /\ c.persistent
                        THEN callbacks \cup {[c EXCEPT !.calls = 1]}
                        ELSE callbacks
  /\ Record({UidOf(q)}, "open")
  /\ UNCHANGED <<handlers, navigating, rendererVars, toRenderer>>

\* Every handler of the copy returns false, though one may have executed the Callback: Detach
\* and CancelUnhandledQuery. What was posted finds no entry.
QueryUnhandled(b, called) ==
  LET task == [kind |-> called, id |-> nextQuery + 1, call |-> 1, thread |-> "ui"]
  IN
  /\ Receive(b, "query")
  /\ offered[b] # {} /\ offered' = [offered EXCEPT ![b] = {}]
  /\ nextQuery' = nextQuery + 1
  /\ uiTasks' = IF called = "none" THEN uiTasks ELSE Append(uiTasks, task)
  /\ CancelUnhandledQuery(b, Head(toBrowser[b]))
  /\ UNCHANGED <<handlers, pending, callbacks, navigating, rendererVars>>

\* Mutants: kReservedId is taken for the id of one query; the context is not compared.
CanceledByOneId(b, m) == {q \in pending : q.browser = b /\ q.ctx = m.ctx /\ q.req = m.req}
CanceledInAnyContext(b, m) == {q \in pending : q.browser = b /\ m.req \in {kReservedId, q.req}}
\* CancelPendingRequest: one query, or the whole context when req is kReservedId.
CanceledBy(b, m) ==
  {q \in pending : q.browser = b /\ q.ctx = m.ctx /\ m.req \in {kReservedId, q.req}}
CancelReceived(b) ==
  /\ UiThreadIdle /\ Receive(b, "cancel")
  /\ CancelQueries(CanceledBy(b, Head(toBrowser[b])))
  /\ UNCHANGED <<handlers, offered, nextQuery, uiTasks, navigating, rendererVars, toRenderer>>

\* OnBeforeBrowse of the main frame: the page, and so its contexts, are about to go.
OnBeforeBrowse(b) ==
  /\ UiThreadIdle /\ process[b] # "closed"
  /\ navigating' = [navigating EXCEPT ![b] = TRUE]
  /\ CancelSilently(b)
  /\ UNCHANGED <<handlers, offered, nextQuery, uiTasks, rendererVars, toBrowser>>

\* The navigation ends without a new page (a download, an empty response, Stop).
NavigationAborted(b) ==
  /\ NavigationMayAbort /\ UiThreadIdle /\ navigating[b]
  /\ navigating' = [navigating EXCEPT ![b] = FALSE]
  /\ UNCHANGED <<handlers, offered, nextQuery, pending, callbacks, uiTasks, app,
                 rendererVars, toBrowser, toRenderer>>

\* What the renderer process of b owned is lost with it.
ResetRenderer(b) ==
  /\ context' = [context EXCEPT ![b] = [f \in Frames |-> NoContext]]
  /\ nextContext' = [nextContext EXCEPT ![b] = kReservedId]
  /\ nextRequest' = [nextRequest EXCEPT ![b] = kReservedId]
  /\ requests' = [requests EXCEPT ![b] = {}]
  /\ RecordPage({<<b, epoch[b], i.req>> : i \in requests[b]}, "withdrawn")
  /\ renderTasks' = [renderTasks EXCEPT ![b] = <<>>]
  /\ toRenderer' = [toRenderer EXCEPT ![b] = <<>>]

\* The crash is reported after the messages that had reached the pipe.
OnRenderProcessTerminated(b) ==
  /\ UiThreadIdle /\ process[b] = "crashed" /\ toBrowser[b] = <<>>
  /\ process' = [process EXCEPT ![b] = "terminated"]
  /\ navigating' = [navigating EXCEPT ![b] = FALSE]
  /\ CancelSilently(b)
  /\ UNCHANGED <<handlers, offered, nextQuery, uiTasks, epoch, context, nextContext, nextRequest,
                 requests, renderTasks, page, toBrowser>>

\* cefclient's ClientHandler::OnBeforeClose does not tell the router; with the last browser it
\* removes every handler, which cancels the queries of each, and drops the router.
CloseInCefClient(b) ==
  IF \E other \in Browsers \ {b} : process[other] # "closed"
  THEN UNCHANGED <<handlers, pending, callbacks, app>>
  ELSE handlers' = {} /\ CancelQueries(Matching(Browsers, handlers))

\* The documentation asks the client to forward OnBeforeClose to the router.
CloseInRouter(b) ==
  IF ForwardOnBeforeClose
  THEN CancelQueries(Matching({b}, Handlers)) /\ UNCHANGED handlers
  ELSE CloseInCefClient(b)

\* The browser is destroyed.
OnBeforeClose(b) ==
  /\ UiThreadIdle /\ process[b] # "closed"
  /\ process' = [process EXCEPT ![b] = "closed"]
  /\ navigating' = [navigating EXCEPT ![b] = FALSE]
  /\ toBrowser' = [toBrowser EXCEPT ![b] = <<>>]
  /\ CloseInRouter(b)
  /\ ResetRenderer(b)
  /\ UNCHANGED <<offered, nextQuery, uiTasks, epoch>>
-----------------------------------------------------------------------------
(***************************************************************************)
(* The renderer process.                                                   *)
(***************************************************************************)
\* The process dies; of what it sent, only a prefix reached the pipe, and a query that handlers
\* are being asked about had reached it.
Crash(b) ==
  /\ process[b] = "up"
  /\ process' = [process EXCEPT ![b] = "crashed"]
  /\ \E n \in 0..Len(toBrowser[b]) :
       /\ offered[b] # {} => n > 0
       /\ toBrowser' = [toBrowser EXCEPT ![b] = SubSeq(@, 1, n)]
  /\ ResetRenderer(b)
  /\ UNCHANGED <<browserVars, epoch>>

\* A new process for the browser: its routers start again from the first ids.
Relaunch(b) ==
  /\ process[b] = "terminated" /\ epoch[b] < MaxEpoch
  /\ process' = [process EXCEPT ![b] = "up"]
  /\ epoch' = [epoch EXCEPT ![b] = @ + 1]
  /\ UNCHANGED <<browserVars, context, nextContext, nextRequest, requests, renderTasks, page,
                 toBrowser, toRenderer>>

\* OnContextCreated: the functions are bound; the context gets no id yet.
OnContextCreated(b, f) ==
  /\ process[b] = "up" /\ context[b][f] = NoContext
  /\ f = MainFrame \/ context[b][MainFrame] # NoContext
  /\ context' = [context EXCEPT ![b][f] = kReservedId]
  /\ navigating' = [navigating EXCEPT ![b] = @ /\ f # MainFrame]
  /\ UNCHANGED <<handlers, offered, nextQuery, pending, callbacks, uiTasks, app, process, epoch,
                 nextContext, nextRequest, requests, renderTasks, page, toBrowser, toRenderer>>

\* GetIDForContext: the context gets its id when a bound function is first executed in it.
ContextId(b, f) == IF context[b][f] = kReservedId THEN nextContext[b] + 1 ELSE context[b][f]
\* Mutant: the context may have been released already.
UseAnyContext(b, f) ==
  /\ process[b] = "up" /\ ContextId(b, f) <= MaxContexts
  /\ context' = [context EXCEPT ![b][f] = ContextId(b, f)]
  /\ UNCHANGED nextContext
UseContext(b, f) ==
  /\ process[b] = "up" /\ context[b][f] # NoContext
  /\ ContextId(b, f) <= MaxContexts
  /\ context' = [context EXCEPT ![b][f] = ContextId(b, f)]
  /\ nextContext' = [nextContext EXCEPT ![b] = IF ContextId(b, f) > @ THEN ContextId(b, f) ELSE @]

\* window.cefQuery(...): SendQuery.
CefQuery(b, f, persistent) ==
  LET c == ContextId(b, f)
      r == nextRequest[b] + 1
  IN
  /\ UseContext(b, f)
  /\ r <= MaxRequests
  /\ nextRequest' = [nextRequest EXCEPT ![b] = r]
  /\ requests' = [requests EXCEPT ![b] = @ \cup {[ctx |-> c, req |-> r, persistent |-> persistent]}]
  /\ toBrowser' = [toBrowser EXCEPT ![b] =
       Append(@, [type |-> "query", ctx |-> c, req |-> r, persistent |-> persistent])]
  /\ RecordPage({<<b, epoch[b], r>>}, IF persistent THEN "many" ELSE "once")
  /\ UNCHANGED <<browserVars, process, epoch, renderTasks, toRenderer>>

\* Mutant: kReservedId is taken for the id of one request.
AbandonedByOneId(b, c, r) == {i \in requests[b] : i.ctx = c /\ i.req = r}
\* The requests a cancellation is for: one, or those of the whole context.
Abandoned(b, c, r) == {i \in requests[b] : i.ctx = c /\ r \in {kReservedId, i.req}}

\* SendCancel: forget the requests and tell the browser, if there were any.
SendCancel(b, c, r) ==
  LET found == Abandoned(b, c, r) IN
  /\ requests' = [requests EXCEPT ![b] = @ \ found]
  /\ RecordPage({<<b, epoch[b], i.req>> : i \in found}, "withdrawn")
  /\ toBrowser' = IF found = {} THEN toBrowser
                  ELSE [toBrowser EXCEPT ![b] = Append(@, [type |-> "cancel", ctx |-> c, req |-> r])]

\* window.cefQueryCancel(r), r any integer the page passes.
CefQueryCancel(b, f, r) ==
  /\ r # kReservedId
  /\ UseContext(b, f)
  /\ SendCancel(b, ContextId(b, f), r)
  /\ UNCHANGED <<browserVars, process, epoch, nextRequest, renderTasks, toRenderer>>

\* OnContextReleased; a page's subframes go before its main frame.
OnContextReleased(b, f) ==
  /\ process[b] = "up" /\ context[b][f] # NoContext
  /\ f = MainFrame => \A g \in Frames \ {f} : context[b][g] = NoContext
  /\ context' = [context EXCEPT ![b][f] = NoContext]
  /\ IF context[b][f] = kReservedId THEN UNCHANGED <<requests, page, toBrowser>>
     ELSE SendCancel(b, context[b][f], kReservedId)
  /\ UNCHANGED <<browserVars, process, epoch, nextContext, nextRequest, renderTasks, toRenderer>>

\* OnProcessMessageReceived posts Execute*Callback to the renderer's main thread.
\* Mutant: the newest task runs first.
ResponseOvertakes(b) ==
  /\ toRenderer[b] # <<>>
  /\ toRenderer' = [toRenderer EXCEPT ![b] = Tail(@)]
  /\ renderTasks' = [renderTasks EXCEPT ![b] = <<Head(toRenderer[b])>> \o @]
  /\ UNCHANGED <<browserVars, process, epoch, context, nextContext, nextRequest, requests,
                 page, toBrowser>>
ResponseReceived(b) ==
  /\ toRenderer[b] # <<>>
  /\ toRenderer' = [toRenderer EXCEPT ![b] = Tail(@)]
  /\ renderTasks' = [renderTasks EXCEPT ![b] = Append(@, Head(toRenderer[b]))]
  /\ UNCHANGED <<browserVars, process, epoch, context, nextContext, nextRequest, requests,
                 page, toBrowser>>

\* Mutant: always_remove for a success too, so that a persistent request ends with it.
AnsweredAlways(b, t) == {i \in requests[b] : i.ctx = t.ctx /\ i.req = t.req}
\* GetRequestInfo: the entry a response ends, unless it is a success of a persistent request.
Answered(b, t) ==
  {i \in requests[b] : i.ctx = t.ctx /\ i.req = t.req /\ ~(t.ok /\ i.persistent)}

\* ExecuteSuccessCallback, ExecuteFailureCallback: the JavaScript callback if the context lives.
\* What that JavaScript then does is a further step: the entry is already updated.
ExecuteCallback(b) ==
  LET t == Head(renderTasks[b])
      found == Answered(b, t)
      seen == IF \A f \in Frames : context[b][f] # t.ctx THEN "withdrawn"
              ELSE IF t.ok THEN "succeeded" ELSE "failed"
  IN
  /\ renderTasks[b] # <<>>
  /\ renderTasks' = [renderTasks EXCEPT ![b] = Tail(@)]
  /\ requests' = [requests EXCEPT ![b] = @ \ found]
  /\ RecordPage({<<b, epoch[b], i.req>> : i \in found}, seen)
  /\ UNCHANGED <<browserVars, process, epoch, context, nextContext, nextRequest,
                 toBrowser, toRenderer>>
-----------------------------------------------------------------------------
BrowserSets == {{b} : b \in Browsers} \cup {Browsers}
HandlerSets == {{h} : h \in Handlers} \cup {Handlers}

QueryReceived(b) ==
  \/ QueryWithoutHandlers(b) \/ OfferQuery(b)
  \/ \E called \in {"none", "OnCallbackSuccess", "OnCallbackFailure"} :
       \/ QueryUnhandled(b, called)
       \/ \E h \in Handlers : QueryHandled(b, h, called)

Application ==
  \/ \E h \in Handlers : AddHandler(h) \/ RemoveHandler(h)
  \/ \E bs \in BrowserSets, hs \in HandlerSets : CancelPending(bs, hs) \/ PostCancelPending(bs, hs)
  \/ \E c \in callbacks, kind \in {"Success", "Failure"} :
       CallOnUiThread(c, kind) \/ CallOnOtherThread(c, kind)

Navigation(b) ==
  \/ OnBeforeBrowse(b)
  \/ NavigationAborted(b)
  \/ OnBeforeClose(b)
  \/ Crash(b)
  \/ OnRenderProcessTerminated(b)
  \/ Relaunch(b)

Renderer(b) ==
  \/ \E f \in Frames :
       \/ OnContextCreated(b, f)
       \/ OnContextReleased(b, f)
       \/ \E persistent \in Persistence : CefQuery(b, f, persistent)
       \/ \E r \in 1..MaxRequests : CefQueryCancel(b, f, r)
  \/ ResponseReceived(b)
  \/ ExecuteCallback(b)

Next ==
  \/ Application
  \/ RunUiTask
  \/ \E b \in Browsers : QueryReceived(b) \/ CancelReceived(b) \/ Navigation(b) \/ Renderer(b)

Spec == Init /\ [][Next]_vars
-----------------------------------------------------------------------------
(***************************************************************************)
(* What the router promises.                                               *)
(***************************************************************************)
Arriving(b) == renderTasks[b] \o toRenderer[b]

\* A response on its way to a renderer answers a query of that very process. Ids start again
\* in every process, so a response that outlived the process that asked would run the callback
\* of another query (OnRenderProcessTerminated cancels what the dead process left).
NoStaleResponse ==
  \A b \in Browsers : \A i \in DOMAIN Arriving(b) : Arriving(b)[i].epoch = epoch[b]

\* A query pending at the browser can still be completed: the application holds a Callback that
\* works, or the task that will complete the query is queued; and no Callback works for a query
\* that is not pending (router_ is cleared by the last response, by Detach and nothing else).
Completing(q) ==
  \E i \in DOMAIN uiTasks :
    /\ uiTasks[i].kind \in {"OnCallbackFailure"} \cup (IF q.persistent THEN {} ELSE {"OnCallbackSuccess"})
    /\ uiTasks[i].id = q.id
CallbackAccounted ==
  /\ \A q \in pending : Completing(q) \/ \E c \in callbacks : c.id = q.id
  /\ \A c \in callbacks : \E q \in pending : q.id = c.id /\ q.persistent = c.persistent

\* The browser keeps no query the page gave up: a pending query of a live renderer still has its
\* request there, or the message that cancels it is on its way.
PendingHasRequest ==
  \A q \in pending : process[q.browser] = "up" =>
    \/ \E i \in requests[q.browser] : i.ctx = q.ctx /\ i.req = q.req
    \/ \E k \in DOMAIN toBrowser[q.browser] :
         LET m == toBrowser[q.browser][k] IN
         m.type = "cancel" /\ m.ctx = q.ctx /\ m.req \in {kReservedId, q.req}

\* No query is lost: a registered request is on its way to the browser, pending there, or its
\* last response is on its way back; only a navigation that replaces the page may drop it.
Tracked(b, i) ==
  \/ \E k \in DOMAIN toBrowser[b] : toBrowser[b][k].type = "query" /\ toBrowser[b][k].req = i.req
  \/ \E q \in pending : UidOf(q) = <<b, epoch[b], i.req>>
  \/ \E k \in DOMAIN Arriving(b) :
       Arriving(b)[k].req = i.req /\ (Arriving(b)[k].ok => ~i.persistent)
RequestTracked ==
  \A b \in Browsers : \A i \in requests[b] : navigating[b] \/ Tracked(b, i)

\* A request's context is alive, so its JavaScript callback can be run.
RequestContextLive ==
  \A b \in Browsers : \A i \in requests[b] : \E f \in Frames : context[b][f] = i.ctx

\* Of the calls of thread t on q's Callback: the places, in a queue, of those whose response is
\* on its way to the page, and of those whose task of this kind waits on the UI thread.
Responding(q, t) ==
  {k \in DOMAIN Arriving(q.browser) :
     LET m == Arriving(q.browser)[k] IN m.ok /\ m.req = q.req /\ m.thread = t}
Waiting(kind, q, t) ==
  {k \in DOMAIN uiTasks :
     LET m == uiTasks[k] IN m.kind = kind /\ m.id = q.id /\ m.thread = t}
\* Each of these calls: its place and its number among the calls of the Callback.
Calls(queue, places) == {<<k, queue[k].call>> : k \in places}
Rising(P) == \A x, y \in P : x[1] < y[1] => x[2] < y[2]
Before(P, Q) == \A x \in P, y \in Q : x[2] < y[2]

\* The calls one thread makes on a persistent query's Callback reach the page in the order they
\* were made, through the UI task queue, the process messages and the renderer's task queue.
CallsInOrder ==
  \A q \in pending, t \in Threads :
    LET arriving == Calls(Arriving(q.browser), Responding(q, t))
        queued == Calls(uiTasks, Waiting("OnCallbackSuccess", q, t))
        posted == Calls(uiTasks, Waiting("Success", q, t))
    IN /\ Rising(arriving) /\ Rising(queued) /\ Rising(posted)
       /\ Before(arriving, queued) /\ Before(arriving, posted) /\ Before(queued, posted)

\* The router implements the contract of cef_message_router.h between pages and the application
\* (the histories page and app are the contract's variables).
Contract == INSTANCE QueryContract WITH Queries <- Uid
ImplementsContract == Contract!Spec
-----------------------------------------------------------------------------
(***************************************************************************)
(* Liveness. Threads run their tasks, processes read their messages, a     *)
(* crash is reported, a navigation replaces the page, and the application  *)
(* answers every query it accepted ("a Callback method must be executed").  *)
(***************************************************************************)
Answers(q) ==
  \E c \in callbacks, kind \in {"Success", "Failure"} : c.id = q.id /\ CallOnUiThread(c, kind)
ReplacePage(b, f) == navigating[b] /\ OnContextReleased(b, f)

Fairness ==
  /\ WF_vars(RunUiTask)
  /\ \A b \in Browsers :
       /\ WF_vars(QueryReceived(b) \/ CancelReceived(b))
       /\ WF_vars(OnRenderProcessTerminated(b))
       /\ WF_vars(ResponseReceived(b))
       /\ WF_vars(ExecuteCallback(b))
       /\ \A f \in Frames : WF_vars(ReplacePage(b, f))
  /\ WF_vars(\E q \in pending : ~q.persistent /\ Answers(q))

FairSpec == Spec /\ Fairness

\* Every non-persistent query ends for the page that asked: its callback runs, or the page
\* gave it up.
EveryQueryEnds == \A u \in Uid : page[u] = "once" ~> page[u] # "once"

\* A query the page gave up ends for the application too: it was completed or its handler was
\* told OnQueryCanceled. This is the only way the handler of a persistent query learns of it.
AbandonedQueryEnds ==
  \A u \in Uid : (page[u] = "withdrawn" /\ app[u] \in {"open", "streaming"})
                   ~> app[u] \in {"answered", "failed", "canceled"}
=============================================================================
