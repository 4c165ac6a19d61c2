# CefBridge: models and proofs

CefBridge embeds the Chromium Embedded Framework (CEF) in .NET programs. The repository holds a C#
library (`src/CefBridge`), the C++ side of the bridge (`src/cef3/tests/cefclient/myext`), the
cefclient sample it is grafted onto (`src/cef3/tests/cefclient`, `src/cef3/tests/shared`), CEF's own
wrapper library (`src/cef3/libcef_dll/wrapper`), and a tool that re-applies the graft to a new CEF
release (`src/NativePatcher`). Most of its 209,000 lines are generated wrappers (`cpptoc`, `ctocpp`),
headers and CEF's tests; the programs' own control is in the parts listed below.

## 1. Inventory

### Message router (`cef_message_router.cc`, `cef_browser_info_map.h`)

JavaScript in a page calls `window.cefQuery`; a handler of the application in the browser process
answers through a `Callback`; the answer runs the page's `onSuccess` or `onFailure`. It is the part of
the wrapper library with real distributed state, and the bridge's own JavaScript channel
(`MyCefJsHandler`) runs on it.

- *Browser side*, one router for all browsers of a client, on the UI thread: the set of handlers, the
  map of pending queries by id, and the `Callback` objects given out, each with a back pointer to the
  router that is cleared when it can no longer be used. Operations: `AddHandler`, `RemoveHandler`,
  `CancelPending`, the four notifications of the client (`OnBeforeClose`,
  `OnRenderProcessTerminated`, `OnBeforeBrowse`, `OnProcessMessageReceived`), and
  `Callback::Success`/`Failure`, which any thread may call.
- *Renderer side*, one router in each renderer process: the ids of the V8 contexts, the map of pending
  requests by (context id, request id). Operations: `cefQuery`, `cefQueryCancel`, context creation and
  release, and the browser's responses.
- *Interaction*: process messages in both directions (FIFO), tasks posted to the UI thread and to the
  renderer's main thread, and calls into the application's handlers that may call back.
- *Hard*: both sides end a query for reasons of their own and at the same time; a renderer may crash
  and its successor uses the same ids again; a Callback is called on one thread while its query is
  canceled on another; handlers call the router from inside the router's iterations.
- *Correct* when: an answer reaches the query that asked, each query ends at most once for the page
  and for the handler, nothing stays pending that nobody waits for, and no request is left without an
  answer.

### ClientHandler (`tests/cefclient/browser/client_handler.cc`)

The client of each browser: creates the router with the first browser and drops it with the last,
forwards notifications to it, counts browsers. Hard: several browsers (popups, DevTools) share one
handler. Correct when the router hears of every close, navigation and crash.

### Resource manager (`cef_resource_manager.cc`)

An ordered list of providers asked one after the other for a resource; a provider may answer on the
FILE thread and later; providers come and go while requests wait on them. State: the provider list
with each provider's pending requests, and one request state that is handed from object to object.
Correct when each request is continued exactly once, no request waits on a provider that is gone, and
removal of providers ends.

### External message pump (`main_message_loop_external_pump*.cc`)

Turns CEF's "call me after this delay", from any thread, into a window message and a native timer of the
main thread. State: the messages, is a timer set, is work active, was it re-entered. Hard: work may run a
modal loop that dispatches the pump's own messages; a timer may already have fired when it is killed; the
delay is squeezed through an `LPARAM`. Correct when every request is followed by a call to
`CefDoMessageLoopWork`, none later than asked for, and none inside another.

### Root windows and shutdown (`root_window_manager.cc`, `root_window_win.cc`, `browser_window.cc`)

Each root window owns a native window and a browser and ends when both have ended, in either order; the
manager holds it until then and quits the loop with the last. The window is closed by the user, the menu
or its page; the browser asks its page first. Hard: main thread and CEF's UI thread may be two, and every
notification is then a posted closure; popups are made on the IO thread before their browser exists, and their browsers begin in a temporary window.
Correct when no root window is released early or kept for ever, and the loop ends with the last of them.

### Managed bridge (`src/CefBridge/*.cs`)

`MyCefBrowser` controls register themselves, get callbacks from native code on CEF's UI thread, and
are disposed with their forms; a program waits with `IsReadyToClose` before it shuts CEF down. Hard:
the registry is used from several threads, and the native browser ends after its control.

### Native bridge (`tests/cefclient/myext/*.cpp`)

Exported functions over handles of native objects, and the listener callbacks into managed code. Mostly
single calls; hard where an asynchronous CEF call outlives its arguments.

### Source patcher (`src/NativePatcher/BridgeBuilder`)

Keeps the bridge's changes to CEF's sources as patches: finds landmarks in a file, inserts and skips
lines, and leaves control comments from which the patch is built again for the next release. Sequential;
hard because a patch lives through many cycles of apply, rebuild, save and load, and its landmarks change
on the way. Correct when it loses no line of the release and no patch is lost or altered by a cycle.

### Stream resource handler (`cef_stream_resource_handler.cc`)

Serves a stream as the response of a request: the browser calls `ReadResponse` on the IO thread until it
returns false; a stream that may block is read on the FILE thread into a buffer the two share without a
lock. Correct when only one thread is in the buffer at a time and the response is the stream.

### Left aside

Generated C API wrappers, public headers, `ceftests` and gtest, `cefsimple`, zip and XML helpers, project files and the sample host programs: they are generated, vendored, sequential, or only
forward calls.

## 2. Plan

| order | modules | content | theorems |
|---|---|---|---|
| 1 (done) | `MessageRouter`, `QueryContract`, `HandlerDispatch` | both routers, the processes and threads around them; the contract; re-entrancy | all safety properties of both routers and of `HandlerDispatch`, and the contract (done) |
| 2 (done) | `ResourceManager` | providers, requests on IO and FILE threads, the archive provider's loading | all its safety properties (done) |
| 3 (done) | `ExternalPump` | message, timer, re-entrant work, the end of the loop | all its safety properties (done) |
| 4 (done) | `RootWindows`, `AppLifetime` | root windows, browsers, popups and DevTools, shutdown; the promise to the host | types, all its safety properties and the refinement (done) |
| 5 (done) | `SourcePatcher` | recording and replay of patches | all its safety properties (done) |
| 6 (done) | `StreamResourceHandler`, `StreamDelivery` | the buffer between two threads; what a resource handler promises | types, the buffer, the refinement (done) |

Not proved: liveness, which is out of the prover's reach (section 7).

## 3. Modules

### `MessageRouter`

The composed system: one browser-side router, and for each browser a renderer process with its own
renderer-side router, connected by two queues of messages.

| state | code |
|---|---|
| `offered` | the copy of `handler_set_` that `OnProcessMessageReceived` walks |
| `handlers`, `pending`, `nextQuery` | `handler_set_`, `browser_query_info_map_` (a set of `QueryInfo`, ordered by id), `query_id_generator_` |
| `callbacks` | the `CallbackImpl` objects with `router_` set; leaving the set is `Detach` or the clearing at the end of `Success`/`Failure` |
| `uiTasks` | the tasks posted to `TID_UI` by the router: calls from other threads, responses, cancellations |
| `requests`, `nextRequest` | `browser_request_info_map_` and `request_id_generator_`, per renderer process |
| `context`, `nextContext` | the `context_id_` of each frame's V8 context (`NoContext` when there is none, `kReservedId` until a bound function is executed in it), and the generator |
| `renderTasks` | the `Execute*Callback` tasks posted to the renderer's main thread |
| `toBrowser`, `toRenderer` | process messages in flight |
| `process`, `navigating` | the life of the renderer process and of a main-frame navigation, which the code sees through the notifications |
| `epoch`, `app`, `page` and the fields `epoch`, `call`, `thread` of messages | history variables: which process a query belongs to, and what page and application have seen of it |

Each action is one method, with everything it calls: `RemoveHandler` includes `CancelPendingFor`;
`SendCancel` is both forms of it. Only `OnProcessMessageReceived` of a query is two: `OfferQuery` copies the set of handlers
(`offered`), and `QueryHandled` or `QueryUnhandled` ends the walk over the copy, by any handler of it, registered or not
any more, and with any of the calls it may make on the Callback meanwhile. Between the two the application's code in `OnQuery`
may call the router, and other threads, renderers and processes go on; the UI thread does nothing else (`UiThreadIdle`), and
the query stays at the head of its pipe. The three posted tasks are `RunPostedCall`, `OnCallbackSuccess`/`OnCallbackFailure` and
`RunCancelPendingFor`, run in the order they were posted.

Abstractions: the payload of queries and answers is left out, and so is the validation of `cefQuery`'s
arguments, which throws before any state changes. A browser has one renderer process at a time; process
messages are FIFO and a crash is reported after what had reached the pipe. Sub-frame contexts are
released before their main frame's. `OnContextCreated` of the next main frame ends a navigation. Ids do
not wrap (a bound). `GetPendingCount` reads only. The JavaScript and handler code that callbacks run are
further steps; where they run inside the router's own loops is the subject of `HandlerDispatch`.

### `QueryContract`

The abstract specification: for every query a `page` and an `app` variable and the steps in which they
may change: a handler sees a query at most once, and only after the page asked; it hears of its end
once; the page's callback runs only after the application or a cancellation gave that answer, and ends
the query once. `MessageRouter` implements it under the identity mapping of its history variables
(`ImplementsContract`): a response for the wrong query, a second answer, or a callback for an abandoned
query would be a step the contract does not have.

### `HandlerDispatch`

The browser side again, with the application's calls inside the router's loops as steps: the copied set
of handlers that `OnProcessMessageReceived` walks (`asking`, `offered`), and the stack of `FindAll`
iterations (`visits`), each standing on the entry whose `OnQueryCanceled` is being called. The application adds and
removes handlers and cancels wherever its code runs: at top level, in `OnQuery` (a handler may remove itself, or one of the
copy that is still to be asked) and in `OnQueryCanceled`, where each call that finds queries starts an iteration inside the
one in progress; `MaxVisits` bounds their depth. After an inner iteration has erased the
entry an outer one stands on (`Dangling`) the program's behaviour is undefined and the model stops. `late` is a history
variable: the queries taken by a handler that had been removed while it was asked.
`Address` gives the handlers' pointer values, by which `std::set` orders them.

### `ResourceManager`

The manager on the IO thread, its providers, the FILE thread, and an application that adds and removes
providers, answers requests and calls from any thread.

| state | code |
|---|---|
| `list`, `deleting`, `waiting` | `providers_`; the entries with `deletion_pending_`; each entry's `pending_requests_` |
| `owner`, `entry` | where a request's `RequestState` is (in a `Request`, bound into a task, deleted), and its `current_entry_pos_` |
| `continued`, `handlers` | executions of the request's callback by `~RequestState`; `pending_handlers_` |
| `asking` | the `OnRequest` that `SendRequest` is in |
| `removing` | the loop of `RemoveProviders` or `RemoveAllProviders`, one entry a step |
| `ioTasks`, `fileTasks` | the tasks posted to `TID_IO` and `TID_FILE` |
| `archive`, `queued` | `ArchiveProvider`: `archive_load_started_`/`_ended_`/`archive_`, and its own `pending_requests_` |
| `manager`, `asked`, `added` | whether the manager still exists; the `Request` objects application providers hold; the providers added so far |

`MoveOn` is `IncrementProvider` with `DetachRequestFromProvider` and the next turn of `SendRequest`'s loop;
`Give` is `Request::Continue` and `Stop`, which take the state at once and post it. Whether a URL matches
a provider, a file exists and an archive loads are choices. A `ContentProvider` is the case of an
application's provider that answers inside `OnRequest`. `GiveEach` is a loop that answers several `Request`s: in the
order of their set, those that still have their state. Calls from other threads are posted with a reference to the
manager, so nothing is posted any more once its destructor runs (`Referenced`). `OnRequestCanceled` makes no calls (the built-in
providers do not override it). URL filter and MIME resolver are data. Not modelled is the return value of
`OnBeforeResourceLoad`, which only the browser uses. `RemoveOnce` keeps the application from removing a
provider whose deletion is pending, `ArchivesComplete` says that archives load and hold the files asked
for: each excludes one of the disagreements of section 5.

### `ExternalPump`

| state | code |
|---|---|
| `queue` | the `kMsgHaveWork` messages of the pump's window, by their delays |
| `timer`, `expired` | `timer_pending_` with the time left; a `WM_TIMER` message generated and not yet dispatched, which `KillTimer` does not take back |
| `is_active_`, `reentrancy_detected_` | the fields |
| `works` | calls of `CefDoMessageLoopWork` on the main thread's stack |
| `phase`, `rounds`, `quitting` | where `Run` is: its loop, the ten calls after it, returned |
| `unserved`, `due`, `waited`, `postponed` | history: CEF has asked since the last work began; when work is due by the last request handled; the time since the last work; delayed requests since then |
| `responsive` | chosen at the start: does the main thread handle messages in no time, or may it be late |

`HaveWork` and `OnTimerTimeout` are the two branches of `WndProc` with `OnScheduleWork` and `DoWork` down to
the call of `CefDoMessageLoopWork`; `WorkReturns` is the rest of `DoWork`. Between the two any message may be
dispatched, as a modal loop inside the work does. `AsLParam` is what becomes of a 64-bit delay in an
`LPARAM` of `LParams` values. `Tick` and `TimerElapses` are Windows' clock and timers.

### `RootWindows` and `AppLifetime`

| state | code |
|---|---|
| `root_windows_`, `quit` | the manager's set; `MainMessageLoop::Quit` was called |
| `hwnd` | the root window's native window, and `window_destroyed_` |
| `view` | the browser as the root window knows it: `browser_`, `is_closing_`, `browser_destroyed_` |
| `browser` | the browser in CEF: requested, open, closing (`DoClose`), its window destroyed, ended (`OnBeforeClose`), or never to come |
| `tasks` | closures posted with `MAIN_POST_CLOSURE` |
| `temp` | the `TempWindow`: the parent of a popup's browser until the main thread gives the popup a native window |
| `wm_close` | `WM_CLOSE` messages posted by CEF, to a root window or the `TempWindow`, or by `CloseAllWindows` |
| `asked` | windows whose page is being asked (`CloseBrowser(false)`, `onbeforeunload`) |
| `kind`, `opener` | how a root window was created, and whose browser asked for it |

Each action is a handler of one thread with all it calls on that thread: `OnBrowserClosed` is
`BrowserWindow::OnBrowserClosed` with `OnBrowserWindowDestroyed`, the forced `Close` that destroys the native
window, and `NotifyDestroyedIfDone`. `FromUiThread` runs a notification at once where the UI thread is the
main thread (`MultiThreaded` FALSE) and posts it otherwise. CEF's own rules (when a browser is created,
asked, closed, or dropped) are those its headers and the code's use of them state. Nothing is kept from happening: a window
is closed before it knows of its browser, an opener ends while its popup is created, DevTools are asked for again, and a
popup's page closes it while it is still in the `TempWindow`, whose window procedure is Windows' own and destroys it
(`TempWindowCloses`). The properties say what holds all the same, section 5 what does not.

`AppLifetime` is the promise: windows open one by one, each from one that is there, and the application is
told to end exactly in the step in which the last one goes. `RootWindows` implements it with a window
"present" from its creation (even if its registration is still a posted closure) to the end of both its
halves.

### `SourcePatcher`

The file in the source folder, its patch in the patch folder, and the tool's two buttons: `LoadAndApply`
(`LoadPatchesFromFolder`, `PatchContent`) and `MakePatch` (`MakePatch`, `Save`), with new releases in between.
A file is a sequence of lines, each a text or a control comment; texts are abstract, with the relation "starts
with" that `TrimStart().StartsWith` tests. The loops are recursive functions of the number of rounds: `Builds` is the state of
`BuildPatchFile` after each line, `Commanded` and `Patched` are how far a patching has come (what is written and
`CurrentLine`) after each command of a task and each task of a patch. A command that throws makes the result
`Failed`, and as the output is saved only at the end, the file stays. Left out: CMake files
(another comment style), appended lines that themselves look like control lines, malformed patch files
(exceptions before anything is written).

### `StreamResourceHandler` and `StreamDelivery`

| state | code |
|---|---|
| `position` | how far the `CefStreamReader` has been read |
| `buffer` | `buffer_`: `size_`, `bytes_requested_`, the bytes (`bytes_written_`), `bytes_read_` |
| `task`, `asked` | `ReadOnFileThread`: posted, in its reading loop, about to execute the callback; its `bytes_to_read` |
| `browser`, `delivered` | what the browser has been told and given |
| `onFileThread` | `read_on_file_thread_` |

`ReadResponse` is split by its branches; `ReadOnFileThread` into its reset, each `Read`, and the callback, since
the IO thread runs meanwhile. `StreamDelivery` is the promise of a resource handler: the bytes in order, and
the end only after the last.

### The proof modules

`MessageRouterProofs` and `MessageRouterQueryProofs` (the router: the browser process, and its queries from page to
page), `HandlerDispatchProofs`, `ResourceManagerProofs`, `ExternalPumpProofs`, `RootWindowsProofs`, `SourcePatcherProofs`,
`StreamResourceHandlerProofs`: see section 7.

### The `MC` modules

One for each model: the sets, orders and symmetries for TLC, and the values with which the disagreements of
section 5 are repeated.

## 4. Runs

Bounds of the router's runs, unless said otherwise: one call on each Callback, one handler, one
frame. `MaxTasks` bounds only the queue length at which *other* threads may post: 0 keeps the application
on the UI thread. A passing run explores all states within its bounds. Deadlock is not checked: with the
bounds spent and every browser closed the system does stop.

| run | instance | shows |
|---|---|---|
| `RouterCrash` | one browser, two renderer processes in succession, one request each, both kinds of query, aborted navigations, two calls on each Callback, two tasks from other threads; 918,000 states | `TypeOK`; `NoStaleResponse`; `CallbackAccounted`; `PendingHasRequest`; `CallsInOrder`; `ImplementsContract` |
| `RouterBrowsers` | two browsers (symmetric) with equal ids, and a client that, as cefclient, does not forward `OnBeforeClose`; 725,000 states | `RequestTracked` |
| `RouterFrames` | a main frame and a sub-frame, two contexts, two requests; 1,420,000 states | `RequestContextLive`, `RequestTracked` |
| `RouterLive` | one browser, one request of either kind, fairness; 5,600 states | `EveryQueryEnds`, `AbandonedQueryEnds` |
| `Dispatch` | three handlers, three queries, iterations three deep; 1,650,000 states | `TypeOK`, `ToldAgainOnlyInside`, `IteratorsValid`, `PendingRegistered`, `CancelComplete` |
| `Resources` | two requests (symmetric), three providers: an archive and an application's provider of the same order, a directory after them; calls on the IO thread; archives may fail; 307,000 states | `TypeOK`, `StateInOnePlace`, `EntryAlive`, `DeletingWaits`, `MovesForward` |
| `ResourcesLive` | the same providers, one request, calls from other threads too (`MaxPosted`: how many may be queued), fairness; 60,000 states | `EveryRequestContinues` |
| `Pump` | six delays, two queued messages, modal loops, a responsive or a late main thread, the end of the loop, fairness; 95,000 states | `AlwaysArmed`, `WakesInTime`, `WorkNotNested`, `WaitBounded`, `EveryRequestServed` |
| `Windows` | three windows of any kind, two threads; 2,215,000 states | `RegisteredUntilDone`, `NothingLeftBehind`, `PageAskedFirst`, `ImplementsLifetime` |
| `WindowsLive` | three windows of any kind, one thread, fairness; 107,000 states | `TypeOK`, `BegunEnds` |
| `Patcher` | six releases, the patches of one to three tasks with every command; 92,000 states | `SourceKept`, `Regenerates`, `PatchCarried` |
| `Stream` | nine bytes, takes of four sizes, reads of any length, fairness; 1,400 states | `BufferOwned`, `ImplementsDelivery`, `ResponseEnds` |

Why the bounds are enough: every hazard involves one query and at most one other thing that may be
mistaken for it: a second query, a second process with the same ids, a second browser with the same ids,
a second frame, a second answer on one Callback. Each run has one of these pairs and the queues long
enough for both to be in flight together. Handlers meet in `Dispatch`: a walk needs three for one to
remove the next while a third is left, and three iterations nest once for another query and once for the same.
For resources, two requests meet in one provider's list and in one archive's queue, three kinds of provider
with an equal and a higher order give each insertion position, and a posted call can be late, doubled by
a direct one, or follow a removal.

For the pump, `kMaxTimerDelay` is 2 and the delays are 0, less, equal, more, `INT_MAX` itself, and one that the `LPARAM` makes
negative; two messages may be queued when CEF asks, so that a request meets the pump's own and another's, and
two delayed requests may follow each other between works. An `LPARAM` of 16 values and 7 for `INT_MAX` keep the
order 0 < kMaxTimerDelay < INT_MAX of the code. Two calls after the loop stand for ten. For windows, three are a window, its
popup or DevTools, and one more that keeps the loop running or is the last; every pair of ends meets. For the
patcher, three texts of which one starts with another give ambiguous landmarks; patches have up to two commands
in the first task, or up to three tasks, over releases of up to four lines. For the stream, nine bytes and
takes of 1, 2, 3 and 5 give short reads, buffers that grow and shrink, and takes smaller and larger than the
buffer; the reads are cut in every way.

## 5. Disagreements

Each is a disagreement between the code and what is written about it, or a case the code is not prepared for. In the first
table TLC refutes a property when a restriction of a passing run is lifted or a stronger property is checked; the first
column says how to repeat it.

| change | property refuted | what happens |
|---|---|---|
| `Dispatch.cfg`, `INVARIANT DocumentedOrder` | `DocumentedOrder` | `AddHandler`'s first/last (`cef_message_router.cc:158`) is only a hint to a `std::set` of pointers; handlers are asked in the order of their addresses. `cef_message_router.h:291-292`: "If \|first\| is true it will be added as the first handler, otherwise it will be added as the last handler" |
| `RouterFrames.cfg`, `NavigationMayAbort = TRUE` | `RequestTracked` | `OnBeforeBrowse` cancels the page's queries without telling the page, since the navigation "indicates destruction of the context" (`cef_message_router.h:351`); if it does not (a download, Stop), the page waits for ever |
| `ResourcesLive.cfg`, `ArchivesComplete = FALSE` | `EveryRequestContinues` | requests queued while an archive loads are dropped by `ArchiveProvider::ContinueOnIOThread` (`cef_resource_manager.cc:260`) when the load fails or the file is missing, and hang. `cef_resource_manager.h:192-195`: "return true and call Request::Continue or Request::Stop either in this method or asynchronously" |
| `Resources.cfg`, `RemoveOnce = FALSE`, `INVARIANT RemovalAdvances` | `RemovalAdvances` | a second removal while a deletion is pending spins: `DeleteProvider` (`cef_resource_manager.cc:746`) returns with the iterator unmoved; the destructor's own `RemoveAllProviders` does the same. `cef_resource_manager.h:263-264` forbids no second removal |
| `Pump.cfg`, `ModalInDrain = TRUE` | `WorkNotNested` | the calls after the loop (`main_message_loop_external_pump_win.cc:91`) do not set `is_active_`: a modal loop in one of them dispatches a queued request, and the work nests |
| `WindowsLive.cfg`, `MultiThreaded = TRUE` | `BegunEnds` | the page of a popup closes it before the main thread has made its native window. CEF's `WM_CLOSE` goes to the `TempWindow` the browser is still in, and is lost on the popup: its window then opens and, its browser having agreed to close, stays. The `TempWindow` is destroyed with the browsers in it (`temp_window_win.cc:23` leaves `WM_CLOSE` to `DefWindowProc`), and browsers of later popups have no parent |
| `WindowsLive.cfg`, `PROPERTY ImplementsLifetime` | `ImplementsLifetime` | on one thread the opener of a popup can end, and the loop quit, while the popup's registration is on its way: `CreateRootWindowAsPopup` posts it from the IO thread |

The others are in the properties, each of which names as its exception what the code does and no more:

- `PendingRegistered` excepts the queries in `late`. A handler removed during its own `OnQuery`, or by that of one asked
  before, that returns true owns a pending query after its removal (`cef_message_router.cc:282-311`), against
  `cef_message_router.h:300-301`: "Any pending queries associated with the handler will be canceled". For the same reason
  the router's destructor may find pending queries, which its `DCHECK` (`:150-153`) says it does not.
- `ToldAgainOnlyInside` and `IteratorsValid` except a query whose `OnQueryCanceled` is running. A cancellation called from
  inside it visits the entry on which the outer iteration stands: its handler is told twice, and the entry is erased under the
  iterator. Any other nesting is harmless.
- `PageAskedFirst` excepts a page whose browser the main thread does not know yet: `RootWindowWin::OnClose`
  (`root_window_win.cc:797-802`) then allows the close, and so does the end of the `TempWindow`.
- `NothingLeftBehind` and `BegunEnds` except root windows whose browser was never made, which keep the loop running for ever:
  a window closed before its browser was created; a popup that CEF dropped with its opener (its root window is kept from
  `OnBeforePopup` on); and a second root window for DevTools, which `ShowDevTools` (`client_handler.cc:1023`) makes
  each time though open DevTools are only focused (`cef_browser.h:494-496`). Then `Quit` is never called, against
  `cefclient_win.cc:104-105`.
- cefclient's `ClientHandler::OnBeforeClose` (`client_handler.cc:704`) does not call the router's, against
  `cef_message_router.h:328-332`: "must be called exactly as documented". With another browser of the same handler open, the
  closed one's queries stay pending. No property says that a pending query's browser is open; `ForwardOnBeforeClose` chooses
  between cefclient's client (`RouterBrowsers`) and one that forwards, as those of `ceftests` do (the other runs).

The pump's comments (`main_message_loop_external_pump.cc:21-22`, `:59`) call `kMaxTimerDelay` the longest wait between
two calls of `DoWork`. Each delayed request restarts the timer, so the bound holds from one request to the next only;
`WaitBounded` states what is true: one more `kMaxTimerDelay` for each delayed request.

In the patcher, a task whose landmark is missing is passed over without a word (`Patchs.cs:572`, where the exception that
follows the `return` is never thrown) and takes the rest of the file with it, so later tasks find nothing either. The
next `MakePatch` builds a patch without them: `PatchCarried` therefore says that the new patch is a prefix of the old.
A file whose last task found its landmark but has no command yields no patch at all (`Patchs.cs:376`), and the patch saved
before stays.

## 6. Fairness

`RouterLive` assumes, for every browser: the UI thread runs its tasks; messages of a live pipe are read,
in order; Chromium reports the end of a renderer; the renderer's main thread reads responses and runs
their tasks; a navigation that started replaces the page (the run excludes aborted ones, see
section 5); and some Callback of a pending non-persistent query is called, which
`cef_message_router.h` (255-257) demands of the application. All are weak fairness: each of these actions
stays enabled until it is taken or its purpose is gone. Nothing is assumed of pages: they need not ask,
cancel or leave. Nothing is assumed of persistent queries, which only a failure or a cancellation ends:
that is why `AbandonedQueryEnds` matters.

`ResourcesLive` assumes that both threads run their tasks and loops and `OnRequest` returns (weak fairness),
and that an application's provider which took a request answers it, as `cef_resource_manager.h` (192-195)
demands. The last is strong fairness: the call is disabled whenever the IO thread is busy with another
task, and that must not count as an excuse for ever. Nothing is assumed of additions and removals.

`Pump` assumes that the main thread goes on dispatching and `CefDoMessageLoopWork` returns, though it may dispatch any
number of messages before, and that Windows' clock and timers run: weak fairness of each. CEF need not ask for anything,
nobody need quit. That CEF does not postpone work for ever with ever new delayed requests is the bound `MaxPostponed`.

`WindowsLive` assumes that the main thread runs its closures and gets its messages, and that CEF creates the browsers it
was asked for (or knows it never will) and reports the end of those whose window is gone. Nobody has to open or close
anything, and pages may keep their users for ever: only ends that have begun must finish.

`Stream` assumes that the browser calls `ReadResponse` until the response ends or it gives up, and that the FILE thread
runs its tasks.

## 7. Proofs

`MessageRouterProofs` holds machine-checked proofs, for every value of the constants that satisfies
`ConstantsAssumption` (the main frame is a frame, bounds are naturals, at least one process per browser):

- `TypeCorrect`: `Spec => []TypeOK`. `TypeOK` is inductive by itself; one lemma for each helper that
  several actions share and one for each action. The sequences of messages, tasks and responses are what
  makes it work: the head of a queue has the type its guard says.
- `NoStale`: `Spec => []NoStaleResponse`. Not inductive alone: a response is created from the epoch of a
  pending query, so the invariant `EpochInv` adds that a pending query of a live renderer belongs to its
  current process (`PendingCurrent`), that what is in flight does too (`InFlightCurrent`), that nothing is
  in flight to a dead process (`NothingForTheDead`), and that the map of pending queries is finite, so
  that a cancellation's responses can be listed. The step that needs it all is `Relaunch`, which
  increments the epoch: it is safe because `OnRenderProcessTerminated` cancelled the dead process's
  queries first. TLC checked `EpochInv` before it was proved.
- `CallbacksAccounted` (`CallbackAccounted`). The invariant `CallbackInv` adds that ids belong to one query and one
  Callback each, and that a Callback that works belongs to a pending query whose last response is not queued on the UI
  thread; a pending query has either such a Callback or that response.

`MessageRouterQueryProofs` goes on from there, again for every value of the constants:

- `RequestsOfLiveContexts` (`RequestContextLive`): `ContextsNumbered` adds that a context id is given to one context, and that
  sub-frames have no context when the main frame has none.
- `PendingHasItsRequest` (`PendingHasRequest`). A query is followed through the whole system: `OnePlace` says that it is in the
  pipe, or pending, or being answered, and in one of these places only, but for the successes of a persistent query, which stay
  behind it; `OnePerId` and `NothingFromTheDead` make ids unambiguous within a renderer's life. `PlacesInv` is all of this.
- `RequestsTracked` (`RequestTracked`), assuming `~NavigationMayAbort` (section 5). It is the converse, `PlacedAt`: what the page
  waits for is in one of those places, unless its page is leaving. That needs `PastAt`: a cancellation in the pipe is for
  requests the page has given up, never for one it has made since.
- `RouterImplementsContract`: `Spec => ImplementsContract`, by `PlacesInv` and `SeenInv`, which says what application and page
  have been told at each of those places. For every action there is a lemma on what it may do to the two histories; then each
  step is a step of `QueryContract` or a stutter.
- `CallsReachPageInOrder` (`CallsInOrder`). The calls of one thread on a Callback pass through three queues: posted to the UI
  thread, queued there to be sent, and on their way to the page. `CallsInv` says that they are in order in each
  (`Rising`) and from each to the next (`Before`), that the Callback has counted them all (so the next call is later), and that
  tasks carry ids already given out. Calls that the UI thread makes skip the first queue, which is why the order holds for each
  thread and not among threads. A query that becomes pending finds nothing of its own on its way, by `OnePlace`. TLC
  checked `CallsInv` before it was proved.

`HandlerDispatchProofs`, for any handlers at any addresses and any depth of re-entrance:

- `TypeCorrect`, and `CancellationCompletes` (`CancelComplete`), from `Walks`: every iteration in progress has the pending queries
  it is for at its iterator or ahead of it, whatever calls from inside it erase.
- `HandlersOfPendingRegistered` (`PendingRegistered`), from `Owned`: a pending query belongs to a
  registered handler, to an iteration in progress that will cancel it, or is in `late`.
- `HandlersToldOnce` (`ToldAgainOnlyInside`) and `IteratorsStayValid` (`IteratorsValid`), from `Told`, which
  counts: a pending query has been told once if one iteration stands on it, more often only if several do, and what still
  stands on an entry that was erased is what stood there beside the iteration that erased it.

`ResourceManagerProofs`, for any requests, providers and orders, with nothing assumed but `ResourceAssumption` (removals may be
repeated and archives may fail): `TypeCorrect`, `OneOwner` (`StateInOnePlace`), `PositionsValid` (`EntryAlive`), `DeletionsWait`
(`DeletingWaits`) and `OffersInOrder` (`MovesForward`). All but the first come from one invariant, `ResourceInv`, since none of
them is inductive alone:

- each continuation that is queued is of a request whose state is in a task, and each such request has just one
  (`ContinuedOnce`, `QueuedFor`, `OpensForRequest`), so that no callback is executed twice;
- a provider's pending list holds each request once, and only those that stand at its entry (`WaitingAt`); an entry is in
  the list while any request stands at it (`EntryAlive`); and a provider that is being deleted waits for requests all of which
  have been answered and are on their way (`DeletingFor`);
- the list is in order and without repetition (`ListSorted`), and only a living manager removes (`RemovingAlive`).

A lemma for each helper says what it does to each of these parts; the actions follow by combining them.

`ExternalPumpProofs` holds proofs for every value of the constants that satisfies `PumpAssumption`, in particular every set
of delays and every width of the `LPARAM`, and without modal loops in the calls after the loop (`~ModalInDrain`, an assumption
of each theorem; section 5 says why):

- `TypeCorrect`, `NotNested` (`WorkNotNested`), `NeverAsleep` (`AlwaysArmed`), `WakesByRequest` (`WakesInTime`) and
  `WaitIsBounded` (`WaitBounded`), all from one inductive invariant `IInv`: the types; `Stack`, which ties `is_active_`, the
  depth of the stack and the phase together (work on the stack during the loop is active work, and after it is not); `AlwaysArmed` itself;
  `Wakes`, which is `WakesInTime` extended to the time while work is active, when a discarded request is only remembered in
  `reentrancy_detected_`; and `Waits`, by which the time waited and the time on the timer together stay within the bound.

`RootWindowsProofs`, for any set of windows, on one thread or two, whatever windows open:

- `TypeCorrect`, and `HeldUntilDone` (`RegisteredUntilDone`), whatever happens. The invariant `IInv` says of the queue
  of closures that those of one window are in their order (`InTurn`), that none is posted before its browser is in a state for
  it or run twice (`InTime`), and that on one thread only registrations are posted (`Direct`); and of each window that it has
  nothing before it is used (`Unused`), that its root window lags behind its browser (`Lags`), and that it is registered.
  `RegisteredUntilDone` alone is not inductive: without `InTime` a closure could bring a released window back.
- `ImplementsAppLifetime` (`ImplementsLifetime`): on two threads of every behavior, on one of those whose steps satisfy
  `OpenerWaits`: CEF does not end the browser of an opener while its popup is being created (section 5 shows the failure
  without it; that popups are dropped shows that CEF promises no such thing).
  The invariant adds `OpenerStays`: while a registration is on its way, the window that asked for it is there, is registered before it and ends
  after it. So the opener of the first registration in the queue is registered (`OneIsHeld`), the manager's set is empty only
  when no window is there, and the step that empties it is the one in which the last goes. Every step is then shown to be a step
  of `AppLifetime` or a stutter.
- `AskedBeforeDestroyed` (`PageAskedFirst`) and `NoneLeftBehind` (`NothingLeftBehind`), with nothing assumed but the sort of the
  constants. The invariant adds `Knows` (a root window knows of a browser that has begun, or the closure that tells it is posted)
  and `Sound` (a used window's browser is still to be asked for, or has been, and if it has ended, the root window knows or the
  news is posted; only a root window with a native window knows of its browser, which is why browsers in the `TempWindow` are
  not known yet). The step that closes the `TempWindow` changes several windows at once and disturbs neither.

`StreamResourceHandlerProofs`, for every length of the stream and all sizes:

- `TypeCorrect`, `BufferSafe` (`BufferOwned`), and `Implements`, the refinement of `StreamDelivery`. The invariant adds
  `Contents` (what has been delivered, what waits in the buffer and what is still in the stream make up the stream) and `Stages`
  (what each stage of the task says of the buffer; an empty buffer after a read means the end of the stream). Each step then
  maps to a delivery, the end, or a stutter.

`SourcePatcherProofs`, for any texts and relation "starts with" that is reflexive and transitive, any releases that are not
empty, and any patches (`PatcherAssumption`), of any lengths:

- The properties are about what loops compute from data. The induction is over the number of rounds: a set of numbers has a
  least (`Least`, from the library's well-founded order), hence `UpTo`, and by it the recursive functions exist
  (`BuildsIs`, `CommandedIs`, `PatchedIs`), as does the one that `FlattenSeq` is the last value of (`FlattenIs`).
- `PatchRegenerates` (`Regenerates`) and `PatchStaysItself` (`PatchCarried`). What is saved is read back as it was
  (`ReadPatch`). A command that succeeds at some place of a release writes lines from which a command is read that says no
  less, finds the same line and writes the same lines (`CommandCarried`): the landmark that has become the line found still
  finds it first, as nothing before it starts with less (`FoundAgain`). So it goes for the commands of a task
  (`CommandsCarried`), for a task (`FoundTaskCarried`) and for a patch up to a task whose landmark is missing, after which
  there is nothing left to find (`NothingLeft`, `PatchRuns`, `PatchIsCarried`).
- The invariant `IInv` adds that the patch folder holds a patch as it was saved (`PatchSaved`), and that the file is as
  released or what the saved patch makes of it (`FileKnown`); this is what `MakePatch` needs, and it survives `MakePatch` since
  the new patch makes the same file. TLC checked `IInv` before it was proved.
- `SourceIsKept` (`SourceKept`). `Kept(r, a, b, lines)` says of a piece of a patched file what `SourceKept` says of all of it:
  it holds the lines of `r` from `a` up to `b`, and leaves no block open. Pieces add up (`KeptConcat`); each command adds
  a piece that starts where the last one ended (`CommandKeeps`), and the copied rest is the last.

Every safety property the runs check is proved. Model-checked only:

- liveness (`EveryQueryEnds`, `AbandonedQueryEnds`, `EveryRequestContinues`, `EveryRequestServed`, `BegunEnds`, `ResponseEnds`):
  fairness and `ENABLED` are out of the prover's reach.

## 8. Not modelled

- *Inside the router*: argument validation and `GetPendingCount` (no state changes), object lifetimes (reference counts of
  Callbacks, `RequestInfo`), wrap-around of ids (2^32 requests with one left pending), two renderer processes of one browser at
  once, and a Callback that the application drops unexecuted, which breaks the rule `cef_message_router.h:255-257` sets.
- *Resource manager*: the return value of `OnBeforeResourceLoad`, which only the browser uses.
- *Root windows*: off-screen and Views windows, `CloseAllWindows(true)`, which nothing calls; in
  `ClientHandler`, menus, dialogs, dragging and loading states.
- *Managed bridge* (`src/CefBridge`): a registry of controls and wrappers of native calls. What is wrong there is visible without a
  model: `DisposeAllChildWebBrowserControls` (`MyCefBrowser.cs:410-436`) forgets the controls of a form at once, so
  `IsReadyToClose` (`:451-463`) then says yes whatever the native browsers do; an address given to `NavigateTo` before the
  native browser exists (`:296-303`) is stored and not replayed.
- *Native bridge* (`tests/cefclient/myext`): one-line exports, marshaling of arguments, and lifetimes of C++ objects
  (`MyCefDomGetTextWalk` deletes a visitor that an asynchronous call still holds, `ExportFuncs.cpp:203`).
- *Patcher*: CMake files, malformed patch files, the fixed edits of `ManualPatcher`.
- *Generated and vendored code*: the C API wrappers forward calls; zip and XML readers, headers and tests hold no control of
  this program. They are most of the repository's lines, which is why the models cover a small share of them.
