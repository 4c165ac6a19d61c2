-------------------------- MODULE ResourceManager --------------------------
(***************************************************************************)
(* CefResourceManager: a browser's resource requests are offered to an     *)
(* ordered list of providers, one after the other, until one answers.      *)
(*   src/cef3/libcef_dll/wrapper/cef_resource_manager.cc                   *)
(* The manager lives on the IO thread. A provider may answer later and     *)
(* from any thread; directory and archive providers go through the FILE    *)
(* thread. A request's RequestState is handed from owner to owner and      *)
(* executes the request's callback when it is deleted: being deleted once  *)
(* is what continues the request.                                          *)
(***************************************************************************)
EXTENDS Integers, Sequences, FiniteSets

CONSTANTS
  Requests,
  Providers, Kind, Order, \* a provider's kind and its |order| argument
  NoProvider, NoRequest,
  Identifiers,            \* for each |identifier| in use, the providers added with it
  ArchivesComplete,       \* do archives load, and hold the files they are asked for?
  RemoveOnce,             \* is no provider removed again while its deletion is pending?
  MaxPosted               \* bound: tasks from other threads queued for the IO thread

ASSUME ResourceAssumption ==
  /\ Kind \in [Providers -> {"application", "directory", "archive"}]
  /\ Order \in [Providers -> Int]
  /\ NoProvider \notin Providers /\ NoRequest \notin Requests
  /\ Identifiers \subseteq SUBSET Providers
  /\ ArchivesComplete \in BOOLEAN /\ RemoveOnce \in BOOLEAN /\ MaxPosted \in Nat

VARIABLES
  manager,    \* "alive", or "destroyed"
  list,       \* providers_
  deleting,   \* the entries whose deletion_pending_ is set
  waiting,    \* ProviderEntry.pending_requests_
  owner,      \* who has the request's state: nobody "yet", a "request" object, a "task", or "gone"
  entry,      \* RequestState.current_entry_pos_
  continued,  \* how often the request's callback was executed
  handlers,   \* pending_handlers_
  asking,     \* the request and provider OnRequest is executing for
  removing,   \* the loop of RemoveProviders or RemoveAllProviders in progress
  ioTasks, fileTasks,
  archive, queued, \* ArchiveProvider: archive_load_started_, _ended_; pending_requests_
  asked,      \* the Request objects that application providers were given
  added       \* the providers that were added so far

requestVars == <<owner, entry, continued, handlers>>
providerVars == <<list, deleting, waiting>>
archiveVars == <<archive, queued, fileTasks>>
vars == <<manager, requestVars, providerVars, archiveVars, asking, removing, ioTasks, asked, added>>

Answers == {"handled", "next", "stop"}   \* Continue(handler), Continue(NULL), Stop()
NotAsking == [request |-> NoRequest, provider |-> NoProvider]
NotRemoving == [selected |-> {}, at |-> 0, answer |-> "next", last |-> FALSE]

\* A call of Request::Continue or Stop to make on the IO thread, and what such a call posts.
Call == [type: {"call"}, request: Requests, provider: Providers, answer: Answers]
Continuation == [type: {"continuation"}, request: Requests, answer: Answers]
Loaded == [type: {"loaded"}, provider: Providers, ok: BOOLEAN]
Add == [type: {"add"}, provider: Providers]
Remove == [type: {"remove"}, selected: SUBSET Providers, answer: {"next", "stop"}]
FileTask == [type: {"open", "load"}, request: Requests \cup {NoRequest}, provider: Providers]

TypeOK ==
  /\ manager \in {"alive", "destroyed"}
  /\ list \in Seq(Providers) /\ deleting \subseteq Providers
  /\ waiting \in [Providers -> Seq(Requests)]
  /\ owner \in [Requests -> {"yet", "request", "task", "gone"}]
  /\ entry \in [Requests -> Providers \cup {NoProvider}]
  /\ continued \in [Requests -> Nat] /\ handlers \subseteq Requests
  /\ asking \in [request: Requests, provider: Providers] \cup {NotAsking}
  /\ removing \in [selected: SUBSET Providers, at: Nat, answer: {"next", "stop"}, last: BOOLEAN]
  /\ ioTasks \in Seq(Call \cup Continuation \cup Loaded \cup Add \cup Remove)
  /\ fileTasks \in Seq(FileTask)
  /\ archive \in [Providers -> {"no", "loading", "loaded", "failed"}]
  /\ queued \in [Providers -> Seq(Requests)]
  /\ asked \subseteq Requests \X Providers /\ added \subseteq Providers

Init ==
  /\ manager = "alive"
  /\ list = <<>> /\ deleting = {} /\ waiting = [p \in Providers |-> <<>>]
  /\ owner = [r \in Requests |-> "yet"] /\ entry = [r \in Requests |-> NoProvider]
  /\ continued = [r \in Requests |-> 0] /\ handlers = {}
  /\ asking = NotAsking /\ removing = NotRemoving
  /\ ioTasks = <<>> /\ fileTasks = <<>>
  /\ archive = [p \in Providers |-> "no"] /\ queued = [p \in Providers |-> <<>>]
  /\ asked = {} /\ added = {}
-----------------------------------------------------------------------------
Elements(s) == {s[i] : i \in DOMAIN s}
Erase(s, x) ==
  LET i == CHOOSE i \in DOMAIN s : s[i] = x IN SubSeq(s, 1, i - 1) \o SubSeq(s, i + 1, Len(s))

Applications == {p \in Providers : Kind[p] = "application"}
Idle == asking = NotAsking /\ removing = NotRemoving   \* the IO thread can start a task
\* Code of the application may run on the IO thread: between tasks or in its OnRequest.
InApplication ==
  /\ removing = NotRemoving
  /\ asking.provider \in {NoProvider} \cup Applications

\* Request::HasState, of the Request object made for r when it was offered to p.
HasState(r, p) == owner[r] = "request" /\ entry[r] = p

\* Mutant: the state stays with the Request.
GiveKeeping(rs, answer, base) ==
  /\ ioTasks' = base \o [i \in DOMAIN rs |->
                           [type |-> "continuation", request |-> rs[i], answer |-> answer]]
  /\ UNCHANGED owner
\* Request::Continue and Stop on the IO thread: the state leaves the Request at once and waits in
\* a task for ContinueOnIOThread or StopOnIOThread. base is the queue the task is posted to.
Give(rs, answer, base) ==
  /\ owner' = [r \in Requests |-> IF r \in Elements(rs) THEN "task" ELSE owner[r]]
  /\ ioTasks' = base \o [i \in DOMAIN rs |->
                           [type |-> "continuation", request |-> rs[i], answer |-> answer]]
GiveAnswer(r, p, answer, base) ==
  Give(IF HasState(r, p) THEN <<r>> ELSE <<>>, answer, base)
\* ... by a loop over the Requests in s: those of T that still have their state, in their order.
GiveEach(s, p, T, answer, base) ==
  LET given == {r \in T : HasState(r, p)} IN
  \E n \in 0..Len(s) : \E rs \in [1..n -> given] :
    /\ Elements(rs) = given
    /\ \A i, j \in 1..n : i < j =>
         rs[i] # rs[j] /\ \E k, l \in DOMAIN s : k < l /\ s[k] = rs[i] /\ s[l] = rs[j]
    /\ Give(rs, answer, base)

\* Mutant: entries whose deletion is pending are not passed over.
AnyEntry(i) == {j \in DOMAIN list : j >= i}
\* GetNextValidProvider from the position i.
Valid(i) == {j \in DOMAIN list : j >= i /\ list[j] \notin deleting}
NextValid(i) ==
  IF Valid(i) = {} THEN NoProvider ELSE list[CHOOSE j \in Valid(i) : \A k \in Valid(i) : j <= k]
Following(p) == NextValid((CHOOSE i \in DOMAIN list : list[i] = p) + 1)

\* Mutants: the entry goes with its first request, or with none.
LeavesDeleting(r) == entry[r] \in deleting
LeavesNever(r) == FALSE
\* DetachRequestFromProvider: the last request takes an entry whose deletion is pending with it.
LeavesEmpty(r) == entry[r] \in deleting /\ waiting[entry[r]] = <<r>>
Detach(r) ==
  IF LeavesEmpty(r)
  THEN list' = Erase(list, entry[r]) /\ deleting' = deleting \ {entry[r]}
  ELSE UNCHANGED <<list, deleting>>
Detached(r) == [waiting EXCEPT ![entry[r]] = Erase(@, r)]

\* A new Request for r in the pending list of p, and p's OnRequest is called with it.
Offer(r, p, lists) ==
  /\ waiting' = [lists EXCEPT ![p] = Append(@, r)]
  /\ owner' = [owner EXCEPT ![r] = "request"]
  /\ entry' = [entry EXCEPT ![r] = p]
  /\ asking' = [request |-> r, provider |-> p]
  /\ asked' = IF p \in Applications THEN asked \cup {<<r, p>>} ELSE asked
  /\ UNCHANGED continued

\* ~RequestState: the callback is executed.
Finish(r) ==
  /\ owner' = [owner EXCEPT ![r] = "gone"]
  /\ continued' = [continued EXCEPT ![r] = @ + 1]
  /\ entry' = [entry EXCEPT ![r] = NoProvider]
  /\ UNCHANGED asked

\* StopRequest.
StopRequest(r) ==
  Detach(r) /\ waiting' = Detached(r) /\ Finish(r) /\ asking' = NotAsking

\* Mutant: the end of the list is not noticed.
MoveOnUnchecked(r) == Detach(r) /\ Offer(r, Following(entry[r]), Detached(r))
\* IncrementProvider, then SendRequest with the next provider or StopRequest without one.
MoveOn(r) ==
  IF Following(entry[r]) = NoProvider THEN StopRequest(r)
  ELSE Detach(r) /\ Offer(r, Following(entry[r]), Detached(r))
-----------------------------------------------------------------------------
(***************************************************************************)
(* The browser's calls.                                                    *)
(***************************************************************************)
\* RV_CONTINUE without a state when there is no provider to ask.
OnBeforeResourceLoad(r) ==
  /\ Idle /\ manager = "alive" /\ owner[r] = "yet"
  /\ IF NextValid(1) = NoProvider
     THEN owner' = [owner EXCEPT ![r] = "gone"] /\ UNCHANGED <<waiting, entry, continued, asking, asked>>
     ELSE Offer(r, NextValid(1), waiting)
  /\ UNCHANGED <<manager, list, deleting, archiveVars, handlers, removing, ioTasks, added>>

GetResourceHandler(r) ==
  /\ Idle /\ continued[r] > 0 /\ r \in handlers
  /\ handlers' = handlers \ {r}
  /\ UNCHANGED <<manager, owner, entry, continued, providerVars, archiveVars, asking, removing,
                 ioTasks, asked, added>>
-----------------------------------------------------------------------------
(***************************************************************************)
(* OnRequest of the providers.                                             *)
(***************************************************************************)
\* The provider does not handle the request. If it (or a removal) has already taken the state
\* from the Request, the request continues in a task.
OnRequestFalse ==
  /\ asking # NotAsking /\ removing = NotRemoving
  /\ IF HasState(asking.request, asking.provider) THEN MoveOn(asking.request)
     ELSE asking' = NotAsking /\ UNCHANGED <<providerVars, owner, entry, continued, asked>>
  /\ UNCHANGED <<manager, archiveVars, handlers, removing, ioTasks, added>>

\* An application's provider will answer, or has answered.
ApplicationTakes ==
  /\ asking # NotAsking /\ removing = NotRemoving
  /\ asking.provider \in Applications
  /\ asking' = NotAsking
  /\ UNCHANGED <<manager, requestVars, providerVars, archiveVars, removing, ioTasks, asked, added>>

\* DirectoryProvider: OpenOnFileThread is posted.
DirectoryTakes ==
  /\ asking # NotAsking /\ Kind[asking.provider] = "directory"
  /\ fileTasks' = Append(fileTasks, [type |-> "open", request |-> asking.request,
                                     provider |-> asking.provider])
  /\ asking' = NotAsking
  /\ UNCHANGED <<manager, requestVars, providerVars, archive, queued, removing, ioTasks, asked, added>>

\* ArchiveProvider before its archive is loaded: the request is queued, and the first one starts
\* the load.
ArchiveQueues ==
  LET p == asking.provider IN
  /\ asking # NotAsking /\ Kind[p] = "archive" /\ archive[p] \in {"no", "loading"}
  /\ queued' = [queued EXCEPT ![p] = Append(@, asking.request)]
  /\ archive' = [archive EXCEPT ![p] = "loading"]
  /\ fileTasks' = IF archive[p] = "loading" THEN fileTasks
                  ELSE Append(fileTasks, [type |-> "load", request |-> NoRequest, provider |-> p])
  /\ asking' = NotAsking
  /\ UNCHANGED <<manager, requestVars, providerVars, removing, ioTasks, asked, added>>

\* ArchiveProvider afterwards: ContinueRequest finds the file.
ArchiveAnswers ==
  LET p == asking.provider IN
  /\ asking # NotAsking /\ Kind[p] = "archive" /\ archive[p] = "loaded"
  /\ GiveAnswer(asking.request, p, "handled", ioTasks)
  /\ asking' = NotAsking
  /\ UNCHANGED <<manager, entry, continued, handlers, providerVars, archiveVars, removing, asked, added>>
-----------------------------------------------------------------------------
(***************************************************************************)
(* The application.                                                        *)
(***************************************************************************)
\* Request::Continue or Stop on the IO thread, in OnRequest or later.
Answer(r, p, answer) ==
  /\ InApplication /\ <<r, p>> \in asked
  /\ HasState(r, p)
  /\ GiveAnswer(r, p, answer, ioTasks)
  /\ UNCHANGED <<manager, entry, continued, handlers, providerVars, archiveVars, asking, removing,
                 asked, added>>

\* Calls on any other thread post themselves.
Posted == {i \in DOMAIN ioTasks : ioTasks[i].type \in {"call", "add", "remove"}}
Post(task) ==
  /\ Cardinality(Posted) < MaxPosted
  /\ ioTasks' = Append(ioTasks, task)
  /\ UNCHANGED <<manager, requestVars, providerVars, archiveVars, asking, removing, asked>>

PostAnswer(r, p, answer) ==
  /\ <<r, p>> \in asked
  /\ Post([type |-> "call", request |-> r, provider |-> p, answer |-> answer])
  /\ UNCHANGED added

\* Whoever posts a call holds a reference to the manager.
Referenced == manager = "alive" /\ ~removing.last

PostAddProvider(p) ==
  /\ p \notin added /\ Referenced
  /\ Post([type |-> "add", provider |-> p])
  /\ added' = added \cup {p}

\* The providers whose removal is pending, or asked for.
Claimed ==
  deleting \cup removing.selected
    \cup UNION {ioTasks[i].selected : i \in {j \in Posted : ioTasks[j].type = "remove"}}
MayRemove(selected) == RemoveOnce => selected \cap Claimed = {}

PostRemove(selected, answer) ==
  /\ Referenced /\ MayRemove(selected)
  /\ Post([type |-> "remove", selected |-> selected, answer |-> answer])
  /\ UNCHANGED added

\* AddProvider on the IO thread: before the first entry with a higher order.
Insert(p) ==
  LET higher == {i \in DOMAIN list : Order[list[i]] > Order[p]}
      at == IF higher = {} THEN Len(list) + 1 ELSE CHOOSE i \in higher : \A j \in higher : i <= j
  IN list' = SubSeq(list, 1, at - 1) \o <<p>> \o SubSeq(list, at, Len(list))
AddProvider(p) ==
  /\ InApplication /\ manager = "alive" /\ p \notin added
  /\ Insert(p) /\ added' = added \cup {p}
  /\ UNCHANGED <<manager, requestVars, deleting, waiting, archiveVars, asking, removing, ioTasks, asked>>

\* RemoveProviders (whose requests go to the next provider) and RemoveAllProviders (whose requests
\* end), and the destructor's own RemoveAllProviders.
BeginRemove(selected, answer, last) ==
  removing' = [selected |-> selected, at |-> 1, answer |-> answer, last |-> last]
RemoveCall(selected, answer) ==
  /\ InApplication /\ manager = "alive" /\ MayRemove(selected)
  /\ selected \cap Elements(list) # {}
  /\ BeginRemove(selected, answer, FALSE)
  /\ UNCHANGED <<manager, requestVars, providerVars, archiveVars, asking, ioTasks, asked, added>>

\* The last reference to the manager is released; posted calls hold one each.
Destroy ==
  /\ Idle /\ manager = "alive" /\ MayRemove(Providers)
  /\ \A i \in DOMAIN ioTasks : ioTasks[i].type \notin {"add", "remove"}
  /\ BeginRemove(Providers, "stop", TRUE)
  /\ UNCHANGED <<manager, requestVars, providerVars, archiveVars, asking, ioTasks, asked, added>>
-----------------------------------------------------------------------------
(***************************************************************************)
(* The loop of RemoveProviders and RemoveAllProviders, one entry a step.   *)
(***************************************************************************)
At == list[removing.at]
OnEntry == removing # NotRemoving /\ removing.at <= Len(list)
Pass == removing' = [removing EXCEPT !.at = @ + 1]
\* DeleteProvider returns without moving the iterator when the deletion is already pending.
Spinning == OnEntry /\ At \in removing.selected \cap deleting

SkipProvider ==
  /\ OnEntry /\ At \notin removing.selected
  /\ Pass
  /\ UNCHANGED <<manager, requestVars, providerVars, archiveVars, asking, ioTasks, asked, added>>

\* DeleteProvider with requests pending: their states are taken, and the entry waits for them.
DeleteLater ==
  /\ OnEntry /\ At \in removing.selected \ deleting /\ waiting[At] # <<>>
  /\ deleting' = deleting \cup {At}
  /\ GiveEach(waiting[At], At, Elements(waiting[At]), removing.answer, ioTasks)
  /\ Pass
  /\ UNCHANGED <<manager, list, waiting, entry, continued, handlers, archiveVars, asking, asked, added>>

DeleteNow ==
  /\ OnEntry /\ At \in removing.selected \ deleting /\ waiting[At] = <<>>
  /\ list' = Erase(list, At)
  /\ UNCHANGED <<manager, deleting, waiting, requestVars, archiveVars, asking, removing, ioTasks,
                 asked, added>>

\* The loop ends; the destructor deletes what is left, whatever still waits there.
RemoveReturns ==
  /\ removing # NotRemoving /\ removing.at > Len(list)
  /\ removing' = NotRemoving
  /\ IF removing.last
     THEN /\ manager' = "destroyed" /\ list' = <<>> /\ deleting' = {}
          /\ waiting' = [p \in Providers |-> <<>>]
     ELSE UNCHANGED <<manager, providerVars>>
  /\ UNCHANGED <<requestVars, archiveVars, asking, ioTasks, asked, added>>
-----------------------------------------------------------------------------
(***************************************************************************)
(* Tasks.                                                                  *)
(***************************************************************************)
NextTask(type) == Idle /\ ioTasks # <<>> /\ Head(ioTasks).type = type

\* ContinueOnIOThread, StopOnIOThread: ContinueRequest or StopRequest if the manager still lives,
\* else the state is deleted.
RunContinuation ==
  LET t == Head(ioTasks) IN
  /\ NextTask("continuation")
  /\ ioTasks' = Tail(ioTasks)
  /\ IF manager = "destroyed" THEN Finish(t.request) /\ UNCHANGED <<providerVars, asking>>
     ELSE IF t.answer = "next" THEN MoveOn(t.request) ELSE StopRequest(t.request)
  /\ handlers' = IF manager = "alive" /\ t.answer = "handled" THEN handlers \cup {t.request} ELSE handlers
  /\ UNCHANGED <<manager, archiveVars, removing, added>>

\* A call that came from another thread, or from DirectoryProvider::ContinueOpenOnIOThread.
RunCall ==
  LET t == Head(ioTasks) IN
  /\ NextTask("call")
  /\ GiveAnswer(t.request, t.provider, t.answer, Tail(ioTasks))
  /\ UNCHANGED <<manager, entry, continued, handlers, providerVars, archiveVars, asking, removing,
                 asked, added>>

RunAdd ==
  /\ NextTask("add")
  /\ ioTasks' = Tail(ioTasks)
  /\ Insert(Head(ioTasks).provider)
  /\ UNCHANGED <<manager, requestVars, deleting, waiting, archiveVars, asking, removing, asked, added>>

RunRemove ==
  /\ NextTask("remove")
  /\ ioTasks' = Tail(ioTasks)
  /\ IF list = <<>> THEN UNCHANGED removing
     ELSE BeginRemove(Head(ioTasks).selected, Head(ioTasks).answer, FALSE)
  /\ UNCHANGED <<manager, requestVars, providerVars, archiveVars, asking, asked, added>>

\* ArchiveProvider::ContinueOnIOThread, if the provider still exists: the requests whose files
\* are found are continued. Nothing is done for the others.
ContinueQueued(t) ==
  LET p == t.provider IN
  /\ archive' = [archive EXCEPT ![p] = IF t.ok THEN "loaded" ELSE "failed"]
  /\ queued' = [queued EXCEPT ![p] = <<>>]
  /\ \E found \in SUBSET Elements(queued[p]) :
       /\ ~t.ok => found = {}
       /\ ArchivesComplete => found = Elements(queued[p])
       /\ GiveEach(queued[p], p, found, "handled", Tail(ioTasks))
ArchiveLoaded ==
  /\ NextTask("loaded")
  /\ IF Head(ioTasks).provider \in Elements(list) THEN ContinueQueued(Head(ioTasks))
     ELSE ioTasks' = Tail(ioTasks) /\ UNCHANGED <<owner, archive, queued>>
  /\ UNCHANGED <<manager, entry, continued, handlers, providerVars, fileTasks, asking, removing,
                 asked, added>>

\* Mutant: OpenOnFileThread posts nothing when the file cannot be opened.
RunFileTaskOrDrop ==
  LET t == Head(fileTasks) IN
  /\ fileTasks # <<>>
  /\ fileTasks' = Tail(fileTasks)
  /\ \/ ioTasks' = Append(ioTasks,
           IF t.type = "open"
           THEN [type |-> "call", request |-> t.request, provider |-> t.provider, answer |-> "handled"]
           ELSE [type |-> "loaded", provider |-> t.provider, ok |-> TRUE])
     \/ t.type = "open" /\ UNCHANGED ioTasks
  /\ UNCHANGED <<manager, requestVars, providerVars, archive, queued, asking, removing, asked, added>>
\* OpenOnFileThread, LoadOnFileThread: both post their result to the IO thread.
RunFileTask ==
  LET t == Head(fileTasks) IN
  /\ fileTasks # <<>>
  /\ fileTasks' = Tail(fileTasks)
  /\ \/ /\ t.type = "open"
        /\ \E answer \in {"handled", "next"} :
             ioTasks' = Append(ioTasks, [type |-> "call", request |-> t.request,
                                         provider |-> t.provider, answer |-> answer])
     \/ /\ t.type = "load"
        /\ \E ok \in BOOLEAN :
             /\ ArchivesComplete => ok
             /\ ioTasks' = Append(ioTasks, [type |-> "loaded", provider |-> t.provider, ok |-> ok])
  /\ UNCHANGED <<manager, requestVars, providerVars, archive, queued, asking, removing, asked, added>>
-----------------------------------------------------------------------------
OnRequestReturns ==
  OnRequestFalse \/ ApplicationTakes \/ DirectoryTakes \/ ArchiveQueues \/ ArchiveAnswers
RemoveLoop == SkipProvider \/ DeleteLater \/ DeleteNow \/ RemoveReturns
RunIoTask == RunContinuation \/ RunCall \/ RunAdd \/ RunRemove \/ ArchiveLoaded

Application ==
  \/ \E r \in Requests, p \in Providers, answer \in Answers :
       Answer(r, p, answer) \/ PostAnswer(r, p, answer)
  \/ \E p \in Providers : AddProvider(p) \/ PostAddProvider(p)
  \/ \E selected \in Identifiers : RemoveCall(selected, "next") \/ PostRemove(selected, "next")
  \/ RemoveCall(Providers, "stop") \/ PostRemove(Providers, "stop")
  \/ Destroy

Next ==
  \/ \E r \in Requests : OnBeforeResourceLoad(r) \/ GetResourceHandler(r)
  \/ OnRequestReturns \/ RemoveLoop \/ RunIoTask \/ RunFileTask
  \/ Application

Spec == Init /\ [][Next]_vars
-----------------------------------------------------------------------------
\* The state of a request is in one place, so its callback is executed once: in a Request or in
\* one task, or deleted (Request::Continue takes it at once, so later calls and cancellations of
\* the same Request find nothing).
Continuations(r) ==
  Cardinality({i \in DOMAIN ioTasks :
                 ioTasks[i].type = "continuation" /\ ioTasks[i].request = r})
StateInOnePlace ==
  \A r \in Requests :
    /\ Continuations(r) = IF owner[r] = "task" THEN 1 ELSE 0
    /\ continued[r] <= IF owner[r] = "gone" THEN 1 ELSE 0

\* A state's position in the list of providers is valid, and its Request is in that entry's
\* pending list: an entry is not deleted before its last request has left it.
EntryAlive ==
  \A r \in Requests :
    manager = "alive" /\ owner[r] \in {"request", "task"} =>
      entry[r] \in Elements(list) /\ r \in Elements(waiting[entry[r]])

\* A removed provider is deleted in the end: while its deletion is pending it waits for requests
\* whose continuation is on its way, and is deleted with the last.
DeletingWaits ==
  \A p \in deleting :
    /\ p \in Elements(list) /\ waiting[p] # <<>>
    /\ \A i \in DOMAIN waiting[p] : owner[waiting[p][i]] = "task"

\* A request is offered to providers in ascending order, and to none that is being deleted,
\* though providers come and go while it waits.
MovesForward ==
  [][\A r \in Requests :
       entry'[r] # entry[r] /\ entry'[r] # NoProvider =>
         /\ entry'[r] \notin deleting
         /\ entry[r] # NoProvider => Order[entry[r]] <= Order[entry'[r]]]_vars

\* RemoveProviders and RemoveAllProviders reach the end of the list.
RemovalAdvances == ~Spinning

(***************************************************************************)
(* Threads run their tasks and loops, OnRequest returns, and an            *)
(* application's provider that took a request answers it.                  *)
(***************************************************************************)
Fairness ==
  /\ WF_vars(OnRequestReturns) /\ WF_vars(RemoveLoop)
  /\ WF_vars(RunIoTask) /\ WF_vars(RunFileTask)
  /\ SF_vars(Idle /\ \E r \in Requests, p \in Providers, answer \in Answers : Answer(r, p, answer))
FairSpec == Spec /\ Fairness

\* Every request the manager took over from the browser is continued.
EveryRequestContinues ==
  \A r \in Requests : owner[r] = "request" ~> owner[r] = "gone"
=============================================================================
