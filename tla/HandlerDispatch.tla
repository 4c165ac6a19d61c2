-------------------------- MODULE HandlerDispatch --------------------------
(***************************************************************************)
(* The browser-side router's calls into the application, which may call    *)
(* back: handlers are asked one by one (Handler::OnQuery), and are told of *)
(* canceled queries while the router iterates over its map of queries      *)
(* (Handler::OnQueryCanceled). In MessageRouter each of these is one step; *)
(* here the application's code inside them runs too. All of it is on the   *)
(* UI thread.                                                              *)
(*   src/cef3/libcef_dll/wrapper/cef_message_router.cc                     *)
(*   src/cef3/libcef_dll/wrapper/cef_browser_info_map.h                    *)
(***************************************************************************)
EXTENDS Integers, Sequences, FiniteSets

CONSTANTS
  Handlers,
  Address,            \* the handlers' pointer values, by which std::set orders them
  NoHandler,
  MaxQueries,         \* bound: queries offered
  MaxVisits           \* bound: iterations in progress, one inside the other

ASSUME DispatchAssumption ==
  /\ Address \in [Handlers -> Nat]
  /\ \A g, h \in Handlers : g # h => Address[g] # Address[h]
  /\ NoHandler \notin Handlers
  /\ MaxQueries \in Nat /\ MaxVisits \in Nat

VARIABLES
  handler_set,  \* handler_set_
  documented,   \* history: <<g, h>> if AddHandler's documentation has g asked before h
  queries,      \* browser_query_info_map_: each pending query's handler, by query id
  asking,       \* the handler OnQuery is executing in
  offered,      \* the handlers of the copied set that have not been asked yet
  visits,       \* the FindAll iterations in progress, the innermost last
  told,         \* history: how often OnQueryCanceled was called for each query
  late,         \* history: the queries a handler took that had been removed while it was asked
  next          \* query_id_generator_

vars == <<handler_set, documented, queries, asking, offered, visits, told, late, next>>

QueryId == 1..MaxQueries
Visit == [handlers: SUBSET Handlers, last: 0..MaxQueries, at: 0..MaxQueries]

TypeOK ==
  /\ handler_set \subseteq Handlers
  /\ documented \subseteq handler_set \X handler_set
  /\ DOMAIN queries \subseteq QueryId /\ \A q \in DOMAIN queries : queries[q] \in Handlers
  /\ asking \in Handlers \cup {NoHandler}
  /\ offered \subseteq Handlers /\ (asking = NoHandler => offered = {})
  /\ visits \in Seq(Visit)
  /\ told \in [QueryId -> Nat] /\ late \subseteq QueryId
  /\ next \in 0..MaxQueries

Init ==
  /\ handler_set = {} /\ documented = {}
  /\ queries = [q \in {} |-> NoHandler]
  /\ asking = NoHandler /\ offered = {}
  /\ visits = <<>> /\ told = [q \in QueryId |-> 0] /\ late = {} /\ next = 0

\* begin() of an ordered set of pointers; a |first| or last hint does not move an element.
First(S) == CHOOSE h \in S : \A g \in S : Address[h] <= Address[g]

\* The iterator of an outer FindAll points to an entry an inner one erased: what the program
\* does from here on is undefined, and the model ends.
Dangling == \E i \in DOMAIN visits : visits[i].at # 0 /\ visits[i].at \notin DOMAIN queries

Top == visits[Len(visits)]
Between == visits # <<>> /\ Top.at = 0    \* FindAll is about to look at the next entry
\* The application's code is running: at top level, in OnQuery or in OnQueryCanceled.
InApplication == ~Dangling /\ ~Between

\* CancelPendingFor(NULL, handler): nothing to visit in an empty map.
CancelPendingFor(hs) ==
  /\ Len(visits) < MaxVisits
  /\ visits' = IF DOMAIN queries = {} THEN visits
               ELSE Append(visits, [handlers |-> hs, last |-> 0, at |-> 0])

AddHandler(h, first) ==
  /\ InApplication
  /\ h \notin handler_set
  /\ handler_set' = handler_set \cup {h}
  /\ documented' = documented \cup {IF first THEN <<h, g>> ELSE <<g, h>> : g \in handler_set}
  /\ UNCHANGED <<queries, asking, offered, visits, told, late, next>>

\* Mutant: removing a handler leaves its queries.
RemoveHandlerOnly(h) ==
  /\ InApplication /\ h \in handler_set
  /\ handler_set' = handler_set \ {h}
  /\ documented' = documented \cap (handler_set' \X handler_set')
  /\ UNCHANGED <<queries, asking, offered, visits, told, late, next>>
\* Mutant: the handler's queries are erased from the map without a visit.
RemoveHandlerErasing(h) ==
  /\ InApplication /\ h \in handler_set
  /\ handler_set' = handler_set \ {h}
  /\ documented' = documented \cap (handler_set' \X handler_set')
  /\ queries' = [q \in {p \in DOMAIN queries : queries[p] # h} |-> queries[q]]
  /\ UNCHANGED <<asking, offered, visits, told, late, next>>
RemoveHandler(h) ==
  /\ InApplication
  /\ h \in handler_set
  /\ handler_set' = handler_set \ {h}
  /\ documented' = documented \cap (handler_set' \X handler_set')
  /\ CancelPendingFor({h})
  /\ UNCHANGED <<queries, asking, offered, told, late, next>>

CancelPending(hs) ==
  /\ InApplication
  /\ CancelPendingFor(hs)
  /\ UNCHANGED <<handler_set, documented, queries, asking, offered, told, late, next>>

\* A query arrives: the handlers are copied and the first of the copy is asked.
QueryReceived ==
  /\ asking = NoHandler /\ visits = <<>>
  /\ handler_set # {} /\ next < MaxQueries
  /\ next' = next + 1
  /\ asking' = First(handler_set)
  /\ offered' = handler_set \ {First(handler_set)}
  /\ UNCHANGED <<handler_set, documented, queries, visits, told, late>>

\* Mutant: the iteration goes on over the set of handlers after one of them took the query.
HandledAndOffered ==
  /\ asking # NoHandler /\ visits = <<>>
  /\ queries' = [q \in DOMAIN queries \cup {next} |-> IF q = next THEN asking ELSE queries[q]]
  /\ asking' = NoHandler
  /\ UNCHANGED <<handler_set, documented, offered, visits, told, late, next>>
\* OnQuery returns true: the query is pending with the handler that was asked, whether or not
\* the copied handler is still in the set.
Handled ==
  /\ asking # NoHandler /\ visits = <<>>
  /\ queries' = [q \in DOMAIN queries \cup {next} |-> IF q = next THEN asking ELSE queries[q]]
  /\ asking' = NoHandler /\ offered' = {}
  /\ late' = IF asking \in handler_set THEN late ELSE late \cup {next}
  /\ UNCHANGED <<handler_set, documented, visits, told, next>>

\* OnQuery returns false: the next handler of the copy is asked, if there is one.
NotHandled ==
  /\ asking # NoHandler /\ visits = <<>>
  /\ asking' = IF offered = {} THEN NoHandler ELSE First(offered)
  /\ offered' = offered \ {asking'}
  /\ UNCHANGED <<handler_set, documented, queries, visits, told, late, next>>

\* Mutant: the entry after an erased one is skipped.
AheadSkipping == {q \in DOMAIN queries : q > Top.last + 1 /\ queries[q] \in Top.handlers}
\* The entries FindAll has yet to reach that the visitor cancels.
Ahead == {q \in DOMAIN queries : q > Top.last /\ queries[q] \in Top.handlers}

\* FindAll reaches the next of them: CancelQuery calls OnQueryCanceled.
VisitNext ==
  /\ Between /\ ~Dangling
  /\ \E q \in Ahead :
       /\ \A r \in Ahead : q <= r
       /\ visits' = [visits EXCEPT ![Len(visits)].at = q]
       /\ told' = [told EXCEPT ![q] = @ + 1]
  /\ UNCHANGED <<handler_set, documented, queries, asking, offered, late, next>>

\* Mutant: the entry of a query that was canceled stays in the map.
VisitDoneKeeping ==
  /\ visits # <<>> /\ Top.at # 0 /\ ~Dangling
  /\ visits' = [visits EXCEPT ![Len(visits)].last = Top.at, ![Len(visits)].at = 0]
  /\ UNCHANGED <<handler_set, documented, queries, asking, offered, told, late, next>>
\* OnQueryCanceled returns: the entry is deleted and erased.
VisitDone ==
  /\ visits # <<>> /\ Top.at # 0 /\ ~Dangling
  /\ queries' = [q \in DOMAIN queries \ {Top.at} |-> queries[q]]
  /\ visits' = [visits EXCEPT ![Len(visits)].last = Top.at, ![Len(visits)].at = 0]
  /\ UNCHANGED <<handler_set, documented, asking, offered, told, late, next>>

FindAllReturns ==
  /\ Between /\ ~Dangling /\ Ahead = {}
  /\ visits' = SubSeq(visits, 1, Len(visits) - 1)
  /\ UNCHANGED <<handler_set, documented, queries, asking, offered, told, late, next>>

Next ==
  \/ \E h \in Handlers : RemoveHandler(h) \/ \E first \in BOOLEAN : AddHandler(h, first)
  \/ \E hs \in {{h} : h \in Handlers} \cup {Handlers} : CancelPending(hs)
  \/ QueryReceived \/ Handled \/ NotHandled
  \/ VisitNext \/ VisitDone \/ FindAllReturns

Spec == Init /\ [][Next]_vars
-----------------------------------------------------------------------------
\* A canceled query's handler is told once (the map's visitor is "called once for each info
\* object", cef_browser_info_map.h:35), however removals and cancellations nest; only from inside
\* OnQueryCanceled for that very query can the application have it told again.
ToldAgainOnlyInside ==
  \A q \in QueryId : told[q] > 1 => \E i \in DOMAIN visits : visits[i].at = q

\* The entry an iteration stands on is erased under it only if the query was told again: an
\* OnQueryCanceled may cancel any other query, of this handler or of another, and the iterations
\* it was called from go on.
IteratorsValid ==
  \A i \in DOMAIN visits :
    visits[i].at # 0 /\ visits[i].at \notin DOMAIN queries => told[visits[i].at] > 1

\* Outside the router's own iterations, a pending query belongs to a registered handler, or to
\* one that was removed while the query was offered and took it all the same: "Any pending
\* queries associated with the handler will be canceled" (cef_message_router.h) holds of the
\* queries the handler had by then.
PendingRegistered ==
  visits = <<>> => \A q \in DOMAIN queries : queries[q] \in handler_set \/ q \in late

\* A cancellation reaches every pending query it is for: when an iteration ends, the map holds
\* none of a handler it visited, whatever was erased under its iterator.
CancelComplete ==
  [][Len(visits') < Len(visits) => \A q \in DOMAIN queries : queries[q] \notin Top.handlers]_vars

\* A handler is asked before those the documentation places behind it: "If |first| is true it
\* will be added as the first handler, otherwise it will be added as the last handler".
DocumentedOrder ==
  asking # NoHandler => \A h \in offered : <<h, asking>> \notin documented
=============================================================================
