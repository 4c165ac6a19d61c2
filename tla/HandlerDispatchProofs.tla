----------------------- MODULE HandlerDispatchProofs -----------------------
(***************************************************************************)
(* Proofs about HandlerDispatch, for any set of handlers in any order of   *)
(* addresses, any number of queries, and iterations nested to any depth.   *)
(***************************************************************************)
EXTENDS HandlerDispatch, WellFoundedInduction, TLAPS

\* begin() of a set of handlers that is not empty is one of them: addresses are natural numbers,
\* so one of them is the lowest, even if there were infinitely many.
LEMMA FirstChosen ==
  ASSUME NEW S \in SUBSET Handlers, S # {}
  PROVE  First(S) \in S
<1> DEFINE R == OpToRel(<, Nat)
           A == {Address[h] : h \in S}
<1>1. A \subseteq Nat /\ A # {} BY DispatchAssumption
<1>2. IsWellFoundedOn(R, Nat) BY NatLessThanWellFounded
<1> HIDE DEF R
<1>3. \E a \in A : \A b \in A : <<b, a>> \notin R BY <1>1, <1>2, WFMin
<1>4. \A a, b \in Nat : <<b, a>> \notin R => a <= b BY DEF R, OpToRel
<1>5. \E h \in S : \A g \in S : Address[h] <= Address[g]
  <2>1. PICK a \in A : \A b \in A : <<b, a>> \notin R BY <1>3
  <2>2. PICK h \in S : a = Address[h] BY <2>1
  <2> QED BY <1>1, <1>4, <2>1, <2>2
<1> QED BY <1>5 DEF First

\* The innermost iteration is one of the stack.
LEMMA TopVisit ==
  ASSUME TypeOK, visits # <<>>
  PROVE  /\ Len(visits) \in DOMAIN visits /\ Len(visits) \in Nat \ {0}
         /\ Top = visits[Len(visits)] /\ Top \in Visit
BY DEF TypeOK, Top

\* A cancellation leaves the stack alone or puts an iteration that has seen nothing on it.
LEMMA CancelPushes ==
  ASSUME TypeOK, NEW hs \in SUBSET Handlers, CancelPendingFor(hs)
  PROVE  /\ visits' \in Seq(Visit)
         /\ \/ visits' = visits /\ DOMAIN queries = {}
            \/ visits' = Append(visits, [handlers |-> hs, last |-> 0, at |-> 0])
<1>1. visits \in Seq(Visit) BY DEF TypeOK
<1>2. [handlers |-> hs, last |-> 0, at |-> 0] \in Visit BY DispatchAssumption DEF Visit
<1> QED BY <1>1, <1>2 DEF CancelPendingFor

\* The sets of handlers that cancellations are for.
LEMMA CanceledHandlers ==
  \A hs \in {{h} : h \in Handlers} \cup {Handlers} : hs \in SUBSET Handlers
OBVIOUS
-----------------------------------------------------------------------------
(***************************************************************************)
(* Types, and the numbering of queries.                                    *)
(***************************************************************************)
\* A pending query's id was given out, and the query that handlers are being asked about is not
\* pending yet.
Numbered ==
  /\ \A q \in DOMAIN queries : q <= next
  /\ asking # NoHandler => next \in QueryId /\ next \notin DOMAIN queries

\* Init establishes the types.
LEMMA InitType == Init => TypeOK /\ Numbered
BY DispatchAssumption DEF Init, TypeOK, Numbered, QueryId

\* Every step keeps the types and the numbering.
LEMMA NextType == TypeOK /\ Numbered /\ [Next]_vars => TypeOK' /\ Numbered'
<1> SUFFICES ASSUME TypeOK, Numbered, [Next]_vars PROVE TypeOK' /\ Numbered' OBVIOUS
<1>0. MaxQueries \in Nat /\ next \in 0..MaxQueries /\ NoHandler \notin Handlers
  BY DispatchAssumption DEF TypeOK
<1>1. ASSUME NEW h \in Handlers, RemoveHandler(h) PROVE TypeOK' /\ Numbered'
  <2>1. visits' \in Seq(Visit) BY <1>1, CancelPushes DEF RemoveHandler
  <2>2. handler_set' \subseteq Handlers /\ documented' \subseteq handler_set' \X handler_set'
    BY <1>1 DEF RemoveHandler, TypeOK
  <2> QED BY <1>1, <2>1, <2>2 DEF RemoveHandler, TypeOK, Numbered
<1>2. ASSUME NEW h \in Handlers, NEW first \in BOOLEAN, AddHandler(h, first)
      PROVE  TypeOK' /\ Numbered'
  <2>1. handler_set' \subseteq Handlers /\ documented' \subseteq handler_set' \X handler_set'
    BY <1>2 DEF AddHandler, TypeOK
  <2> QED BY <1>2, <2>1 DEF AddHandler, TypeOK, Numbered
<1>3. ASSUME NEW hs \in SUBSET Handlers, CancelPending(hs) PROVE TypeOK' /\ Numbered'
  <2>1. visits' \in Seq(Visit) BY <1>3, CancelPushes DEF CancelPending
  <2> QED BY <1>3, <2>1 DEF CancelPending, TypeOK, Numbered
<1>4. CASE QueryReceived
  <2>1. First(handler_set) \in Handlers BY <1>4, FirstChosen DEF QueryReceived, TypeOK
  <2>2. next' \in QueryId /\ next' = next + 1 BY <1>0, <1>4 DEF QueryReceived, QueryId
  <2> QED BY <1>0, <1>4, <2>1, <2>2 DEF QueryReceived, TypeOK, Numbered, QueryId
<1>5. CASE Handled
  <2>1. asking \in Handlers /\ next \in QueryId BY <1>5 DEF Handled, TypeOK, Numbered
  <2>2. DOMAIN queries' = DOMAIN queries \cup {next} BY <1>5 DEF Handled
  <2>3. \A q \in DOMAIN queries' : queries'[q] \in Handlers BY <1>5, <2>1 DEF Handled, TypeOK
  <2> QED BY <1>0, <1>5, <2>1, <2>2, <2>3 DEF Handled, TypeOK, Numbered
<1>6. CASE NotHandled
  <2>1. asking' \in offered \cup {NoHandler} /\ (asking' = NoHandler => offered' = {})
    BY <1>0, <1>6, FirstChosen DEF NotHandled, TypeOK
  <2>2. offered' \subseteq offered /\ asking # NoHandler
        /\ UNCHANGED <<handler_set, documented, queries, visits, told, late, next>>
    BY <1>6 DEF NotHandled
  <2> QED BY <2>1, <2>2 DEF TypeOK, Numbered
<1>7. CASE VisitNext
  <2>1. PICK q \in Ahead : /\ visits' = [visits EXCEPT ![Len(visits)].at = q]
                           /\ told' = [told EXCEPT ![q] = @ + 1]
    BY <1>7 DEF VisitNext
  <2>2. q \in QueryId /\ q \in 0..MaxQueries BY <1>0, <2>1 DEF Ahead, TypeOK, QueryId
  <2>3. visits # <<>> BY <1>7 DEF VisitNext, Between
  <2>4. [visits[Len(visits)] EXCEPT !.at = q] \in Visit BY <2>2, <2>3, TopVisit DEF Visit
  <2>5. visits' \in Seq(Visit) BY <2>1, <2>3, <2>4, TopVisit DEF TypeOK
  <2>6. told' \in [QueryId -> Nat] BY <2>1, <2>2 DEF TypeOK
  <2> QED BY <1>7, <2>5, <2>6 DEF VisitNext, TypeOK, Numbered
<1>8. CASE VisitDone
  <2> DEFINE v == visits[Len(visits)]
  <2>1. visits # <<>> /\ v \in Visit /\ Top = v BY <1>8, TopVisit DEF VisitDone
  <2>2. visits' = [visits EXCEPT ![Len(visits)] = [v EXCEPT !.last = v.at, !.at = 0]]
    BY <1>8, <2>1 DEF VisitDone, Visit
  <2>3. [v EXCEPT !.last = v.at, !.at = 0] \in Visit
    <3>1. v.at \in 0..MaxQueries /\ 0 \in 0..MaxQueries BY <1>0, <2>1 DEF Visit
    <3> HIDE DEF v
    <3> QED BY <2>1, <3>1 DEF Visit
  <2> HIDE DEF v
  <2>4. visits' \in Seq(Visit) BY <2>1, <2>2, <2>3, TopVisit DEF TypeOK
  <2>5. /\ DOMAIN queries' \subseteq DOMAIN queries
        /\ \A q \in DOMAIN queries' : queries'[q] = queries[q]
    BY <1>8 DEF VisitDone
  <2> QED BY <1>8, <2>4, <2>5 DEF VisitDone, TypeOK, Numbered
<1>9. CASE FindAllReturns
  <2>1. visits' \in Seq(Visit)
    BY <1>9, TopVisit DEF FindAllReturns, Between, TypeOK
  <2> QED BY <1>9, <2>1 DEF FindAllReturns, TypeOK, Numbered
<1>10. CASE UNCHANGED vars BY <1>10 DEF vars, TypeOK, Numbered
<1> QED
  BY <1>1, <1>2, <1>3, <1>4, <1>5, <1>6, <1>7, <1>8, <1>9, <1>10, CanceledHandlers DEF Next

\* Every variable keeps its type: a handler taken from the front of a set is one of that set, and
\* iterations stand on ids that were given out.
THEOREM TypeCorrect == Spec => []TypeOK
<1>1. Init => TypeOK /\ Numbered BY InitType
<1>2. (TypeOK /\ Numbered) /\ [Next]_vars => (TypeOK /\ Numbered)' BY NextType
<1> QED BY <1>1, <1>2, PTL DEF Spec
-----------------------------------------------------------------------------
(***************************************************************************)
(* Cancellations and removals, nested as the application nests them.       *)
(***************************************************************************)
\* No iteration has passed a pending query it is for: what is left for it lies at its iterator or
\* ahead of it, since queries are only added when no iteration is in progress.
Walks ==
  \A i \in DOMAIN visits, q \in DOMAIN queries :
    queries[q] \in visits[i].handlers => visits[i].last < q /\ visits[i].at <= q

\* A pending query belongs to a handler that is registered, or one that was removed while it was
\* asked, or an iteration that will cancel it is in progress.
Owned ==
  \A q \in DOMAIN queries :
    \/ queries[q] \in handler_set
    \/ q \in late
    \/ \E i \in DOMAIN visits : queries[q] \in visits[i].handlers

At(q) == {i \in DOMAIN visits : visits[i].at = q}

\* A handler has been told of a query as often as iterations stand on the query: not at all if
\* none does, once at least if one does, more than once if several do. Once the entry is erased
\* the same is true one lower: what still stands on it is dangling.
Counted(q) ==
  /\ q > next \/ (q = next /\ asking # NoHandler) => told[q] = 0
  /\ q \in DOMAIN queries =>
       /\ At(q) = {} => told[q] = 0
       /\ At(q) # {} => told[q] >= 1
       /\ told[q] > 1 <=> \E i, j \in At(q) : i # j
  /\ q \notin DOMAIN queries => (told[q] > 1 <=> At(q) # {})
Told == \A q \in QueryId : Counted(q)

\* What a cancellation does to the stack, position by position.
LEMMA PushedVisits ==
  ASSUME TypeOK, NEW hs \in SUBSET Handlers, CancelPendingFor(hs)
  PROVE  /\ DOMAIN visits \subseteq DOMAIN visits'
         /\ \A i \in DOMAIN visits : visits'[i] = visits[i]
         /\ \A i \in DOMAIN visits' \ DOMAIN visits :
              visits'[i] = [handlers |-> hs, last |-> 0, at |-> 0]
         /\ DOMAIN queries # {} => \E i \in DOMAIN visits' : visits'[i].handlers = hs
<1>1. visits \in Seq(Visit) BY DEF TypeOK
<1>2. CASE DOMAIN queries = {} BY <1>1, <1>2 DEF CancelPendingFor
<1>3. CASE DOMAIN queries # {}
  <2>1. visits' = Append(visits, [handlers |-> hs, last |-> 0, at |-> 0])
    BY <1>3 DEF CancelPendingFor
  <2>2. /\ DOMAIN visits = 1..Len(visits) /\ DOMAIN visits' = 1..(Len(visits) + 1)
        /\ \A i \in 1..Len(visits) : visits'[i] = visits[i]
        /\ visits'[Len(visits) + 1] = [handlers |-> hs, last |-> 0, at |-> 0]
    BY <1>1, <2>1
  <2> QED BY <1>1, <2>2
<1> QED BY <1>2, <1>3

\* Looking at the next entry moves the innermost iteration onto the first of those ahead of it.
LEMMA NextVisits ==
  ASSUME TypeOK, VisitNext
  PROVE  \E q \in Ahead :
           /\ \A r \in Ahead : q <= r
           /\ DOMAIN visits' = DOMAIN visits
           /\ \A i \in DOMAIN visits :
                visits'[i] = IF i = Len(visits) THEN [Top EXCEPT !.at = q] ELSE visits[i]
           /\ told' = [told EXCEPT ![q] = @ + 1]
<1>1. PICK q \in Ahead : /\ \A r \in Ahead : q <= r
                         /\ visits' = [visits EXCEPT ![Len(visits)].at = q]
                         /\ told' = [told EXCEPT ![q] = @ + 1]
  BY DEF VisitNext
<1>2. visits # <<>> BY DEF VisitNext, Between
<1> QED BY <1>1, <1>2, TopVisit

\* Once the entry is erased, the innermost iteration stands behind it.
LEMMA DoneVisits ==
  ASSUME TypeOK, VisitDone
  PROVE  /\ visits # <<>> /\ DOMAIN visits' = DOMAIN visits
         /\ \A i \in DOMAIN visits :
              visits'[i] = IF i = Len(visits) THEN [Top EXCEPT !.last = Top.at, !.at = 0]
                           ELSE visits[i]
         /\ DOMAIN queries' = DOMAIN queries \ {Top.at}
         /\ \A q \in DOMAIN queries' : queries'[q] = queries[q]
<1>1. visits # <<>> /\ visits' = [visits EXCEPT ![Len(visits)].last = Top.at, ![Len(visits)].at = 0]
  BY DEF VisitDone
<1>2. Len(visits) \in DOMAIN visits /\ Top = visits[Len(visits)] /\ Top \in Visit
  BY <1>1, TopVisit
<1>3. visits' = [visits EXCEPT ![Len(visits)] = [Top EXCEPT !.last = Top.at, !.at = 0]]
  BY <1>1, <1>2 DEF Visit
<1> QED BY <1>1, <1>2, <1>3 DEF VisitDone

\* An iteration returns when nothing is ahead of it, and the one around it goes on.
LEMMA ReturnVisits ==
  ASSUME TypeOK, FindAllReturns
  PROVE  /\ visits # <<>> /\ DOMAIN visits' = DOMAIN visits \ {Len(visits)}
         /\ \A i \in DOMAIN visits' : visits'[i] = visits[i]
BY TopVisit DEF FindAllReturns, Between, TypeOK

\* A pending query that the innermost iteration is for lies ahead of it.
LEMMA NoneBehind ==
  ASSUME TypeOK, Walks, visits # <<>>,
         NEW q \in DOMAIN queries, queries[q] \in Top.handlers
  PROVE  q \in Ahead
BY TopVisit DEF Walks, Ahead

\* Every step keeps the iterations before what is left for them.
LEMMA NextWalks == TypeOK /\ Walks /\ [Next]_vars => Walks'
<1> SUFFICES ASSUME TypeOK, Walks, [Next]_vars PROVE Walks' OBVIOUS
<1>0. \A q \in DOMAIN queries : q \in Nat /\ q > 0 BY DispatchAssumption DEF TypeOK, QueryId
<1>1. ASSUME NEW hs \in SUBSET Handlers, CancelPendingFor(hs), queries' = queries PROVE Walks'
  <2> SUFFICES ASSUME NEW i \in DOMAIN visits', NEW q \in DOMAIN queries,
                      queries[q] \in visits'[i].handlers
               PROVE  visits'[i].last < q /\ visits'[i].at <= q
    BY <1>1 DEF Walks
  <2>1. CASE i \in DOMAIN visits BY <1>1, <2>1, PushedVisits DEF Walks
  <2>2. CASE i \notin DOMAIN visits
    <3>1. visits'[i] = [handlers |-> hs, last |-> 0, at |-> 0] BY <1>1, <2>2, PushedVisits
    <3> QED BY <1>0, <3>1
  <2> QED BY <2>1, <2>2
<1>2. CASE Handled
  <2>1. DOMAIN visits' = {} BY <1>2 DEF Handled
  <2> QED BY <2>1 DEF Walks
<1>3. CASE VisitNext
  <2>1. PICK p \in Ahead :
          /\ \A r \in Ahead : p <= r
          /\ DOMAIN visits' = DOMAIN visits
          /\ \A i \in DOMAIN visits :
               visits'[i] = IF i = Len(visits) THEN [Top EXCEPT !.at = p] ELSE visits[i]
    BY <1>3, NextVisits
  <2>2. queries' = queries /\ visits # <<>> BY <1>3 DEF VisitNext, Between
  <2> SUFFICES ASSUME NEW i \in DOMAIN visits, NEW q \in DOMAIN queries,
                      queries[q] \in visits'[i].handlers
               PROVE  visits'[i].last < q /\ visits'[i].at <= q
    BY <2>1, <2>2 DEF Walks
  <2>3. CASE i = Len(visits)
    <3>1. visits'[i] = [Top EXCEPT !.at = p] /\ Top = visits[i] /\ Top \in Visit
      BY <2>1, <2>2, <2>3, TopVisit
    <3>2. /\ visits'[i].handlers = Top.handlers /\ visits'[i].last = Top.last
          /\ visits'[i].at = p
      BY <3>1 DEF Visit
    <3>3. q \in Ahead BY <2>2, <3>2, NoneBehind
    <3> QED BY <2>1, <3>2, <3>3 DEF Ahead
  <2>4. CASE i # Len(visits) BY <2>1, <2>4 DEF Walks
  <2> QED BY <2>3, <2>4
<1>4. CASE VisitDone
  <2> SUFFICES ASSUME NEW i \in DOMAIN visits, NEW q \in DOMAIN queries', 
                      queries'[q] \in visits'[i].handlers
               PROVE  visits'[i].last < q /\ visits'[i].at <= q
    BY <1>4, DoneVisits DEF Walks
  <2>1. q \in DOMAIN queries /\ q # Top.at /\ queries'[q] = queries[q] BY <1>4, DoneVisits
  <2>2. CASE i = Len(visits)
    <3>1. /\ visits'[i] = [Top EXCEPT !.last = Top.at, !.at = 0]
          /\ Top = visits[i] /\ Top \in Visit
      BY <1>4, <2>2, DoneVisits, TopVisit
    <3>2. /\ visits'[i].handlers = Top.handlers /\ visits'[i].last = Top.at
          /\ visits'[i].at = 0 /\ Top.at \in Int
      BY <3>1 DEF Visit
    <3>3. Top.at <= q BY <2>1, <3>1, <3>2 DEF Walks
    <3> QED BY <1>0, <2>1, <3>2, <3>3
  <2>3. CASE i # Len(visits) BY <1>4, <2>1, <2>3, DoneVisits DEF Walks
  <2> QED BY <2>2, <2>3
<1>5. CASE FindAllReturns BY <1>5, ReturnVisits DEF FindAllReturns, Walks
<1>6. CASE UNCHANGED <<visits, queries>> BY <1>6 DEF Walks
<1>7. ASSUME NEW h \in Handlers, RemoveHandler(h) PROVE Walks'
  BY <1>1, <1>7 DEF RemoveHandler
<1>8. ASSUME NEW hs \in SUBSET Handlers, CancelPending(hs) PROVE Walks'
  BY <1>1, <1>8 DEF CancelPending
<1> QED
  BY <1>2, <1>3, <1>4, <1>5, <1>6, <1>7, <1>8, CanceledHandlers
  DEF Next, AddHandler, QueryReceived, NotHandled, vars

\* No iteration is in progress to begin with.
LEMMA InitWalks == Init => Walks
BY DEF Init, Walks

\* Types and iterations, in every reachable state.
LEMMA WalksKept == Spec => [](TypeOK /\ Walks)
<1>1. Init => TypeOK /\ Numbered /\ Walks BY InitType, InitWalks
<1>2. (TypeOK /\ Numbered /\ Walks) /\ [Next]_vars => (TypeOK /\ Numbered /\ Walks)'
  BY NextType, NextWalks
<1> QED BY <1>1, <1>2, PTL DEF Spec

\* An iteration that ends leaves none of the queries it is for, however the application nests
\* removals and cancellations in it: only the last step of an iteration shortens the stack, and
\* what is left would lie ahead of it.
THEOREM CancellationCompletes == Spec => CancelComplete
<1> DEFINE Complete ==
             Len(visits') < Len(visits) => \A q \in DOMAIN queries : queries[q] \notin Top.handlers
<1>1. ASSUME TypeOK, Walks, [Next]_vars PROVE [Complete]_vars
  <2> SUFFICES ASSUME Len(visits') < Len(visits)
               PROVE  \A q \in DOMAIN queries : queries[q] \notin Top.handlers
    OBVIOUS
  <2>1. visits \in Seq(Visit) BY <1>1 DEF TypeOK
  <2>2. ASSUME NEW hs \in SUBSET Handlers, CancelPendingFor(hs) PROVE FALSE
    BY <1>1, <2>1, <2>2 DEF CancelPendingFor
  <2>3. visits' # visits BY <2>1
  <2>4. ~VisitNext BY <2>1 DEF VisitNext
  <2>5. ~VisitDone BY <2>1 DEF VisitDone
  <2>6. FindAllReturns
    BY <1>1, <2>2, <2>3, <2>4, <2>5, CanceledHandlers
    DEF Next, vars, RemoveHandler, AddHandler, CancelPending, QueryReceived, Handled, NotHandled
  <2>7. visits # <<>> /\ Ahead = {} BY <2>6 DEF FindAllReturns, Between
  <2> QED BY <1>1, <2>7, NoneBehind
<1> QED BY <1>1, WalksKept, PTL DEF Spec, CancelComplete
-----------------------------------------------------------------------------
(***************************************************************************)
(* Who a pending query belongs to.                                         *)
(***************************************************************************)
\* Nothing is pending or asked to begin with.
LEMMA InitOwned == Init => Owned
BY DEF Init, Owned

\* Every step keeps each pending query with its handler, with the removal it escaped, or with an
\* iteration that will cancel it.
LEMMA NextOwned == TypeOK /\ Walks /\ Owned /\ [Next]_vars => Owned'
<1> SUFFICES ASSUME TypeOK, Walks, Owned, [Next]_vars PROVE Owned' OBVIOUS
<1>1. ASSUME NEW h \in Handlers, RemoveHandler(h) PROVE Owned'
  <2>1. /\ handler_set' = handler_set \ {h}
        /\ CancelPendingFor({h}) /\ UNCHANGED <<queries, late>>
    BY <1>1 DEF RemoveHandler
  <2>2. ASSUME NEW q \in DOMAIN queries
        PROVE  \/ queries[q] \in handler_set'
               \/ q \in late'
               \/ \E i \in DOMAIN visits' : queries[q] \in visits'[i].handlers
    <3>1. CASE queries[q] = h
      <4>1. PICK i \in DOMAIN visits' : visits'[i].handlers = {h} BY <2>1, PushedVisits
      <4> QED BY <3>1, <4>1
    <3>2. CASE queries[q] # h /\ queries[q] \in handler_set BY <2>1, <3>2
    <3>3. CASE \E i \in DOMAIN visits : queries[q] \in visits[i].handlers
      BY <2>1, <3>3, PushedVisits
    <3>4. CASE q \in late BY <2>1, <3>4
    <3> QED BY <3>1, <3>2, <3>3, <3>4 DEF Owned
  <2> QED BY <2>1, <2>2 DEF Owned
<1>2. ASSUME NEW h \in Handlers, NEW first \in BOOLEAN, AddHandler(h, first) PROVE Owned'
  BY <1>2 DEF AddHandler, Owned
<1>3. ASSUME NEW hs \in SUBSET Handlers, CancelPending(hs) PROVE Owned'
  BY <1>3, PushedVisits DEF CancelPending, Owned
<1>4. CASE Handled
  <2>1. DOMAIN visits = {} /\ UNCHANGED <<handler_set, visits>> BY <1>4 DEF Handled
  <2>2. ASSUME NEW q \in DOMAIN queries' PROVE queries'[q] \in handler_set \/ q \in late'
    BY <1>4, <2>1, <2>2 DEF Handled, Owned
  <2> QED BY <2>1, <2>2 DEF Owned
<1>5. CASE VisitNext
  <2>1. PICK p \in Ahead :
          /\ DOMAIN visits' = DOMAIN visits
          /\ \A i \in DOMAIN visits :
               visits'[i] = IF i = Len(visits) THEN [Top EXCEPT !.at = p] ELSE visits[i]
    BY <1>5, NextVisits
  <2>2. UNCHANGED <<handler_set, queries, late>> /\ visits # <<>>
    BY <1>5 DEF VisitNext, Between
  <2>3. \A i \in DOMAIN visits : visits'[i].handlers = visits[i].handlers
    BY <2>1, <2>2, TopVisit DEF Visit
  <2> QED BY <2>1, <2>2, <2>3 DEF Owned
<1>6. CASE VisitDone
  <2>1. ASSUME NEW i \in DOMAIN visits PROVE visits'[i].handlers = visits[i].handlers
    <3>1. CASE i = Len(visits)
      <4>1. visits'[i] = [Top EXCEPT !.last = Top.at, !.at = 0] /\ Top = visits[i] /\ Top \in Visit
        BY <1>6, <3>1, DoneVisits, TopVisit
      <4> QED BY <4>1 DEF Visit
    <3>2. CASE i # Len(visits) BY <1>6, <3>2, DoneVisits
    <3> QED BY <3>1, <3>2
  <2>2. UNCHANGED <<handler_set, late>> BY <1>6 DEF VisitDone
  <2> QED BY <1>6, <2>1, <2>2, DoneVisits DEF Owned
<1>7. CASE FindAllReturns
  <2>1. UNCHANGED <<handler_set, queries, late>> /\ Ahead = {}
    BY <1>7 DEF FindAllReturns
  <2>2. ASSUME NEW q \in DOMAIN queries, NEW i \in DOMAIN visits,
               queries[q] \in visits[i].handlers
        PROVE  i \in DOMAIN visits' /\ queries[q] \in visits'[i].handlers
    <3>1. i # Len(visits) BY <1>7, <2>1, <2>2, ReturnVisits, NoneBehind, TopVisit
    <3> QED BY <1>7, <2>2, <3>1, ReturnVisits
  <2> QED BY <2>1, <2>2 DEF Owned
<1>8. CASE UNCHANGED <<handler_set, queries, late, visits>> BY <1>8 DEF Owned
<1> QED
  BY <1>1, <1>2, <1>3, <1>4, <1>5, <1>6, <1>7, <1>8, CanceledHandlers
  DEF Next, QueryReceived, NotHandled, vars

\* RemoveHandler leaves no pending query of the handler behind, however removals and
\* cancellations nest: when no iteration is in progress, every pending query belongs to a
\* registered handler, but for those a handler took that was removed while it was asked.
THEOREM HandlersOfPendingRegistered == Spec => []PendingRegistered
<1>1. Init => TypeOK /\ Numbered /\ Walks /\ Owned BY InitType, InitWalks, InitOwned
<1>2. (TypeOK /\ Numbered /\ Walks /\ Owned) /\ [Next]_vars
      => (TypeOK /\ Numbered /\ Walks /\ Owned)'
  BY NextType, NextWalks, NextOwned
<1>3. TypeOK /\ Numbered /\ Walks /\ Owned => PendingRegistered
  BY DEF Owned, PendingRegistered
<1> QED BY <1>1, <1>2, <1>3, PTL DEF Spec
-----------------------------------------------------------------------------
(***************************************************************************)
(* How often a handler is told of a canceled query.                        *)
(***************************************************************************)
\* No handler has been told of anything to begin with.
LEMMA InitTold == Init => Told
<1> SUFFICES ASSUME Init, NEW q \in QueryId PROVE Counted(q) BY DEF Told
<1>1. At(q) = {} /\ told[q] = 0 BY DEF Init, At
<1>2. q \notin DOMAIN queries BY DEF Init
<1> QED BY <1>1, <1>2 DEF Counted

\* A step that moves no iteration onto an entry or off one leaves the count of a query alone.
LEMMA SameTold ==
  ASSUME Told, NEW q \in QueryId, At(q)' = At(q), told'[q] = told[q],
         q \in DOMAIN queries' <=> q \in DOMAIN queries,
         q > next' \/ (q = next' /\ asking' # NoHandler)
           => q > next \/ (q = next /\ asking # NoHandler)
  PROVE  Counted(q)'
BY DEF Told, Counted

\* A cancellation that begins stands on no entry yet.
LEMMA PushedAt ==
  ASSUME TypeOK, NEW hs \in SUBSET Handlers, CancelPendingFor(hs), NEW q \in QueryId
  PROVE  At(q)' = At(q)
<1>1. q # 0 BY DispatchAssumption DEF QueryId
<1> QED BY <1>1, PushedVisits DEF At

\* Every step keeps the count of tellings and the iterations in step.
LEMMA NextTold == TypeOK /\ Numbered /\ Told /\ [Next]_vars => Told'
<1> SUFFICES ASSUME TypeOK, Numbered, Told, [Next]_vars PROVE Told' OBVIOUS
<1>0. /\ visits \in Seq(Visit) /\ next \in Nat /\ told \in [QueryId -> Nat]
      /\ QueryId \subseteq Nat \ {0} /\ DOMAIN queries \subseteq QueryId
  BY DispatchAssumption DEF TypeOK, QueryId
<1>1. ASSUME NEW hs \in SUBSET Handlers, CancelPendingFor(hs),
             UNCHANGED <<queries, asking, told, next>>
      PROVE  Told'
  <2> SUFFICES ASSUME NEW q \in QueryId PROVE Counted(q)' BY DEF Told
  <2> QED BY <1>1, PushedAt, SameTold
<1>2. ASSUME UNCHANGED <<queries, visits, told>>,
             \A q \in QueryId : q > next' \/ (q = next' /\ asking' # NoHandler)
                                  => q > next \/ (q = next /\ asking # NoHandler)
      PROVE  Told'
  <2> SUFFICES ASSUME NEW q \in QueryId PROVE Counted(q)' BY DEF Told
  <2> QED BY <1>2, SameTold DEF At
<1>3. CASE Handled
  <2>1. /\ DOMAIN queries' = DOMAIN queries \cup {next} /\ UNCHANGED <<visits, told, next>>
        /\ visits = <<>> /\ asking # NoHandler /\ asking' = NoHandler
    BY <1>3 DEF Handled
  <2> SUFFICES ASSUME NEW q \in QueryId PROVE Counted(q)' BY DEF Told
  <2>2. At(q) = {} /\ At(q)' = {} BY <2>1 DEF At
  <2>3. CASE q = next
    <3>1. told'[q] = 0 BY <2>1, <2>3 DEF Told, Counted
    <3> QED BY <2>1, <2>2, <2>3, <3>1 DEF Counted
  <2>4. CASE q # next BY <1>0, <2>1, <2>2, <2>4, SameTold
  <2> QED BY <2>3, <2>4
<1>4. CASE VisitNext
  <2>1. PICK p \in Ahead :
          /\ DOMAIN visits' = DOMAIN visits
          /\ \A i \in DOMAIN visits :
               visits'[i] = IF i = Len(visits) THEN [Top EXCEPT !.at = p] ELSE visits[i]
          /\ told' = [told EXCEPT ![p] = @ + 1]
    BY <1>4, NextVisits
  <2>2. UNCHANGED <<queries, asking, next>> /\ visits # <<>> /\ Top.at = 0
    BY <1>4 DEF VisitNext, Between
  <2>3. /\ Len(visits) \in DOMAIN visits /\ visits[Len(visits)].at = 0
        /\ visits'[Len(visits)].at = p
    BY <2>1, <2>2, TopVisit DEF Visit
  <2>4. p \in DOMAIN queries /\ p \in QueryId BY <1>0 DEF Ahead
  <2>5. told[p] \in Nat /\ told'[p] = told[p] + 1 /\ \A q \in QueryId \ {p} : told'[q] = told[q]
    BY <1>0, <2>1, <2>4
  <2>6. p <= next /\ ~(p = next /\ asking # NoHandler) BY <2>4 DEF Numbered
  <2> SUFFICES ASSUME NEW q \in QueryId PROVE Counted(q)' BY DEF Told
  <2>7. CASE q = p
    <3>1. Len(visits) \notin At(p) /\ At(p)' = At(p) \cup {Len(visits)}
      BY <1>0, <2>1, <2>3, <2>4 DEF At
    <3>2. told[p] = 0 <=> At(p) = {} BY <2>4, <2>5 DEF Told, Counted
    <3>3. told'[p] > 1 <=> \E i, j \in At(p)' : i # j
      <4>1. CASE At(p) = {} BY <2>5, <3>1, <3>2, <4>1
      <4>2. CASE At(p) # {}
        <5>1. told'[p] > 1 BY <2>5, <3>2, <4>2
        <5> QED BY <3>1, <4>2, <5>1
      <4> QED BY <4>1, <4>2
    <3> QED BY <1>0, <2>2, <2>4, <2>5, <2>6, <2>7, <3>1, <3>3 DEF Counted
  <2>8. CASE q # p
    <3>1. At(q)' = At(q) BY <1>0, <2>1, <2>3, <2>8 DEF At
    <3> QED BY <2>2, <2>5, <2>8, <3>1, SameTold
  <2> QED BY <2>7, <2>8
<1>5. CASE VisitDone
  <2>0. PICK n : n = Len(visits) OBVIOUS
  <2>1. PICK t : t = Top.at OBVIOUS
  <2>2. /\ visits # <<>> /\ DOMAIN visits' = DOMAIN visits
        /\ \A i \in DOMAIN visits :
             visits'[i] = IF i = n THEN [Top EXCEPT !.last = t, !.at = 0]
                          ELSE visits[i]
        /\ DOMAIN queries' = DOMAIN queries \ {t}
        /\ UNCHANGED <<asking, told, next>> /\ t # 0
    BY <1>5, <2>0, <2>1, DoneVisits DEF VisitDone
  <2>3. /\ n \in DOMAIN visits /\ visits[n].at = t /\ visits'[n].at = 0
    BY <2>0, <2>1, <2>2, TopVisit DEF Visit
  <2>4. t \in DOMAIN queries /\ t \in QueryId BY <1>0, <1>5, <2>2, <2>3 DEF VisitDone, Dangling
  <2> SUFFICES ASSUME NEW q \in QueryId PROVE Counted(q)' BY DEF Told
  <2>5. CASE q = t
    <3>1. n \in At(t) /\ At(t)' = At(t) \ {n} BY <1>0, <2>2, <2>3 DEF At
    <3>2. told[t] > 1 <=> \E i, j \in At(t) : i # j BY <2>4 DEF Told, Counted
    <3>3. (\E i, j \in At(t) : i # j) <=> At(t)' # {} BY <3>1
    <3>4. t <= next /\ ~(t = next /\ asking # NoHandler) BY <2>4 DEF Numbered
    <3> QED BY <1>0, <2>2, <2>4, <2>5, <3>2, <3>3, <3>4 DEF Counted
  <2>6. CASE q # t
    <3>1. At(q)' = At(q) BY <1>0, <2>2, <2>3, <2>6 DEF At
    <3> QED BY <2>2, <2>6, <3>1, SameTold
  <2> QED BY <2>5, <2>6
<1>6. CASE FindAllReturns
  <2>1. visits # <<>> /\ Top.at = 0 /\ UNCHANGED <<queries, asking, told, next>>
    BY <1>6 DEF FindAllReturns, Between
  <2>2. DOMAIN visits' = DOMAIN visits \ {Len(visits)} /\ \A i \in DOMAIN visits' : visits'[i] = visits[i]
    BY <1>6, ReturnVisits
  <2>3. visits[Len(visits)].at = 0 BY <2>1, TopVisit
  <2> SUFFICES ASSUME NEW q \in QueryId PROVE Counted(q)' BY DEF Told
  <2>4. At(q)' = At(q) BY <1>0, <2>2, <2>3 DEF At
  <2> QED BY <2>1, <2>4, SameTold
<1>7. CASE QueryReceived
  <2>1. UNCHANGED <<queries, visits, told>> /\ next' = next + 1 BY <1>7 DEF QueryReceived
  <2> QED BY <1>0, <1>2, <2>1
<1>8. CASE NotHandled
  <2>1. UNCHANGED <<queries, visits, told, next>> /\ asking # NoHandler BY <1>8 DEF NotHandled
  <2> QED BY <1>2, <2>1
<1>9. CASE UNCHANGED <<queries, asking, visits, told, next>> BY <1>2, <1>9
<1>10. ASSUME NEW h \in Handlers, RemoveHandler(h) PROVE Told'
  BY <1>1, <1>10 DEF RemoveHandler
<1>11. ASSUME NEW hs \in SUBSET Handlers, CancelPending(hs) PROVE Told'
  BY <1>1, <1>11 DEF CancelPending
<1> QED
  BY <1>3, <1>4, <1>5, <1>6, <1>7, <1>8, <1>9, <1>10, <1>11, CanceledHandlers
  DEF Next, AddHandler, vars

\* The count, in every reachable state.
LEMMA ToldKept == Spec => [](TypeOK /\ Told)
<1>1. Init => TypeOK /\ Numbered /\ Told BY InitType, InitTold
<1>2. (TypeOK /\ Numbered /\ Told) /\ [Next]_vars => (TypeOK /\ Numbered /\ Told)'
  BY NextType, NextTold
<1> QED BY <1>1, <1>2, PTL DEF Spec

\* However removals and cancellations nest, OnQueryCanceled is called a second time for a query
\* only inside a call of OnQueryCanceled for that query.
THEOREM HandlersToldOnce == Spec => []ToldAgainOnlyInside
<1>1. TypeOK /\ Told => ToldAgainOnlyInside
  BY DEF Told, Counted, At, ToldAgainOnlyInside
<1> QED BY <1>1, ToldKept, PTL

\* The entry an iteration stands on is erased under it only when the query was told again.
THEOREM IteratorsStayValid == Spec => []IteratorsValid
<1>1. TypeOK /\ Told => IteratorsValid
  <2> SUFFICES ASSUME TypeOK, Told, NEW i \in DOMAIN visits, visits[i].at # 0,
                      visits[i].at \notin DOMAIN queries
               PROVE  told[visits[i].at] > 1
    BY DEF IteratorsValid
  <2>1. visits[i] \in Visit BY DEF TypeOK
  <2>2. visits[i].at \in QueryId BY <2>1, DispatchAssumption DEF Visit, QueryId
  <2>3. At(visits[i].at) # {} BY DEF At
  <2> QED BY <2>2, <2>3 DEF Told, Counted
<1> QED BY <1>1, ToldKept, PTL
=============================================================================
