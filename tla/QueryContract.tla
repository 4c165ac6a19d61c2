--------------------------- MODULE QueryContract ---------------------------
(***************************************************************************)
(* What cef_message_router.h promises the two users of a query, and        *)
(* nothing of how: the page that asked, and the application that answers.  *)
(* A query is told to at most one handler; its handler hears of its end at *)
(* most once, by completing it or by OnQueryCanceled; a page's callback    *)
(* runs only for an answer the application (or a cancellation) gave, and   *)
(* a query ends once for the page.                                         *)
(***************************************************************************)
CONSTANT Queries

VARIABLES
  page,   \* "idle", waiting for "once" or "many" answers, or how it ended
  app     \* "unseen", "refused", "open", "streaming", or how it ended

Waiting == {"once", "many"}
Live == {"open", "streaming"}
Set(f, us, s) == [u \in Queries |-> IF u \in us THEN s ELSE f[u]]

Init ==
  /\ page = [u \in Queries |-> "idle"]
  /\ app = [u \in Queries |-> "unseen"]

Ask(u, kind) == page[u] = "idle" /\ page' = Set(page, {u}, kind) /\ UNCHANGED app

\* The application first sees a query after it was asked, even if the page gave it up since.
Accept(u) ==
  /\ page[u] # "idle" /\ app[u] = "unseen"
  /\ app' = Set(app, {u}, "open") /\ UNCHANGED page
Refuse(u) ==
  /\ page[u] # "idle" /\ app[u] = "unseen"
  /\ app' = Set(app, {u}, "refused") /\ UNCHANGED page

\* The application completes the query, or sends one more answer of many.
Answer(u) ==
  /\ app[u] = "open"
  /\ app' = Set(app, {u}, "answered") /\ UNCHANGED page
Stream(u) ==
  /\ app[u] \in Live
  /\ app' = Set(app, {u}, "streaming") /\ UNCHANGED page
Fail(u) ==
  /\ app[u] \in Live
  /\ app' = Set(app, {u}, "failed") /\ UNCHANGED page

\* The callback that ends the query for the page.
Succeed(u) ==
  /\ page[u] = "once" /\ app[u] = "answered"
  /\ page' = Set(page, {u}, "succeeded") /\ UNCHANGED app
Reject(u) ==
  /\ page[u] \in Waiting /\ app[u] \in {"failed", "canceled", "refused"}
  /\ page' = Set(page, {u}, "failed") /\ UNCHANGED app

\* Pages give queries up (cefQueryCancel, release of a context, crash, close), and queries are
\* canceled for the application; a browser that closes does both at once.
Abandon(ws, cs) ==
  /\ \A u \in ws : page[u] \in Waiting
  /\ \A u \in cs : app[u] \in Live
  /\ page' = Set(page, ws, "withdrawn")
  /\ app' = Set(app, cs, "canceled")

Next ==
  \/ \E u \in Queries :
       \/ \E kind \in Waiting : Ask(u, kind)
       \/ Accept(u) \/ Refuse(u) \/ Answer(u) \/ Stream(u) \/ Fail(u)
       \/ Succeed(u) \/ Reject(u)
  \/ \E ws, cs \in SUBSET Queries : Abandon(ws, cs)

vars == <<page, app>>
Spec == Init /\ [][Next]_vars
=============================================================================
