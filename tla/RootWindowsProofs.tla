------------------------- MODULE RootWindowsProofs -------------------------
(***************************************************************************)
(* Proofs about RootWindows, for any set of windows, on one thread or two. *)
(***************************************************************************)
EXTENDS RootWindows, SequenceTheorems, FiniteSetTheorems, TLAPS

\* The order in which the closures of one window are posted.
Rank(name) ==
  CASE name = "create" -> 1
    [] name = "registered" -> 2
    [] name = "created" -> 3
    [] name = "closing" -> 4
    [] OTHER -> 5

\* The last closure that a browser in this state may have posted.
Latest(b) ==
  CASE b \in {"none", "requested", "never"} -> 2
    [] b = "open" -> 3
    [] b \in {"closing", "dying"} -> 4
    [] OTHER -> 5

\* The last closure whose effect the root window shows.
Shown(v) ==
  CASE v = "none" -> 0
    [] v = "open" -> 3
    [] v = "closing" -> 4
    [] OTHER -> 5

Names == {"create", "registered", "created", "closing", "closed"}
NoTask(w) == \A i \in 1..Len(tasks) : tasks[i][2] # w

\* The closures of a window are queued in their order.
InTurn ==
  \A i, j \in 1..Len(tasks) :
    i < j /\ tasks[i][2] = tasks[j][2] => Rank(tasks[i][1]) < Rank(tasks[j][1])

\* A closure is posted after its browser is in a state for it, and has not been run.
Timely(t, b, v) ==
  /\ Rank(t[1]) <= Latest(b[t[2]]) /\ Shown(v[t[2]]) < Rank(t[1])
  /\ t[1] = "create" => b[t[2]] = "none"

InTime == \A i \in 1..Len(tasks) : Timely(tasks[i], browser, view)

\* On one thread, only registrations of windows without a browser are posted.
Direct ==
  ~MultiThreaded =>
    \A i \in 1..Len(tasks) :
      tasks[i][1] = "registered" /\ browser[tasks[i][2]] \in {"requested", "never"}

\* There is nothing of a window that is not used yet.
Unused(w) ==
  kind[w] = "unused" =>
    /\ browser[w] = "none" /\ hwnd[w] = "none" /\ view[w] = "none"
    /\ w \notin root_windows_ /\ NoTask(w)

\* The root window lags behind its browser.
Lags(w) ==
  /\ view[w] = "open" => browser[w] \in {"open", "closing", "dying", "ended"}
  /\ view[w] = "closing" => browser[w] \in {"closing", "dying", "ended"}
  /\ view[w] = "destroyed" => browser[w] = "ended" /\ hwnd[w] # "open"

Registered(w) == w \in root_windows_ <=> Present(w) /\ ~Posted("registered", w)

Queue == InTurn /\ InTime /\ Direct
Each(w) == Unused(w) /\ Lags(w) /\ Registered(w)

IInv == TypeOK /\ Queue /\ \A w \in Windows : Each(w)
-----------------------------------------------------------------------------
(* The queue of closures. *)

LEMMA TaskType ==
  ASSUME TypeOK, NEW i \in 1..Len(tasks)
  PROVE  /\ tasks[i] \in Closures \X Windows
         /\ tasks[i] = <<tasks[i][1], tasks[i][2]>>
         /\ tasks[i][1] \in Closures /\ tasks[i][1] \in Names /\ tasks[i][2] \in Windows
<1>1. tasks[i] \in Closures \X Windows BY DEF TypeOK
<1> QED BY <1>1 DEF Closures, Names

LEMMA PostedIs ==
  ASSUME TypeOK, NEW name, NEW w
  PROVE  Posted(name, w) <=> \E i \in 1..Len(tasks) : tasks[i][1] = name /\ tasks[i][2] = w
BY TaskType DEF Posted

\* What is in the queue after a closure has been posted.
LEMMA AfterPost ==
  ASSUME TypeOK, NEW name \in Closures, NEW w \in Windows, tasks' = Append(tasks, <<name, w>>)
  PROVE  /\ tasks' \in Seq(Closures \X Windows)
         /\ Len(tasks) \in Nat /\ Len(tasks') = Len(tasks) + 1
         /\ tasks'[Len(tasks')] = <<name, w>>
         /\ \A i \in 1..Len(tasks) : tasks'[i] = tasks[i]
         /\ \A i \in 1..Len(tasks') : i \in 1..Len(tasks) \/ i = Len(tasks')
<1>1. tasks \in Seq(Closures \X Windows) /\ <<name, w>> \in Closures \X Windows BY DEF TypeOK
<1> QED BY <1>1

\* What is in the queue after its head has been run.
LEMMA AfterRun ==
  ASSUME TypeOK, tasks # <<>>, tasks' = Tail(tasks)
  PROVE  /\ tasks' \in Seq(Closures \X Windows)
         /\ Head(tasks) = tasks[1] /\ 1 \in 1..Len(tasks)
         /\ Len(tasks) \in Nat /\ Len(tasks') = Len(tasks) - 1
         /\ \A i \in 1..Len(tasks') : i + 1 \in 1..Len(tasks) /\ tasks'[i] = tasks[i + 1]
         /\ \A i \in 1..Len(tasks) :
              i = 1 \/ (i - 1 \in 1..Len(tasks') /\ tasks'[i - 1] = tasks[i])
<1>1. tasks \in Seq(Closures \X Windows) BY DEF TypeOK
<1>2. Len(tasks) \in Nat /\ Len(tasks) > 0 BY <1>1
<1>3. /\ Head(tasks) = tasks[1] /\ Tail(tasks) \in Seq(Closures \X Windows)
      /\ Len(Tail(tasks)) = Len(tasks) - 1
      /\ \A i \in 1..(Len(tasks) - 1) : Tail(tasks)[i] = tasks[i + 1]
  BY <1>1, <1>2
<1>4. /\ tasks' \in Seq(Closures \X Windows) /\ Len(tasks') = Len(tasks) - 1
      /\ \A i \in 1..(Len(tasks) - 1) : tasks'[i] = tasks[i + 1]
  BY <1>3
<1>5. \A i \in 1..Len(tasks') : i + 1 \in 1..Len(tasks) /\ tasks'[i] = tasks[i + 1]
  BY <1>2, <1>4
<1>6. ASSUME NEW i \in 1..Len(tasks), i # 1
      PROVE  i - 1 \in 1..Len(tasks') /\ tasks'[i - 1] = tasks[i]
  <2>1. i - 1 \in 1..(Len(tasks) - 1) /\ (i - 1) + 1 = i BY <1>2, <1>6
  <2> QED BY <2>1, <1>4
<1> QED BY <1>2, <1>3, <1>4, <1>5, <1>6

LEMMA RankIs ==
  /\ Rank("create") = 1 /\ Rank("registered") = 2 /\ Rank("created") = 3
  /\ Rank("closing") = 4 /\ Rank("closed") = 5
  /\ \A name \in Names : Rank(name) \in 1..5
BY DEF Rank, Names

\* What a window's closures in the queue, and its own, say of each other.
LEMMA PostKeeps ==
  ASSUME TypeOK, InTurn, NEW name \in Closures, NEW w \in Windows,
         tasks' = Append(tasks, <<name, w>>),
         \A i \in 1..Len(tasks) : tasks[i][2] = w => Rank(tasks[i][1]) < Rank(name)
  PROVE  /\ InTurn'
         /\ \A n, v : Posted(n, v)' <=> Posted(n, v) \/ (n = name /\ v = w)
         /\ \A v : NoTask(v)' <=> NoTask(v) /\ v # w
<1>1. /\ Len(tasks) \in Nat /\ Len(tasks') = Len(tasks) + 1
      /\ tasks'[Len(tasks')] = <<name, w>>
      /\ \A i \in 1..Len(tasks) : tasks'[i] = tasks[i]
      /\ \A i \in 1..Len(tasks') : i \in 1..Len(tasks) \/ i = Len(tasks')
  BY AfterPost
<1>2. /\ Len(tasks') \in 1..Len(tasks')
      /\ \A i \in 1..Len(tasks) : i \in 1..Len(tasks') /\ i < Len(tasks')
  BY <1>1
<1>3. <<name, w>>[1] = name /\ <<name, w>>[2] = w OBVIOUS
<1>4. InTurn'
  <2> SUFFICES ASSUME NEW i \in 1..Len(tasks'), NEW j \in 1..Len(tasks'),
                      i < j, tasks'[i][2] = tasks'[j][2]
               PROVE  Rank(tasks'[i][1]) < Rank(tasks'[j][1])
    BY DEF InTurn
  <2>1. i \in 1..Len(tasks) /\ tasks'[i] = tasks[i] BY <1>1
  <2>2. CASE j \in 1..Len(tasks) BY <1>1, <2>1, <2>2 DEF InTurn
  <2>3. CASE j = Len(tasks') BY <1>1, <1>3, <2>1, <2>3
  <2> QED BY <1>1, <2>2, <2>3
<1>5. \A n, v : Posted(n, v)' <=> Posted(n, v) \/ (n = name /\ v = w)
  BY <1>1, <1>2 DEF Posted
<1>6. \A v : NoTask(v)' <=> NoTask(v) /\ v # w
  BY <1>1, <1>2, <1>3 DEF NoTask
<1> QED BY <1>4, <1>5, <1>6

LEMMA RunKeeps ==
  ASSUME TypeOK, InTurn, tasks # <<>>, tasks' = Tail(tasks)
  PROVE  /\ InTurn'
         /\ \A i \in 1..Len(tasks') :
              tasks'[i][2] = tasks[1][2] => Rank(tasks[1][1]) < Rank(tasks'[i][1])
         /\ \A n, v : Posted(n, v) <=> Posted(n, v)' \/ tasks[1] = <<n, v>>
         /\ \A n, v : tasks[1] = <<n, v>> => ~Posted(n, v)'
         /\ \A v : v # tasks[1][2] => (NoTask(v)' <=> NoTask(v))
<1>1. /\ Head(tasks) = tasks[1] /\ 1 \in 1..Len(tasks)
      /\ Len(tasks) \in Nat /\ Len(tasks') = Len(tasks) - 1
      /\ \A i \in 1..Len(tasks') : i + 1 \in 1..Len(tasks) /\ tasks'[i] = tasks[i + 1]
      /\ \A i \in 1..Len(tasks) :
           i = 1 \/ (i - 1 \in 1..Len(tasks') /\ tasks'[i - 1] = tasks[i])
  BY AfterRun
<1>2. InTurn'
  <2> SUFFICES ASSUME NEW i \in 1..Len(tasks'), NEW j \in 1..Len(tasks'),
                      i < j, tasks'[i][2] = tasks'[j][2]
               PROVE  Rank(tasks'[i][1]) < Rank(tasks'[j][1])
    BY DEF InTurn
  <2>1. /\ i + 1 \in 1..Len(tasks) /\ tasks'[i] = tasks[i + 1]
        /\ j + 1 \in 1..Len(tasks) /\ tasks'[j] = tasks[j + 1] /\ i + 1 < j + 1
    BY <1>1
  <2> QED BY <2>1 DEF InTurn
<1>3. \A i \in 1..Len(tasks') :
        tasks'[i][2] = tasks[1][2] => Rank(tasks[1][1]) < Rank(tasks'[i][1])
  <2> SUFFICES ASSUME NEW i \in 1..Len(tasks'), tasks'[i][2] = tasks[1][2]
               PROVE  Rank(tasks[1][1]) < Rank(tasks'[i][1])
    OBVIOUS
  <2>1. i + 1 \in 1..Len(tasks) /\ tasks'[i] = tasks[i + 1] /\ 1 < i + 1 BY <1>1
  <2> QED BY <1>1, <2>1 DEF InTurn
<1>4. ASSUME NEW n, NEW v
      PROVE  Posted(n, v) <=> Posted(n, v)' \/ tasks[1] = <<n, v>>
  <2>1. ASSUME Posted(n, v) PROVE Posted(n, v)' \/ tasks[1] = <<n, v>>
    <3>1. PICK i \in 1..Len(tasks) : tasks[i] = <<n, v>> BY <2>1 DEF Posted
    <3>2. i = 1 \/ (i - 1 \in 1..Len(tasks') /\ tasks'[i - 1] = tasks[i]) BY <1>1
    <3> QED BY <3>1, <3>2 DEF Posted
  <2>2. ASSUME Posted(n, v)' PROVE Posted(n, v)
    <3>1. PICK i \in 1..Len(tasks') : tasks'[i] = <<n, v>> BY <2>2 DEF Posted
    <3>2. i + 1 \in 1..Len(tasks) /\ tasks'[i] = tasks[i + 1] BY <1>1
    <3> QED BY <3>1, <3>2 DEF Posted
  <2>3. tasks[1] = <<n, v>> => Posted(n, v) BY <1>1 DEF Posted
  <2> QED BY <2>1, <2>2, <2>3
<1>5. ASSUME NEW n, NEW v, tasks[1] = <<n, v>>, Posted(n, v)'
      PROVE  FALSE
  <2>1. PICK i \in 1..Len(tasks') : tasks'[i] = <<n, v>> BY <1>5 DEF Posted
  <2>2. tasks'[i][2] = tasks[1][2] /\ tasks'[i][1] = tasks[1][1] BY <1>5, <2>1
  <2>3. Rank(tasks[1][1]) < Rank(tasks[1][1]) BY <1>3, <2>2
  <2>4. Rank(tasks[1][1]) \in Nat BY <1>1, TaskType, RankIs
  <2> QED BY <2>3, <2>4
<1>6. ASSUME NEW v, v # tasks[1][2] PROVE NoTask(v)' <=> NoTask(v)
  <2>1. NoTask(v) => NoTask(v)' BY <1>1 DEF NoTask
  <2>2. ASSUME NoTask(v)', NEW i \in 1..Len(tasks) PROVE tasks[i][2] # v
    <3>1. i = 1 \/ (i - 1 \in 1..Len(tasks') /\ tasks'[i - 1] = tasks[i]) BY <1>1
    <3> QED BY <1>6, <2>2, <3>1 DEF NoTask
  <2> QED BY <2>1, <2>2 DEF NoTask
<1> QED BY <1>2, <1>3, <1>4, <1>5, <1>6
-----------------------------------------------------------------------------
(* One window. *)

BrowserStates == {"none", "requested", "open", "closing", "dying", "ended", "never"}

LEMMA Stages ==
  /\ Latest("none") = 2 /\ Latest("requested") = 2 /\ Latest("never") = 2
  /\ Latest("open") = 3 /\ Latest("closing") = 4 /\ Latest("dying") = 4 /\ Latest("ended") = 5
  /\ Shown("none") = 0 /\ Shown("open") = 3 /\ Shown("closing") = 4 /\ Shown("destroyed") = 5
BY DEF Latest, Shown

\* A root window shows nothing its browser has not been through.
LEMMA ShownIsOver ==
  ASSUME TypeOK, NEW w \in Windows, Lags(w)
  PROVE  /\ Shown(view[w]) \in 0..5 /\ Latest(browser[w]) \in 2..5
         /\ Shown(view[w]) <= Latest(browser[w])
<1>1. view[w] \in {"none", "open", "closing", "destroyed"} /\ browser[w] \in BrowserStates
  BY DEF TypeOK, BrowserStates
<1>2. Shown(view[w]) \in 0..5 /\ Latest(browser[w]) \in 2..5 BY <1>1, Stages DEF BrowserStates
<1>3. CASE view[w] = "none" BY <1>2, <1>3, Stages
<1>4. CASE view[w] = "open" BY <1>2, <1>4, Stages DEF Lags
<1>5. CASE view[w] = "closing" BY <1>2, <1>5, Stages DEF Lags
<1>6. CASE view[w] = "destroyed" BY <1>2, <1>6, Stages DEF Lags
<1> QED BY <1>1, <1>3, <1>4, <1>5, <1>6

\* A window that a step does not concern stays as it is.
LEMMA Others ==
  ASSUME NEW v, Each(v),
         kind'[v] = kind[v], hwnd'[v] = hwnd[v], view'[v] = view[v], browser'[v] = browser[v],
         v \in root_windows_' <=> v \in root_windows_,
         NoTask(v) => NoTask(v)', Posted("registered", v)' <=> Posted("registered", v)
  PROVE  Each(v)'
<1>1. Unused(v)' BY DEF Each, Unused
<1>2. Lags(v)' BY DEF Each, Lags
<1>3. Registered(v)' BY DEF Each, Registered, Present
<1> QED BY <1>1, <1>2, <1>3 DEF Each

After(name) ==
  CASE name = "created" -> "open"
    [] name = "closing" -> "closing"
    [] OTHER -> "destroyed"

\* What the news of a browser does to the root windows.
LEMMA Performed ==
  ASSUME TypeOK, NEW w \in Windows, NEW name \in {"created", "closing", "closed"},
         Perform(name, w)
  PROVE  /\ view' = [view EXCEPT ![w] = After(name)]
         /\ view' \in [Windows -> {"none", "open", "closing", "destroyed"}]
         /\ hwnd' \in [Windows -> {"none", "open", "destroyed"}]
         /\ root_windows_' \subseteq Windows /\ quit' \in BOOLEAN
         /\ \A v \in Windows : v # w => hwnd'[v] = hwnd[v] /\ view'[v] = view[v]
         /\ \A v \in Windows : v # w => (v \in root_windows_' <=> v \in root_windows_)
         /\ name # "closed" => UNCHANGED <<root_windows_, quit>>
         /\ name = "closed" =>
              /\ hwnd'[w] # "open"
              /\ w \in root_windows_' <=> w \in root_windows_ /\ hwnd'[w] # "destroyed"
              /\ quit' = (quit \/ (hwnd'[w] = "destroyed" /\ root_windows_' = {}))
<1>1. CASE name = "created"
  <2>1. OnBrowserCreated(w) BY <1>1 DEF Perform
  <2> QED BY <1>1, <2>1 DEF OnBrowserCreated, TypeOK, After
<1>2. CASE name = "closing"
  <2>1. OnBrowserClosing(w) BY <1>2 DEF Perform
  <2> QED BY <1>2, <2>1 DEF OnBrowserClosing, TypeOK, After
<1>3. CASE name = "closed"
  <2>1. OnBrowserClosed(w) BY <1>3 DEF Perform
  <2>2. /\ view' = [view EXCEPT ![w] = "destroyed"] /\ view'[w] = "destroyed"
        /\ hwnd' = IF hwnd[w] = "open" THEN [hwnd EXCEPT ![w] = "destroyed"] ELSE hwnd
        /\ hwnd'[w] # "open"
    BY <2>1 DEF OnBrowserClosed, TypeOK
  <2>3. \/ hwnd'[w] = "destroyed" /\ OnRootWindowDestroyed(w)
        \/ hwnd'[w] # "destroyed" /\ UNCHANGED <<root_windows_, quit>>
    BY <2>1, <2>2 DEF OnBrowserClosed, NotifyDestroyedIfDone, Told
  <2>4. /\ root_windows_' \subseteq Windows
        /\ \A v \in Windows : v # w => (v \in root_windows_' <=> v \in root_windows_)
        /\ w \in root_windows_' <=> w \in root_windows_ /\ hwnd'[w] # "destroyed"
    BY <2>3 DEF OnRootWindowDestroyed, TypeOK
  <2>5. quit' \in BOOLEAN /\ quit' = (quit \/ (hwnd'[w] = "destroyed" /\ root_windows_' = {}))
    BY <2>3 DEF OnRootWindowDestroyed, TypeOK
  <2>6. /\ hwnd' \in [Windows -> {"none", "open", "destroyed"}]
        /\ \A v \in Windows : v # w => hwnd'[v] = hwnd[v]
    BY <2>2 DEF TypeOK
  <2> QED BY <1>3, <2>2, <2>4, <2>5, <2>6 DEF TypeOK, After
<1> QED BY <1>1, <1>2, <1>3

\* The window that the news is about.
LEMMA PerformKeeps ==
  ASSUME TypeOK, NEW w \in Windows, NEW name \in {"created", "closing", "closed"},
         Perform(name, w), Each(w), kind' = kind, kind[w] # "unused", view[w] # "destroyed",
         browser'[w] \in BrowserStates, Rank(name) <= Latest(browser'[w]),
         Posted("registered", w)' <=> Posted("registered", w)
  PROVE  Each(w)'
<1>1. Unused(w)' BY DEF Unused
<1>2. /\ view' = [view EXCEPT ![w] = After(name)] /\ view'[w] = After(name)
      /\ name # "closed" => root_windows_' = root_windows_
      /\ name = "closed" =>
           /\ hwnd'[w] # "open"
           /\ w \in root_windows_' <=> w \in root_windows_ /\ hwnd'[w] # "destroyed"
  BY Performed DEF TypeOK
<1>3. /\ name = "created" => After(name) = "open" /\ browser'[w] \in {"open", "closing", "dying", "ended"}
      /\ name = "closing" => After(name) = "closing" /\ browser'[w] \in {"closing", "dying", "ended"}
      /\ name = "closed" => After(name) = "destroyed" /\ browser'[w] = "ended"
  BY RankIs, Stages DEF After, BrowserStates
<1>4. Lags(w)' BY <1>2, <1>3 DEF Lags
<1>5. Present(w) BY DEF Present
<1>6. Present(w)' <=> name # "closed" \/ hwnd'[w] # "destroyed" BY <1>2, <1>3 DEF Present
<1>7. Registered(w)' BY <1>2, <1>5, <1>6 DEF Each, Registered
<1> QED BY <1>1, <1>4, <1>7 DEF Each
-----------------------------------------------------------------------------
(* The queue and the windows together. *)

\* The browser of a window goes on, and nothing is posted.
LEMMA QueueStays ==
  ASSUME TypeOK, Queue, NEW w \in Windows, NEW b \in BrowserStates,
         browser' = [browser EXCEPT ![w] = b], view' = view, tasks' = tasks,
         browser[w] # "none", Latest(browser[w]) <= Latest(b),
         b = "never" \/ browser[w] \notin {"requested", "never"}
  PROVE  Queue'
<1>1. InTurn' BY DEF Queue, InTurn
<1>2. /\ browser'[w] = b /\ \A v \in Windows : v # w => browser'[v] = browser[v]
      /\ browser[w] \in BrowserStates
  BY DEF TypeOK, BrowserStates
<1>3. InTime'
  <2> SUFFICES ASSUME NEW i \in 1..Len(tasks)
               PROVE  Timely(tasks[i], browser', view)
    BY DEF InTime
  <2>1. Timely(tasks[i], browser, view) BY DEF Queue, InTime
  <2>2. tasks[i][2] \in Windows /\ tasks[i][1] \in Names BY TaskType
  <2>3. CASE tasks[i][2] # w BY <1>2, <2>1, <2>2, <2>3 DEF Timely
  <2>4. CASE tasks[i][2] = w
    <3>1. Rank(tasks[i][1]) <= Latest(browser[w]) BY <2>1, <2>4 DEF Timely
    <3>2. Rank(tasks[i][1]) \in Nat /\ Latest(browser[w]) \in Nat /\ Latest(b) \in Nat
      BY <1>2, <2>2, RankIs, Stages DEF BrowserStates
    <3>3. Rank(tasks[i][1]) <= Latest(b) BY <3>1, <3>2
    <3> QED BY <1>2, <2>1, <2>4, <3>3 DEF Timely
  <2> QED BY <2>3, <2>4
<1>4. Direct' BY <1>2, TaskType DEF Queue, Direct
<1> QED BY <1>1, <1>3, <1>4 DEF Queue

\* A closure for one window is posted, and the browser of that window goes on.
LEMMA QueuePosted ==
  ASSUME TypeOK, Queue, NEW w \in Windows, NEW name \in Closures, NEW b \in BrowserStates,
         browser' = [browser EXCEPT ![w] = b], view' = view,
         tasks' = Append(tasks, <<name, w>>),
         NoTask(w) \/ (browser[w] # "none" /\ Latest(browser[w]) < Rank(name)),
         Rank(name) <= Latest(b), Shown(view[w]) < Rank(name), name # "create",
         MultiThreaded \/ (name = "registered" /\ NoTask(w) /\ b \in {"requested", "never"})
  PROVE  /\ Queue' /\ tasks' \in Seq(Closures \X Windows)
         /\ \A n, v : Posted(n, v)' <=> Posted(n, v) \/ (n = name /\ v = w)
         /\ \A v : NoTask(v)' <=> NoTask(v) /\ v # w
<1>1. /\ tasks' \in Seq(Closures \X Windows)
      /\ tasks'[Len(tasks')] = <<name, w>>
      /\ \A i \in 1..Len(tasks) : tasks'[i] = tasks[i]
      /\ \A i \in 1..Len(tasks') : i \in 1..Len(tasks) \/ i = Len(tasks')
  BY AfterPost
<1>2. /\ browser'[w] = b /\ \A v \in Windows : v # w => browser'[v] = browser[v]
      /\ browser[w] \in BrowserStates
  BY DEF TypeOK, BrowserStates
<1>3. Rank(name) \in Nat /\ Latest(browser[w]) \in Nat /\ Latest(b) \in Nat
  BY <1>2, RankIs, Stages DEF BrowserStates, Closures, Names
<1>4. ASSUME NEW i \in 1..Len(tasks), tasks[i][2] = w
      PROVE  browser[w] # "none" /\ Rank(tasks[i][1]) < Rank(name) /\ Rank(tasks[i][1]) < Latest(b)
  <2>1. ~NoTask(w) BY <1>4 DEF NoTask
  <2>2. Rank(tasks[i][1]) <= Latest(browser[w]) BY <1>4 DEF Queue, InTime, Timely
  <2>3. tasks[i][1] \in Names BY TaskType
  <2>4. Rank(tasks[i][1]) \in Nat BY <2>3, RankIs
  <2> QED BY <1>3, <2>1, <2>2, <2>4
<1>5. InTurn' /\ (\A n, v : Posted(n, v)' <=> Posted(n, v) \/ (n = name /\ v = w))
      /\ \A v : NoTask(v)' <=> NoTask(v) /\ v # w
  BY <1>4, PostKeeps DEF Queue
<1>6. InTime'
  <2> SUFFICES ASSUME NEW i \in 1..Len(tasks')
               PROVE  Timely(tasks'[i], browser', view)
    BY DEF InTime
  <2>1. CASE i \in 1..Len(tasks)
    <3>1. tasks'[i] = tasks[i] /\ Timely(tasks[i], browser, view) BY <1>1, <2>1 DEF Queue, InTime
    <3>2. tasks[i][2] \in Windows /\ Rank(tasks[i][1]) \in Nat
      <4>1. tasks[i][2] \in Windows /\ tasks[i][1] \in Names BY <2>1, TaskType
      <4>2. Rank(tasks[i][1]) \in 1..5 BY <4>1, RankIs
      <4> QED BY <4>1, <4>2
    <3>3. CASE tasks[i][2] # w BY <1>2, <3>1, <3>2, <3>3 DEF Timely
    <3>4. CASE tasks[i][2] = w
      <4>1. browser[w] # "none" /\ Rank(tasks[i][1]) < Latest(b) BY <1>4, <2>1, <3>4
      <4> QED BY <1>2, <1>3, <3>1, <3>2, <3>4, <4>1 DEF Timely
    <3> QED BY <3>3, <3>4
  <2>2. CASE i = Len(tasks')
    <3>1. tasks'[i][1] = name /\ tasks'[i][2] = w BY <1>1, <2>2
    <3> QED BY <1>2, <3>1 DEF Timely
  <2> QED BY <1>1, <2>1, <2>2
<1>7. Direct'
  <2> SUFFICES ASSUME ~MultiThreaded, NEW i \in 1..Len(tasks')
               PROVE  tasks'[i][1] = "registered" /\ browser'[tasks'[i][2]] \in {"requested", "never"}
    BY DEF Direct
  <2>1. CASE i \in 1..Len(tasks)
    <3>1. tasks'[i] = tasks[i] /\ tasks[i][2] \in Windows BY <1>1, <2>1, TaskType
    <3>2. tasks[i][1] = "registered" /\ browser[tasks[i][2]] \in {"requested", "never"}
      BY <2>1 DEF Queue, Direct
    <3>3. tasks[i][2] # w BY <2>1 DEF NoTask
    <3> QED BY <1>2, <3>1, <3>2, <3>3
  <2>2. CASE i = Len(tasks') BY <1>1, <1>2, <2>2
  <2> QED BY <1>1, <2>1, <2>2
<1> QED BY <1>1, <1>5, <1>6, <1>7 DEF Queue

\* CEF's thread tells of a browser: it has been created, is closing, has closed.
LEMMA Notified ==
  ASSUME IInv, NEW w \in Windows, NEW name \in {"created", "closing", "closed"},
         NEW b \in BrowserStates, browser' = [browser EXCEPT ![w] = b], kind' = kind,
         browser[w] # "none", Latest(browser[w]) < Rank(name), Rank(name) <= Latest(b),
         ~MultiThreaded => NoTask(w),
         FromUiThread(name, w)
  PROVE  /\ hwnd' \in [Windows -> {"none", "open", "destroyed"}]
         /\ view' \in [Windows -> {"none", "open", "closing", "destroyed"}]
         /\ root_windows_' \subseteq Windows /\ quit' \in BOOLEAN
         /\ tasks' \in Seq(Closures \X Windows)
         /\ Queue' /\ \A v \in Windows : Each(v)'
<1>0. TypeOK /\ Queue /\ \A v \in Windows : Each(v) BY DEF IInv
<1>1. /\ browser'[w] = b /\ \A v \in Windows : v # w => browser'[v] = browser[v]
      /\ browser[w] \in BrowserStates
  BY <1>0 DEF TypeOK, BrowserStates
<1>2. kind[w] # "unused" BY <1>0 DEF Each, Unused
<1>3. Rank(name) \in Nat /\ Rank(name) \in {3, 4, 5} BY RankIs
<1>4. /\ Shown(view[w]) \in 0..5 /\ Latest(browser[w]) \in 2..5
      /\ Shown(view[w]) <= Latest(browser[w]) /\ Shown(view[w]) < Rank(name)
  <2>1. /\ Shown(view[w]) \in 0..5 /\ Latest(browser[w]) \in 2..5
        /\ Shown(view[w]) <= Latest(browser[w])
    BY <1>0, ShownIsOver DEF Each
  <2> QED BY <1>3, <2>1
<1>5. view[w] # "destroyed" BY <1>3, <1>4, Stages
<1>6. CASE MultiThreaded
  <2>1. tasks' = Append(tasks, <<name, w>>) /\ UNCHANGED windowVars
    BY <1>6 DEF FromUiThread, OnMainThread
  <2>2. name \in Closures BY <1>6 DEF Closures
  <2>3. /\ Queue' /\ tasks' \in Seq(Closures \X Windows)
        /\ \A n, v : Posted(n, v)' <=> Posted(n, v) \/ (n = name /\ v = w)
        /\ \A v : NoTask(v)' <=> NoTask(v) /\ v # w
    BY <1>0, <1>4, <1>6, <2>1, <2>2, QueuePosted DEF windowVars
  <2>4. Each(w)'
    <3>1. Unused(w)' BY <1>2 DEF Unused
    <3>2. Lags(w)'
      <4>1. Lags(w) BY <1>0 DEF Each
      <4>2. \/ b \in {"open", "closing", "dying", "ended"} /\ browser[w] \in {"requested", "never"}
            \/ b \in {"closing", "dying", "ended"} /\ browser[w] = "open"
            \/ b = "ended" /\ browser[w] \in {"closing", "dying"}
        BY <1>1, <1>3, RankIs, Stages DEF BrowserStates
      <4> QED BY <1>1, <2>1, <4>1, <4>2 DEF Lags, windowVars
    <3>3. Registered(w)' BY <1>0, <2>1, <2>3 DEF Each, Registered, Present, windowVars
    <3> QED BY <3>1, <3>2, <3>3 DEF Each
  <2>5. ASSUME NEW v \in Windows, v # w PROVE Each(v)'
    BY <1>0, <1>1, <2>1, <2>3, <2>5, Others DEF windowVars
  <2> QED BY <1>0, <2>1, <2>3, <2>4, <2>5 DEF TypeOK, windowVars
<1>7. CASE ~MultiThreaded
  <2>1. tasks' = tasks /\ Perform(name, w) BY <1>7 DEF FromUiThread, OnMainThread
  <2>2. /\ view' \in [Windows -> {"none", "open", "closing", "destroyed"}]
        /\ hwnd' \in [Windows -> {"none", "open", "destroyed"}]
        /\ root_windows_' \subseteq Windows /\ quit' \in BOOLEAN
        /\ \A v \in Windows : v # w => hwnd'[v] = hwnd[v] /\ view'[v] = view[v]
        /\ \A v \in Windows : v # w => (v \in root_windows_' <=> v \in root_windows_)
    BY <1>0, <2>1, Performed
  <2>3. Each(w)' BY <1>0, <1>1, <1>2, <1>5, <2>1, PerformKeeps DEF Posted
  <2>4. ASSUME NEW v \in Windows, v # w PROVE Each(v)'
    BY <1>0, <1>1, <2>1, <2>2, <2>4, Others DEF Posted, NoTask
  <2>5. Queue'
    <3>1. ASSUME NEW i \in 1..Len(tasks)
          PROVE  /\ browser'[tasks[i][2]] = browser[tasks[i][2]]
                 /\ view'[tasks[i][2]] = view[tasks[i][2]]
      BY <1>0, <1>1, <1>7, <2>2, TaskType DEF NoTask
    <3> QED BY <1>0, <2>1, <3>1 DEF Queue, InTurn, InTime, Timely, Direct
  <2> QED BY <1>0, <2>1, <2>2, <2>3, <2>4, <2>5 DEF TypeOK
<1> QED BY <1>6, <1>7 DEF WindowsAssumption
-----------------------------------------------------------------------------
(* The steps. *)

\* NotifyDestroyedIfDone does nothing while the root window has its browser.
LEMMA WindowDestroyed ==
  ASSUME IInv, NEW w \in Windows, hwnd[w] = "open", DestroyWindow(w),
         UNCHANGED <<kind, opener, temp, tasks>>, wm_close' \subseteq Windows \X {"CEF", "temp", "manager"}
  PROVE  IInv'
<1>0. TypeOK /\ Queue /\ \A v \in Windows : Each(v) BY DEF IInv
<1>1. /\ hwnd' = [hwnd EXCEPT ![w] = "destroyed"] /\ hwnd'[w] = "destroyed"
      /\ view' = view /\ asked' = asked \ {w}
      /\ browser' = IF Running(w) THEN [browser EXCEPT ![w] = "dying"] ELSE browser
  BY <1>0 DEF DestroyWindow, TypeOK
<1>2. view[w] # "destroyed" BY <1>0 DEF Each, Lags
<1>3. UNCHANGED <<root_windows_, quit>>
  BY <1>1, <1>2 DEF DestroyWindow, NotifyDestroyedIfDone, Told
<1>4. TypeOK' BY <1>0, <1>1, <1>3 DEF TypeOK
<1>5. Queue'
  <2>1. CASE Running(w)
    <3>1. /\ browser[w] \in {"open", "closing"} /\ "dying" \in BrowserStates
          /\ Latest(browser[w]) <= Latest("dying")
      BY <2>1, Stages DEF Running, BrowserStates
    <3>2. browser' = [browser EXCEPT ![w] = "dying"] BY <1>1, <2>1
    <3> QED BY <1>0, <1>1, <3>1, <3>2, QueueStays
  <2>2. CASE ~Running(w)
    BY <1>0, <1>1, <2>2 DEF Queue, InTurn, InTime, Timely, Direct
  <2> QED BY <2>1, <2>2
<1>6. Each(w)'
  <2>1. kind[w] # "unused" BY <1>0 DEF Each, Unused
  <2>2. \/ browser[w] \in {"open", "closing"} /\ browser'[w] = "dying"
        \/ browser[w] \notin {"open", "closing"} /\ browser'[w] = browser[w]
    BY <1>0, <1>1 DEF Running, TypeOK
  <2>3. Lags(w)' BY <1>0, <1>1, <2>2 DEF Each, Lags
  <2>4. Registered(w)' BY <1>0, <1>1, <1>2, <1>3, <2>1 DEF Each, Registered, Present, Posted
  <2> QED BY <2>1, <2>3, <2>4 DEF Each, Unused
<1>7. ASSUME NEW v \in Windows, v # w PROVE Each(v)'
  <2>1. hwnd'[v] = hwnd[v] /\ browser'[v] = browser[v] BY <1>0, <1>1, <1>7 DEF TypeOK
  <2> QED BY <1>0, <1>1, <1>3, <2>1, Others DEF NoTask, Posted
<1> QED BY <1>4, <1>5, <1>6, <1>7 DEF IInv

\* A step that leaves the windows, their browsers and the queue alone.
LEMMA Aside ==
  ASSUME IInv, UNCHANGED <<kind, opener, temp, browser, tasks, windowVars>>,
         wm_close' \subseteq Windows \X {"CEF", "temp", "manager"}, asked' \subseteq Windows
  PROVE  IInv'
<1>0. TypeOK /\ Queue /\ \A v \in Windows : Each(v) BY DEF IInv
<1>1. TypeOK' BY <1>0 DEF TypeOK, windowVars
<1>2. Queue' BY <1>0 DEF Queue, InTurn, InTime, Timely, Direct, windowVars
<1>3. ASSUME NEW v \in Windows PROVE Each(v)'
  BY <1>0, Others DEF NoTask, Posted, windowVars
<1> QED BY <1>1, <1>2, <1>3 DEF IInv

LEMMA OnCloseKeeps ==
  ASSUME IInv, NEW w \in Windows, hwnd[w] = "open", OnClose(w),
         UNCHANGED <<kind, opener, temp, tasks>>, wm_close' \subseteq Windows \X {"CEF", "temp", "manager"}
  PROVE  IInv'
<1>1. CASE ~MayClose(w)
  <2>1. /\ UNCHANGED <<browser, windowVars>>
        /\ asked' = IF browser[w] = "open" THEN asked \cup {w} ELSE asked
    BY <1>1 DEF OnClose
  <2>2. asked' \subseteq Windows BY <2>1 DEF IInv, TypeOK
  <2> QED BY <2>1, <2>2, Aside
<1>2. CASE MayClose(w) BY <1>2, WindowDestroyed DEF OnClose
<1> QED BY <1>1, <1>2

LEMMA UserClosesKeeps == ASSUME IInv, NEW w \in Windows, UserCloses(w) PROVE IInv'
BY OnCloseKeeps DEF UserCloses, IInv, TypeOK

LEMMA CloseArrivesKeeps ==
  ASSUME IInv, NEW w \in Windows, NEW from \in {"CEF", "manager"}, CloseArrives(w, from)
  PROVE  IInv'
<1>0. wm_close' = wm_close \ {<<w, from>>} BY DEF CloseArrives
<1>1. wm_close' \subseteq Windows \X {"CEF", "temp", "manager"}
  <2>1. wm_close \subseteq Windows \X {"CEF", "temp", "manager"} BY DEF IInv, TypeOK
  <2> QED BY <1>0, <2>1
<1>2. CASE hwnd[w] = "open" /\ OnClose(w) BY <1>1, <1>2, OnCloseKeeps DEF CloseArrives
<1>3. CASE UNCHANGED <<browser, asked, windowVars>>
  <2>1. asked' \subseteq Windows BY <1>3 DEF IInv, TypeOK
  <2> QED BY <1>1, <1>3, <2>1, Aside DEF CloseArrives
<1> QED BY <1>2, <1>3 DEF CloseArrives

\* The browsers of several windows begin to die at once.
LEMMA QueueOutlives ==
  ASSUME TypeOK, Queue, UNCHANGED <<view, tasks>>,
         \A v \in Windows : \/ browser'[v] = browser[v]
                            \/ Running(v) /\ browser'[v] = "dying"
  PROVE  Queue'
<1>1. InTurn' BY DEF Queue, InTurn
<1>2. ASSUME NEW i \in 1..Len(tasks) PROVE Timely(tasks[i], browser', view)
  <2>1. Timely(tasks[i], browser, view) BY DEF Queue, InTime
  <2>2. tasks[i][2] \in Windows /\ tasks[i][1] \in Names BY TaskType
  <2>3. CASE browser'[tasks[i][2]] = browser[tasks[i][2]] BY <2>1, <2>3 DEF Timely
  <2>4. CASE Running(tasks[i][2]) /\ browser'[tasks[i][2]] = "dying"
    <3>1. Rank(tasks[i][1]) \in 1..5 BY <2>2, RankIs
    <3> QED BY <2>1, <2>4, <3>1, Stages DEF Timely, Running
  <2> QED BY <2>2, <2>3, <2>4
<1>3. InTime' BY <1>2 DEF InTime
<1>4. Direct' BY TaskType DEF Queue, Direct, Running
<1> QED BY <1>1, <1>3, <1>4 DEF Queue

LEMMA TempWindowClosesKeeps == ASSUME IInv, NEW w \in Windows, TempWindowCloses(w) PROVE IInv'
<1>0. TypeOK /\ Queue /\ \A v \in Windows : Each(v) BY DEF IInv
<1>1. /\ UNCHANGED <<kind, opener, root_windows_, hwnd, view, tasks, asked, quit>>
      /\ temp' = "destroyed" /\ wm_close' \subseteq wm_close
      /\ browser' = [v \in Windows |-> IF InTempWindow(v) THEN "dying" ELSE browser[v]]
  BY DEF TempWindowCloses
<1>2. \A v \in Windows : \/ browser'[v] = browser[v]
                         \/ Running(v) /\ browser'[v] = "dying"
  BY <1>1 DEF InTempWindow
<1>3. TypeOK'
  <2>1. browser' \in [Windows -> BrowserStates] BY <1>0, <1>1 DEF TypeOK, BrowserStates
  <2> QED BY <1>0, <1>1, <2>1 DEF TypeOK, BrowserStates
<1>4. Queue' BY <1>0, <1>1, <1>2, QueueOutlives
<1>5. ASSUME NEW v \in Windows PROVE Each(v)'
  <2>1. CASE browser'[v] = browser[v] BY <1>0, <1>1, <2>1, Others DEF NoTask, Posted
  <2>2. CASE Running(v) /\ browser'[v] = "dying"
    <3>1. Unused(v) /\ Lags(v) /\ Registered(v) BY <1>0 DEF Each
    <3>2. Unused(v)' BY <1>1, <2>2, <3>1 DEF Unused, Running
    <3>3. Lags(v)' BY <1>1, <2>2, <3>1 DEF Lags, Running
    <3>4. Registered(v)' BY <1>1, <3>1 DEF Registered, Present, Posted
    <3> QED BY <3>2, <3>3, <3>4 DEF Each
  <2> QED BY <1>2, <2>1, <2>2
<1> QED BY <1>3, <1>4, <1>5 DEF IInv

LEMMA OnExitKeeps == ASSUME IInv, OnExit PROVE IInv'
<1> DEFINE Here == {v \in root_windows_ : hwnd[v] = "open"}
<1>1. /\ wm_close \subseteq Windows \X {"CEF", "temp", "manager"} /\ asked \subseteq Windows
      /\ Here \subseteq Windows
  BY DEF IInv, TypeOK
<1>2. wm_close' = wm_close \cup {<<w, "manager">> : w \in Here} /\ asked' = asked
  BY DEF OnExit
<1>3. wm_close' \subseteq Windows \X {"CEF", "temp", "manager"}
  <2> HIDE DEF Here
  <2>1. {<<w, "manager">> : w \in Here} \subseteq Windows \X {"CEF", "temp", "manager"} BY <1>1
  <2> QED BY <1>1, <1>2, <2>1
<1> QED BY <1>1, <1>2, <1>3, Aside DEF OnExit, windowVars

LEMMA PageStaysKeeps == ASSUME IInv, NEW w \in Windows, PageStays(w) PROVE IInv'
<1>1. wm_close' \subseteq Windows \X {"CEF", "temp", "manager"} /\ asked' \subseteq Windows
  BY DEF PageStays, IInv, TypeOK
<1> QED BY <1>1, Aside DEF PageStays, windowVars

\* The browser of a window will not come to be.
LEMMA NeverComes ==
  ASSUME IInv, NEW w \in Windows, browser[w] = "requested",
         browser' = [browser EXCEPT ![w] = "never"],
         UNCHANGED <<kind, opener, temp, tasks, wm_close, asked, windowVars>>
  PROVE  IInv'
<1>0. TypeOK /\ Queue /\ \A v \in Windows : Each(v) BY DEF IInv
<1>1. TypeOK' BY <1>0 DEF TypeOK, windowVars
<1>2. Latest("requested") <= Latest("never") /\ "never" \in BrowserStates
  BY Stages DEF BrowserStates
<1>3. Queue' BY <1>0, <1>2, QueueStays DEF windowVars
<1>4. Each(w)'
  BY <1>0 DEF Each, Unused, Lags, Registered, Present, Posted, TypeOK, windowVars
<1>5. ASSUME NEW v \in Windows, v # w PROVE Each(v)'
  <2>1. browser'[v] = browser[v] BY <1>0, <1>5 DEF TypeOK
  <2> QED BY <1>0, <2>1, Others DEF NoTask, Posted, windowVars
<1> QED BY <1>1, <1>3, <1>4, <1>5 DEF IInv

LEMMA PopupDroppedKeeps == ASSUME IInv, NEW w \in Windows, PopupDropped(w) PROVE IInv'
BY NeverComes DEF PopupDropped, windowVars

\* On one thread, whatever is posted of a window whose browser is there has been run.
LEMMA NothingPosted ==
  ASSUME IInv, NEW w \in Windows, ~MultiThreaded,
         browser[w] \notin {"requested", "never"} \/ ~Posted("registered", w)
  PROVE  NoTask(w)
<1>0. TypeOK /\ Direct BY DEF IInv, Queue
<1> SUFFICES ASSUME NEW i \in 1..Len(tasks), tasks[i][2] = w PROVE FALSE BY DEF NoTask
<1>1. tasks[i][1] = "registered" /\ browser[w] \in {"requested", "never"} BY <1>0 DEF Direct
<1>2. tasks[i] = <<tasks[i][1], tasks[i][2]>> BY <1>0, TaskType
<1>3. tasks[i] = <<"registered", w>> BY <1>1, <1>2
<1>4. Posted("registered", w) BY <1>3 DEF Posted
<1> QED BY <1>1, <1>4

LEMMA BrowserCreatedKeeps == ASSUME IInv, NEW w \in Windows, BrowserCreated(w) PROVE IInv'
<1>1. CASE browser' = [browser EXCEPT ![w] = "open"] /\ FromUiThread("created", w)
  <2>1. /\ browser[w] = "requested" /\ "open" \in BrowserStates
        /\ Latest("requested") < Rank("created") /\ Rank("created") <= Latest("open")
    BY Stages, RankIs DEF BrowserCreated, BrowserStates
  <2>2. ~MultiThreaded => NoTask(w) BY NothingPosted DEF BrowserCreated
  <2>3. kind' = kind /\ UNCHANGED <<opener, temp, wm_close, asked>> BY DEF BrowserCreated
  <2>4. /\ hwnd' \in [Windows -> {"none", "open", "destroyed"}]
        /\ view' \in [Windows -> {"none", "open", "closing", "destroyed"}]
        /\ root_windows_' \subseteq Windows /\ quit' \in BOOLEAN
        /\ tasks' \in Seq(Closures \X Windows)
        /\ Queue' /\ \A v \in Windows : Each(v)'
    BY <1>1, <2>1, <2>2, <2>3, Notified
  <2> QED BY <1>1, <2>3, <2>4 DEF IInv, TypeOK
<1>2. CASE browser' = [browser EXCEPT ![w] = "never"] /\ UNCHANGED <<windowVars, tasks>>
  BY <1>2, NeverComes DEF BrowserCreated
<1> QED BY <1>1, <1>2 DEF BrowserCreated

LEMMA DoCloseKeeps == ASSUME IInv, NEW w \in Windows, DoClose(w) PROVE IInv'
<1>1. /\ browser[w] = "open" /\ "closing" \in BrowserStates
      /\ Latest("open") < Rank("closing") /\ Rank("closing") <= Latest("closing")
  BY Stages, RankIs DEF DoClose, BrowserStates
<1>2. ~MultiThreaded => NoTask(w) BY <1>1, NothingPosted
<1>3. /\ browser' = [browser EXCEPT ![w] = "closing"] /\ FromUiThread("closing", w)
      /\ kind' = kind /\ opener' = opener /\ temp' = temp /\ asked' = asked \ {w}
      /\ \/ wm_close' = wm_close \cup {<<w, "CEF">>}
         \/ wm_close' = wm_close \cup {<<w, "temp">>}
  BY DEF DoClose
<1>4. /\ hwnd' \in [Windows -> {"none", "open", "destroyed"}]
      /\ view' \in [Windows -> {"none", "open", "closing", "destroyed"}]
      /\ root_windows_' \subseteq Windows /\ quit' \in BOOLEAN
      /\ tasks' \in Seq(Closures \X Windows)
      /\ Queue' /\ \A v \in Windows : Each(v)'
  BY <1>1, <1>2, <1>3, Notified
<1>5. /\ browser' \in [Windows -> BrowserStates]
      /\ wm_close' \subseteq Windows \X {"CEF", "temp", "manager"} /\ asked' \subseteq Windows
  BY <1>3 DEF IInv, TypeOK, BrowserStates
<1> QED BY <1>3, <1>4, <1>5 DEF IInv, TypeOK, BrowserStates

LEMMA OnBeforeCloseKeeps == ASSUME IInv, NEW w \in Windows, OnBeforeClose(w) PROVE IInv'
<1>1. /\ browser[w] = "dying" /\ "ended" \in BrowserStates
      /\ Latest("dying") < Rank("closed") /\ Rank("closed") <= Latest("ended")
  <2>1. browser[w] = "dying" BY DEF OnBeforeClose
  <2>2. Latest("dying") < Rank("closed") /\ Rank("closed") <= Latest("ended")
    BY Stages, RankIs
  <2> QED BY <2>1, <2>2 DEF BrowserStates
<1>2. ~MultiThreaded => NoTask(w) BY <1>1, NothingPosted
<1>3. /\ browser' = [browser EXCEPT ![w] = "ended"] /\ FromUiThread("closed", w)
      /\ kind' = kind /\ UNCHANGED <<opener, temp, wm_close, asked>>
  BY DEF OnBeforeClose
<1>4. /\ hwnd' \in [Windows -> {"none", "open", "destroyed"}]
      /\ view' \in [Windows -> {"none", "open", "closing", "destroyed"}]
      /\ root_windows_' \subseteq Windows /\ quit' \in BOOLEAN
      /\ tasks' \in Seq(Closures \X Windows)
      /\ Queue' /\ \A v \in Windows : Each(v)'
  BY <1>1, <1>2, <1>3, Notified
<1> QED BY <1>3, <1>4 DEF IInv, TypeOK

\* The queue without its head, whose window has taken notice of it.
LEMMA QueueRun ==
  ASSUME TypeOK, Queue, tasks # <<>>, tasks' = Tail(tasks),
         NEW name \in Closures, NEW w \in Windows, tasks[1] = <<name, w>>,
         \A v \in Windows : v # w => browser'[v] = browser[v] /\ view'[v] = view[v],
         \/ browser'[w] = browser[w] /\ view'[w] = view[w]
         \/ browser'[w] = browser[w] /\ Shown(view'[w]) = Rank(name)
         \/ name = "create" /\ browser'[w] = "requested" /\ view'[w] = view[w]
  PROVE  Queue'
<1>1. /\ 1 \in 1..Len(tasks) /\ Len(tasks) \in Nat
      /\ \A i \in 1..Len(tasks') : i + 1 \in 1..Len(tasks) /\ tasks'[i] = tasks[i + 1]
  BY AfterRun
<1>2. /\ InTurn'
      /\ \A i \in 1..Len(tasks') :
           tasks'[i][2] = tasks[1][2] => Rank(tasks[1][1]) < Rank(tasks'[i][1])
  BY RunKeeps DEF Queue
<1>3. tasks[1][1] = name /\ tasks[1][2] = w OBVIOUS
<1>4. name \in Names BY DEF Closures, Names
<1>5. InTime'
  <2> SUFFICES ASSUME NEW i \in 1..Len(tasks')
               PROVE  Timely(tasks'[i], browser', view')
    BY DEF InTime
  <2>1. i + 1 \in 1..Len(tasks) /\ tasks'[i] = tasks[i + 1] BY <1>1
  <2>2. Timely(tasks'[i], browser, view) BY <2>1 DEF Queue, InTime
  <2>3. tasks'[i][2] \in Windows /\ tasks'[i][1] \in Names BY <2>1, TaskType
  <2>4. CASE tasks'[i][2] # w BY <2>2, <2>3, <2>4 DEF Timely
  <2>5. CASE tasks'[i][2] = w
    <3>1. Rank(name) < Rank(tasks'[i][1]) BY <1>2, <1>3, <2>5
    <3>2. CASE browser'[w] = browser[w] /\ view'[w] = view[w] BY <2>2, <2>5, <3>2 DEF Timely
    <3>3. CASE browser'[w] = browser[w] /\ Shown(view'[w]) = Rank(name)
      BY <2>2, <2>5, <3>1, <3>3 DEF Timely
    <3>4. CASE name = "create" /\ browser'[w] = "requested" /\ view'[w] = view[w]
      <4>1. browser[w] = "none"
        BY <1>1, <1>3, <3>4 DEF Queue, InTime, Timely
      <4>2. Latest(browser[w]) = Latest(browser'[w]) BY <3>4, <4>1, Stages
      <4>3. tasks'[i][1] # "create" BY <1>4, <3>1, <3>4, RankIs
      <4> QED BY <2>2, <2>5, <3>4, <4>2, <4>3 DEF Timely
    <3> QED BY <3>2, <3>3, <3>4
  <2> QED BY <2>4, <2>5
<1>6. Direct'
  <2> SUFFICES ASSUME ~MultiThreaded, NEW i \in 1..Len(tasks')
               PROVE  tasks'[i][1] = "registered" /\ browser'[tasks'[i][2]] \in {"requested", "never"}
    BY DEF Direct
  <2>1. i + 1 \in 1..Len(tasks) /\ tasks'[i] = tasks[i + 1] BY <1>1
  <2>2. tasks'[i][2] \in Windows BY <2>1, TaskType
  <2>3. /\ tasks'[i][1] = "registered" /\ browser[tasks'[i][2]] \in {"requested", "never"}
        /\ name = "registered"
    BY <1>1, <1>3, <2>1 DEF Queue, Direct
  <2> QED BY <2>2, <2>3
<1> QED BY <1>2, <1>5, <1>6 DEF Queue

LEMMA RunTaskKeeps == ASSUME IInv, RunTask PROVE IInv'
<1>0. TypeOK /\ Queue /\ (\A v \in Windows : Each(v)) /\ tasks # <<>> /\ tasks' = Tail(tasks)
  BY DEF IInv, RunTask
<1>1. /\ Head(tasks) = tasks[1] /\ 1 \in 1..Len(tasks)
      /\ tasks' \in Seq(Closures \X Windows)
  BY <1>0, AfterRun
<1>2. PICK name \in Closures, w \in Windows :
        name \in Names /\ tasks[1][1] = name /\ tasks[1][2] = w /\ tasks[1] = <<name, w>>
  BY <1>0, <1>1, TaskType
<1>3. /\ \A n, v : Posted(n, v) <=> Posted(n, v)' \/ (n = name /\ v = w)
      /\ ~Posted(name, w)'
      /\ \A v : v # w => (NoTask(v)' <=> NoTask(v))
  <2>1. /\ \A n, v : Posted(n, v) <=> Posted(n, v)' \/ tasks[1] = <<n, v>>
        /\ \A n, v : tasks[1] = <<n, v>> => ~Posted(n, v)'
        /\ \A v : v # tasks[1][2] => (NoTask(v)' <=> NoTask(v))
    BY <1>0, RunKeeps DEF Queue
  <2>2. \A n, v : tasks[1] = <<n, v>> <=> n = name /\ v = w BY <1>2
  <2> QED BY <1>2, <2>1, <2>2
<1>4. ~NoTask(w) BY <1>1, <1>2 DEF NoTask
<1>5. kind[w] # "unused" BY <1>0, <1>2, <1>4 DEF Each, Unused
<1>6. Rank(name) <= Latest(browser[w]) /\ Shown(view[w]) < Rank(name)
      /\ (name = "create" => browser[w] = "none")
  BY <1>0, <1>1, <1>2 DEF Queue, InTime, Timely
<1>7. Rank(name) \in 1..5 BY <1>2, RankIs
<1>8. /\ view[w] \in {"none", "open", "closing", "destroyed"} /\ browser[w] \in BrowserStates
      /\ Shown(view[w]) \in 0..5 /\ view[w] # "destroyed"
  <2>1. view[w] \in {"none", "open", "closing", "destroyed"} /\ browser[w] \in BrowserStates
    BY <1>0, <1>2 DEF TypeOK, BrowserStates
  <2> QED BY <1>6, <1>7, <2>1, Stages
<1>9. UNCHANGED <<kind, opener, temp, wm_close, asked>> BY DEF RunTask
<1>10. CASE name = "create"
  <2>1. /\ hwnd' = [hwnd EXCEPT ![w] = "open"] /\ browser' = [browser EXCEPT ![w] = "requested"]
        /\ UNCHANGED <<root_windows_, view, quit>>
    BY <1>1, <1>2, <1>10 DEF RunTask, CreateNativeWindow
  <2>2. /\ hwnd'[w] = "open" /\ browser'[w] = "requested"
        /\ \A v \in Windows : v # w => hwnd'[v] = hwnd[v] /\ browser'[v] = browser[v]
    BY <1>0, <2>1, <1>2 DEF TypeOK
  <2>3. TypeOK' BY <1>0, <1>1, <1>2, <1>9, <2>1 DEF TypeOK
  <2>4. Queue' BY <1>0, <1>2, <1>10, <2>1, <2>2, QueueRun
  <2>5. view[w] = "none" BY <1>0, <1>2, <1>6, <1>8, <1>10 DEF Each, Lags
  <2>6. Each(w)'
    <3>1. Posted("registered", w)' <=> Posted("registered", w) BY <1>2, <1>3, <1>10
    <3> QED BY <1>0, <1>2, <1>5, <1>9, <2>1, <2>2, <2>5, <3>1
        DEF Each, Unused, Lags, Registered, Present
  <2>7. ASSUME NEW v \in Windows, v # w PROVE Each(v)'
    <3>1. Posted("registered", v)' <=> Posted("registered", v) BY <1>2, <1>3, <2>7
    <3> QED BY <1>0, <1>3, <1>9, <2>1, <2>2, <2>7, <3>1, Others
  <2> QED BY <2>3, <2>4, <2>6, <2>7 DEF IInv
<1>11. CASE name = "registered"
  <2>1. root_windows_' = root_windows_ \cup {w} /\ UNCHANGED <<hwnd, view, quit, browser>>
    BY <1>1, <1>2, <1>11 DEF RunTask, Perform, OnRootWindowCreated
  <2>2. TypeOK' BY <1>0, <1>1, <1>2, <1>9, <2>1 DEF TypeOK
  <2>3. Queue' BY <1>0, <1>2, <2>1, QueueRun
  <2>4. Each(w)'
    <3>1. ~Posted("registered", w)' BY <1>2, <1>3, <1>11
    <3> QED BY <1>0, <1>2, <1>5, <1>8, <1>9, <2>1, <3>1
        DEF Each, Unused, Lags, Registered, Present
  <2>5. ASSUME NEW v \in Windows, v # w PROVE Each(v)'
    <3>1. Posted("registered", v)' <=> Posted("registered", v) BY <1>2, <1>3, <2>5
    <3> QED BY <1>0, <1>3, <1>9, <2>1, <2>5, <3>1, Others
  <2> QED BY <2>2, <2>3, <2>4, <2>5 DEF IInv
<1>12. CASE name \in {"created", "closing", "closed"}
  <2>1. Perform(name, w) /\ browser' = browser BY <1>1, <1>2, <1>12 DEF RunTask
  <2>2. /\ view' = [view EXCEPT ![w] = After(name)]
        /\ view' \in [Windows -> {"none", "open", "closing", "destroyed"}]
        /\ hwnd' \in [Windows -> {"none", "open", "destroyed"}]
        /\ root_windows_' \subseteq Windows /\ quit' \in BOOLEAN
        /\ \A v \in Windows : v # w => hwnd'[v] = hwnd[v] /\ view'[v] = view[v]
        /\ \A v \in Windows : v # w => (v \in root_windows_' <=> v \in root_windows_)
    BY <1>0, <1>2, <1>12, <2>1, Performed
  <2>3. TypeOK' BY <1>0, <1>1, <1>9, <2>1, <2>2 DEF TypeOK
  <2>4. Shown(view'[w]) = Rank(name)
    <3>1. view'[w] = After(name) BY <1>0, <1>2, <2>2 DEF TypeOK
    <3> QED BY <1>12, <3>1, RankIs, Stages DEF After
  <2>5. Queue' BY <1>0, <1>2, <2>1, <2>2, <2>4, QueueRun
  <2>6. Each(w)'
    <3>1. Posted("registered", w)' <=> Posted("registered", w) BY <1>2, <1>3, <1>12
    <3> QED BY <1>0, <1>2, <1>5, <1>6, <1>8, <1>9, <1>12, <2>1, <3>1, PerformKeeps
  <2>7. ASSUME NEW v \in Windows, v # w PROVE Each(v)'
    <3>1. Posted("registered", v)' <=> Posted("registered", v) BY <1>2, <1>3, <2>7
    <3> QED BY <1>0, <1>3, <1>9, <2>1, <2>2, <2>7, <3>1, Others
  <2> QED BY <2>3, <2>5, <2>6, <2>7 DEF IInv
<1> QED BY <1>2, <1>10, <1>11, <1>12 DEF Names

\* The queue, when a step is about a window that it holds nothing of.
LEMMA QueueOfOthers ==
  ASSUME TypeOK, Queue, tasks' = tasks, view' = view, NEW w \in Windows, NoTask(w),
         \A v \in Windows : v # w => browser'[v] = browser[v]
  PROVE  Queue'
<1>1. ASSUME NEW i \in 1..Len(tasks)
      PROVE  browser'[tasks[i][2]] = browser[tasks[i][2]]
  BY TaskType DEF NoTask
<1> QED BY <1>1 DEF Queue, InTurn, InTime, Timely, Direct

\* What is true of a window that the browser of another asks for.
LEMMA NamedIs ==
  ASSUME IInv, NEW o \in Windows, NEW w \in Windows, NEW k \in {"window", "popup", "tools"},
         Named(k, o, w)
  PROVE  /\ kind' \in [Windows -> {"unused", "window", "popup", "tools"}]
         /\ opener' \in [Windows -> Windows \cup {NoWindow}]
         /\ kind'[w] # "unused" /\ \A v \in Windows : v # w => kind'[v] = kind[v]
         /\ NoTask(w) /\ ~Posted("registered", w) /\ w \notin root_windows_
         /\ browser[w] = "none" /\ hwnd[w] = "none" /\ view[w] = "none" /\ temp' = temp
<1>0. TypeOK /\ Each(w) BY DEF IInv
<1>1. /\ kind[w] = "unused" /\ kind' = [kind EXCEPT ![w] = k] /\ opener' = [opener EXCEPT ![w] = o]
      /\ temp' = temp
  BY DEF Named
<1>2. /\ kind' \in [Windows -> {"unused", "window", "popup", "tools"}]
      /\ opener' \in [Windows -> Windows \cup {NoWindow}]
      /\ kind'[w] # "unused" /\ \A v \in Windows : v # w => kind'[v] = kind[v]
  BY <1>0, <1>1 DEF TypeOK
<1>3. /\ NoTask(w) /\ w \notin root_windows_
      /\ browser[w] = "none" /\ hwnd[w] = "none" /\ view[w] = "none"
  BY <1>0, <1>1 DEF Each, Unused
<1>4. ~Posted("registered", w)
  <2> SUFFICES ASSUME NEW i \in 1..Len(tasks), tasks[i] = <<"registered", w>> PROVE FALSE
    BY DEF Posted
  <2>1. tasks[i][2] = w OBVIOUS
  <2> QED BY <1>3, <2>1 DEF NoTask
<1> QED BY <1>1, <1>2, <1>3, <1>4

\* A window that is registered at once.
LEMMA NewRegistered ==
  ASSUME IInv, NEW o \in Windows, NEW w \in Windows, NEW k \in {"window", "popup", "tools"},
         Named(k, o, w), NEW h \in {"none", "open"}, NEW b \in BrowserStates,
         hwnd' = [hwnd EXCEPT ![w] = h], browser' = [browser EXCEPT ![w] = b],
         root_windows_' = root_windows_ \cup {w}, UNCHANGED <<view, tasks, wm_close, asked, quit>>
  PROVE  IInv'
<1>0. TypeOK /\ Queue /\ \A v \in Windows : Each(v) BY DEF IInv
<1>1. /\ kind' \in [Windows -> {"unused", "window", "popup", "tools"}]
      /\ opener' \in [Windows -> Windows \cup {NoWindow}]
      /\ kind'[w] # "unused" /\ \A v \in Windows : v # w => kind'[v] = kind[v]
      /\ NoTask(w) /\ ~Posted("registered", w) /\ view[w] = "none" /\ temp' = temp
  BY NamedIs
<1>2. \A v \in Windows : v # w => hwnd'[v] = hwnd[v] /\ browser'[v] = browser[v]
  BY <1>0 DEF TypeOK
<1>3. TypeOK' BY <1>0, <1>1 DEF TypeOK, BrowserStates
<1>4. Queue' BY <1>0, <1>1, <1>2, QueueOfOthers
<1>5. Each(w)' BY <1>1 DEF Each, Unused, Lags, Registered, Present, Posted
<1>6. ASSUME NEW v \in Windows, v # w PROVE Each(v)'
  BY <1>0, <1>1, <1>2, <1>6, Others DEF NoTask, Posted
<1> QED BY <1>3, <1>4, <1>5, <1>6 DEF IInv

\* A window whose registration is posted.
LEMMA NewPosted ==
  ASSUME IInv, NEW o \in Windows, NEW w \in Windows, NEW k \in {"window", "popup", "tools"},
         Named(k, o, w), NEW b \in {"requested", "never"},
         browser' = [browser EXCEPT ![w] = b], tasks' = Append(tasks, <<"registered", w>>),
         UNCHANGED <<wm_close, asked, windowVars>>
  PROVE  IInv'
<1>0. TypeOK /\ Queue /\ \A v \in Windows : Each(v) BY DEF IInv
<1>1. /\ kind' \in [Windows -> {"unused", "window", "popup", "tools"}]
      /\ opener' \in [Windows -> Windows \cup {NoWindow}]
      /\ kind'[w] # "unused" /\ \A v \in Windows : v # w => kind'[v] = kind[v]
      /\ NoTask(w) /\ w \notin root_windows_ /\ view[w] = "none" /\ temp' = temp
  BY NamedIs
<1>2. /\ "registered" \in Closures /\ b \in BrowserStates
      /\ Rank("registered") <= Latest(b) /\ Shown(view[w]) < Rank("registered")
  BY <1>1, RankIs, Stages DEF Closures, BrowserStates
<1>3. /\ Queue' /\ tasks' \in Seq(Closures \X Windows)
      /\ \A n, v : Posted(n, v)' <=> Posted(n, v) \/ (n = "registered" /\ v = w)
      /\ \A v : NoTask(v)' <=> NoTask(v) /\ v # w
  BY <1>0, <1>1, <1>2, QueuePosted DEF windowVars
<1>4. TypeOK' BY <1>0, <1>1, <1>2, <1>3 DEF TypeOK, BrowserStates, windowVars
<1>5. Each(w)' BY <1>1, <1>3 DEF Each, Unused, Lags, Registered, windowVars
<1>6. ASSUME NEW v \in Windows, v # w PROVE Each(v)'
  <2>1. browser'[v] = browser[v] BY <1>0, <1>6 DEF TypeOK
  <2> QED BY <1>0, <1>1, <1>3, <1>6, <2>1, Others DEF windowVars
<1> QED BY <1>3, <1>4, <1>5, <1>6 DEF IInv

LEMMA OnBeforePopupKeeps ==
  ASSUME IInv, NEW o \in Windows, NEW w \in Windows, OnBeforePopup(o, w)
  PROVE  IInv'
BY NewPosted DEF OnBeforePopup, OnMainThread, windowVars

LEMMA ShowDevToolsKeeps ==
  ASSUME IInv, NEW o \in Windows, NEW w \in Windows, ShowDevTools(o, w)
  PROVE  IInv'
<1>1. PICK b \in {"requested", "never"} : browser' = [browser EXCEPT ![w] = b]
  BY DEF ShowDevTools
<1>2. Named("tools", o, w) /\ FromUiThread("registered", w) /\ UNCHANGED <<wm_close, asked>>
  BY DEF ShowDevTools
<1>3. CASE MultiThreaded
  <2>1. tasks' = Append(tasks, <<"registered", w>>) /\ UNCHANGED windowVars
    BY <1>2, <1>3 DEF FromUiThread, OnMainThread
  <2> QED BY <1>1, <1>2, <2>1, NewPosted
<1>4. CASE ~MultiThreaded
  <2>1. UNCHANGED tasks /\ OnRootWindowCreated(w)
    BY <1>2, <1>4 DEF FromUiThread, OnMainThread, Perform
  <2>2. hwnd' = [hwnd EXCEPT ![w] = "none"] /\ "none" \in {"none", "open"}
    <3>1. hwnd[w] = "none" BY <1>2, NamedIs
    <3>2. hwnd' = hwnd BY <2>1 DEF OnRootWindowCreated
    <3> QED BY <3>1, <3>2 DEF IInv, TypeOK
  <2>3. b \in BrowserStates BY DEF BrowserStates
  <2> QED BY <1>1, <1>2, <2>1, <2>2, <2>3, NewRegistered DEF OnRootWindowCreated
<1> QED BY <1>3, <1>4 DEF WindowsAssumption

\* The two closures that create a window from another thread.
LEMMA CreationPosted ==
  ASSUME TypeOK, Queue, NEW w \in Windows, NoTask(w), MultiThreaded,
         browser[w] = "none", view[w] = "none",
         browser' = browser, view' = view, tasks' = tasks \o CreateTasks(w)
  PROVE  /\ Queue' /\ tasks' \in Seq(Closures \X Windows)
         /\ Posted("create", w)' /\ Posted("registered", w)'
         /\ \A v : v # w => (Posted("registered", v)' <=> Posted("registered", v))
         /\ \A v : v # w /\ NoTask(v) => NoTask(v)'
         /\ Len(tasks') = Len(tasks) + 2 /\ \A i \in 1..Len(tasks) : tasks'[i] = tasks[i]
         /\ \A i \in 1..Len(tasks') : i \in 1..Len(tasks) \/ tasks'[i][2] = w
<1> DEFINE n == Len(tasks)
<1>1. /\ tasks \in Seq(Closures \X Windows) /\ n \in Nat
      /\ <<"create", w>> \in Closures \X Windows /\ <<"registered", w>> \in Closures \X Windows
  BY DEF TypeOK, Closures
<1>2. /\ CreateTasks(w) \in Seq(Closures \X Windows) /\ Len(CreateTasks(w)) = 2
      /\ CreateTasks(w)[1] = <<"create", w>> /\ CreateTasks(w)[2] = <<"registered", w>>
  BY <1>1 DEF CreateTasks
<1>3. /\ tasks' \in Seq(Closures \X Windows) /\ Len(tasks') = n + 2
      /\ \A i \in 1..n : tasks'[i] = tasks[i]
      /\ tasks'[n + 1] = <<"create", w>> /\ tasks'[n + 2] = <<"registered", w>>
  <2> DEFINE C == CreateTasks(w)
             T == Closures \X Windows
  <2>1. /\ tasks \in Seq(T) /\ C \in Seq(T) /\ n = Len(tasks) /\ Len(C) = 2 /\ tasks' = tasks \o C
        /\ C[1] = <<"create", w>> /\ C[2] = <<"registered", w>> /\ n \in Nat
    BY <1>1, <1>2
  <2> HIDE DEF C, T, n
  <2>2. tasks' \in Seq(T) /\ Len(tasks') = n + 2
    <3>1. Len(tasks \o C) = Len(tasks) + Len(C) /\ tasks \o C \in Seq(T)
      BY <2>1, ConcatProperties
    <3> QED BY <2>1, <3>1
  <2>3. \A i \in 1..n : tasks'[i] = tasks[i] BY <2>1
  <2>4. \A i \in 1..2 : tasks'[n + i] = C[i]
    <3>1. \A i \in 1..(Len(tasks) + Len(C)) :
            (tasks \o C)[i] = IF i <= Len(tasks) THEN tasks[i] ELSE C[i - Len(tasks)]
      BY <2>1, ConcatProperties
    <3> SUFFICES ASSUME NEW i \in 1..2 PROVE tasks'[n + i] = C[i] OBVIOUS
    <3>2. n + i \in 1..(n + 2) /\ ~(n + i <= n) /\ (n + i) - n = i BY <2>1
    <3> QED BY <2>1, <3>1, <3>2
  <2>5. 1 \in 1..2 /\ 2 \in 1..2 OBVIOUS
  <2>6. tasks'[n + 1] = <<"create", w>> /\ tasks'[n + 2] = <<"registered", w>>
    BY <2>1, <2>4, <2>5
  <2> QED BY <2>2, <2>3, <2>6 DEF T
<1> HIDE DEF n
<1>4. \A i \in 1..Len(tasks') : i \in 1..n \/ i = n + 1 \/ i = n + 2 BY <1>1, <1>3
<1>5. tasks'[n + 1][2] = w /\ tasks'[n + 2][2] = w
      /\ tasks'[n + 1][1] = "create" /\ tasks'[n + 2][1] = "registered"
  BY <1>3
<1>6. \A i \in 1..n : tasks'[i][2] # w /\ tasks'[i][2] = tasks[i][2] BY <1>3 DEF NoTask, n
<1>7. InTurn'
  <2> SUFFICES ASSUME NEW i \in 1..Len(tasks'), NEW j \in 1..Len(tasks'),
                      i < j, tasks'[i][2] = tasks'[j][2]
               PROVE  Rank(tasks'[i][1]) < Rank(tasks'[j][1])
    BY DEF InTurn
  <2>1. CASE j \in 1..n
    <3>1. i \in 1..n BY <1>1, <2>1
    <3> QED BY <1>3, <2>1, <3>1 DEF Queue, InTurn, n
  <2>2. CASE j \in {n + 1, n + 2}
    <3>1. tasks'[j][2] = w BY <1>5, <2>2
    <3>2. i \notin 1..n BY <1>6, <3>1
    <3>3. i = n + 1 \/ i = n + 2 BY <1>4, <3>2
    <3>4. i = n + 1 /\ j = n + 2 BY <1>1, <2>2, <3>3
    <3> QED BY <1>5, <3>4, RankIs
  <2> QED BY <1>4, <2>1, <2>2
<1>8. InTime'
  <2> SUFFICES ASSUME NEW i \in 1..Len(tasks')
               PROVE  Timely(tasks'[i], browser, view)
    BY DEF InTime
  <2>1. CASE i \in 1..n BY <1>3, <2>1 DEF Queue, InTime, n
  <2>2. CASE i = n + 1
    <3>1. tasks'[i][1] = "create" /\ tasks'[i][2] = w BY <1>5, <2>2
    <3> QED BY <3>1, RankIs, Stages DEF Timely
  <2>3. CASE i = n + 2
    <3>1. tasks'[i][1] = "registered" /\ tasks'[i][2] = w BY <1>5, <2>3
    <3> QED BY <3>1, RankIs, Stages DEF Timely
  <2> QED BY <1>4, <2>1, <2>2, <2>3
<1>9. Posted("create", w)' /\ Posted("registered", w)'
  <2>1. n + 1 \in 1..Len(tasks') /\ n + 2 \in 1..Len(tasks') BY <1>1, <1>3
  <2> QED BY <1>3, <2>1 DEF Posted
<1>10. \A v : v # w => (Posted("registered", v)' <=> Posted("registered", v))
  <2> SUFFICES ASSUME NEW v, v # w PROVE Posted("registered", v)' <=> Posted("registered", v)
    OBVIOUS
  <2>1. 1..n \subseteq 1..Len(tasks') BY <1>1, <1>3
  <2>2. \A i \in 1..Len(tasks') : tasks'[i] = <<"registered", v>> => i \in 1..n
    BY <1>4, <1>5
  <2> QED BY <1>3, <2>1, <2>2 DEF Posted, n
<1>11. \A v : v # w /\ NoTask(v) => NoTask(v)' BY <1>3, <1>4, <1>5 DEF NoTask, n
<1>12. Direct' BY DEF Direct
<1>13. /\ Len(tasks') = Len(tasks) + 2 /\ \A i \in 1..Len(tasks) : tasks'[i] = tasks[i]
       /\ \A i \in 1..Len(tasks') : i \in 1..Len(tasks) \/ tasks'[i][2] = w
  BY <1>3, <1>4, <1>5 DEF n
<1> QED BY <1>3, <1>7, <1>8, <1>9, <1>10, <1>11, <1>12, <1>13 DEF Queue

LEMMA CreateRootWindowKeeps ==
  ASSUME IInv, NEW o \in Windows, NEW w \in Windows, NEW here \in BOOLEAN,
         CreateRootWindow(o, w, here)
  PROVE  IInv'
<1>0. TypeOK /\ Queue /\ \A v \in Windows : Each(v) BY DEF IInv
<1>1. Named("window", o, w) /\ UNCHANGED <<view, wm_close, asked, quit>>
  BY DEF CreateRootWindow
<1>2. /\ kind' \in [Windows -> {"unused", "window", "popup", "tools"}]
      /\ opener' \in [Windows -> Windows \cup {NoWindow}]
      /\ kind'[w] # "unused" /\ \A v \in Windows : v # w => kind'[v] = kind[v]
      /\ NoTask(w) /\ w \notin root_windows_ /\ browser[w] = "none" /\ view[w] = "none"
      /\ temp' = temp
  BY <1>1, NamedIs
<1>3. CASE here
  <2>1. /\ hwnd' = [hwnd EXCEPT ![w] = "open"] /\ browser' = [browser EXCEPT ![w] = "requested"]
        /\ root_windows_' = root_windows_ \cup {w} /\ tasks' = tasks
    BY <1>3 DEF CreateRootWindow, CreateNativeWindow
  <2>2. "requested" \in BrowserStates BY DEF BrowserStates
  <2> QED BY <1>1, <2>1, <2>2, NewRegistered
<1>4. CASE ~here
  <2>1. MultiThreaded /\ tasks' = tasks \o CreateTasks(w) /\ UNCHANGED <<root_windows_, hwnd, browser>>
    BY <1>4 DEF CreateRootWindow
  <2>2. /\ Queue' /\ tasks' \in Seq(Closures \X Windows)
        /\ Posted("registered", w)'
        /\ \A v : v # w => (Posted("registered", v)' <=> Posted("registered", v))
        /\ \A v : v # w /\ NoTask(v) => NoTask(v)'
    BY <1>0, <1>1, <1>2, <2>1, CreationPosted
  <2>3. TypeOK' BY <1>0, <1>1, <1>2, <2>1, <2>2 DEF TypeOK
  <2>4. Each(w)' BY <1>1, <1>2, <2>1, <2>2 DEF Each, Unused, Lags, Registered
  <2>5. ASSUME NEW v \in Windows, v # w PROVE Each(v)'
    BY <1>0, <1>1, <1>2, <2>1, <2>2, <2>5, Others
  <2> QED BY <2>2, <2>3, <2>4, <2>5 DEF IInv
<1> QED BY <1>3, <1>4
-----------------------------------------------------------------------------
LEMMA InitHolds == Init => IInv
<1> SUFFICES ASSUME Init PROVE IInv OBVIOUS
<1>1. TypeOK
  <2>1. /\ kind \in [Windows -> {"unused", "window", "popup", "tools"}]
        /\ opener \in [Windows -> Windows \cup {NoWindow}]
        /\ hwnd \in [Windows -> {"none", "open", "destroyed"}]
        /\ view \in [Windows -> {"none", "open", "closing", "destroyed"}]
        /\ browser \in [Windows -> BrowserStates]
    BY DEF Init, BrowserStates
  <2>2. root_windows_ \subseteq Windows BY WindowsAssumption DEF Init
  <2>3. tasks \in Seq(Closures \X Windows) BY DEF Init
  <2>4. /\ wm_close \subseteq Windows \X {"CEF", "temp", "manager"} /\ asked \subseteq Windows
        /\ quit \in BOOLEAN /\ temp \in {"open", "destroyed"}
    BY DEF Init
  <2> QED BY <2>1, <2>2, <2>3, <2>4 DEF TypeOK, BrowserStates
<1>2. Len(tasks) = 0 BY DEF Init
<1>3. Queue BY <1>2 DEF Queue, InTurn, InTime, Direct
<1>4. ASSUME NEW w \in Windows PROVE Each(w)
  BY <1>2 DEF Init, Each, Unused, Lags, Registered, NoTask, Posted, Present
<1> QED BY <1>1, <1>3, <1>4 DEF IInv

LEMMA NextKeeps == IInv /\ [Next]_vars => IInv'
<1> SUFFICES ASSUME IInv, [Next]_vars PROVE IInv' OBVIOUS
<1>1. CASE RunTask BY <1>1, RunTaskKeeps
<1>2. CASE OnExit BY <1>2, OnExitKeeps
<1>3. ASSUME NEW w \in Windows, UserCloses(w) PROVE IInv' BY <1>3, UserClosesKeeps
<1>4. ASSUME NEW w \in Windows, NEW from \in {"CEF", "manager"}, CloseArrives(w, from) PROVE IInv'
  BY <1>4, CloseArrivesKeeps
<1>5. ASSUME NEW w \in Windows, BrowserCreated(w) PROVE IInv' BY <1>5, BrowserCreatedKeeps
<1>6. ASSUME NEW w \in Windows, PopupDropped(w) PROVE IInv' BY <1>6, PopupDroppedKeeps
<1>7. ASSUME NEW w \in Windows, DoClose(w) PROVE IInv' BY <1>7, DoCloseKeeps
<1>8. ASSUME NEW w \in Windows, PageStays(w) PROVE IInv' BY <1>8, PageStaysKeeps
<1>9. ASSUME NEW w \in Windows, OnBeforeClose(w) PROVE IInv' BY <1>9, OnBeforeCloseKeeps
<1>10. ASSUME NEW o \in Windows, NEW w \in Windows, NEW here \in BOOLEAN, CreateRootWindow(o, w, here)
       PROVE  IInv'
  BY <1>10, CreateRootWindowKeeps
<1>11. ASSUME NEW o \in Windows, NEW w \in Windows, OnBeforePopup(o, w) PROVE IInv'
  BY <1>11, OnBeforePopupKeeps
<1>12. ASSUME NEW o \in Windows, NEW w \in Windows, ShowDevTools(o, w) PROVE IInv'
  BY <1>12, ShowDevToolsKeeps
<1>13. CASE UNCHANGED vars
  <2>1. UNCHANGED <<kind, opener, temp, browser, tasks, windowVars>> /\ UNCHANGED <<wm_close, asked>>
    BY <1>13 DEF vars, windowVars
  <2>2. wm_close' \subseteq Windows \X {"CEF", "temp", "manager"} /\ asked' \subseteq Windows
    BY <2>1 DEF IInv, TypeOK
  <2> QED BY <2>1, <2>2, Aside
<1>14. ASSUME NEW w \in Windows, TempWindowCloses(w) PROVE IInv' BY <1>14, TempWindowClosesKeeps
<1> QED
  BY <1>1, <1>2, <1>3, <1>4, <1>5, <1>6, <1>7, <1>8, <1>9, <1>10, <1>11, <1>12, <1>13, <1>14
  DEF Next

LEMMA Always == Spec => []IInv
BY InitHolds, NextKeeps, PTL DEF Spec

\* Every variable keeps its type; in particular, where CEF's UI thread is the main thread,
\* nothing is ever posted to it but the registration of a window from the IO thread.
THEOREM TypeCorrect == Spec => []TypeOK
<1>1. IInv => TypeOK BY DEF IInv
<1> QED BY <1>1, Always, PTL

\* RootWindowManager holds exactly the root windows whose native window or browser has not
\* ended, but for those whose registration is still on its way, for any number of windows,
\* on one thread or two, whatever the order in which windows and browsers end.
THEOREM HeldUntilDone == Spec => []RegisteredUntilDone
<1>1. IInv => RegisteredUntilDone BY DEF IInv, Each, Registered, RegisteredUntilDone
<1> QED BY <1>1, Always, PTL
-----------------------------------------------------------------------------
(* The end of the windows, and of the application. *)

present == {w \in Windows : Present(w)}

\* While the registration of a window is on its way, the window that asked for it is there,
\* is registered before it and ends after it.
OpenerStays ==
  \A i \in 1..Len(tasks) : tasks[i][1] = "registered" =>
    LET w == tasks[i][2]
        o == opener[w]
    IN /\ o \in Windows /\ kind[o] # "unused" /\ view[o] # "destroyed"
       /\ \A j \in 1..Len(tasks) :
            /\ tasks[j] = <<"registered", o>> => j < i
            /\ tasks[j] = <<"closed", o>> => i < j
       /\ ~MultiThreaded => kind[w] = "popup" /\ browser[w] = "requested" /\ browser[o] # "ended"

QuitWithLast == quit <=> present = {}

\* A step in which CEF, on one thread, does not end the browser of an opener before its popup
\* has been created.
OpenerWaits ==
  MultiThreaded \/ \A w \in Windows :
    kind[w] = "popup" /\ browser[w] = "requested" /\ browser'[opener[w]] = "ended"
      => browser[opener[w]] = "ended"
-----------------------------------------------------------------------------
\* A set of positions has a first.
LEMMA Least ==
  ASSUME NEW n \in Nat, NEW T \in SUBSET (1..n), T # {}
  PROVE  \E x \in T : \A y \in T : x <= y
<1> DEFINE Below == {1..x : x \in T}
<1>1. ASSUME NEW x \in T PROVE 1..x \in FiniteSubsetsOf(Nat)
  <2>1. 1 \in Int /\ x \in Int OBVIOUS
  <2>2. IsFiniteSet(1..x) BY <2>1, FS_Interval
  <2>3. 1..x \in SUBSET Nat OBVIOUS
  <2> QED BY <2>2, <2>3 DEF FiniteSubsetsOf
<1>2. Below # {} /\ Below \subseteq FiniteSubsetsOf(Nat) BY <1>1
<1> HIDE DEF Below
<1>3. PICK b \in Below : \A c \in Below : <<c, b>> \notin StrictSubsetOrdering(Nat)
  BY <1>2, FS_StrictSubsetOrderingWellFounded, WFMin
<1>4. PICK x \in T : b = 1..x BY DEF Below
<1>5. ASSUME NEW y \in T, y < x PROVE FALSE
  <2>1. 1..y \in Below BY DEF Below
  <2>2. 1..y \subseteq 1..x /\ x \in 1..x /\ x \notin 1..y BY <1>5
  <2>3. 1..y \in SUBSET Nat /\ 1..x \in SUBSET Nat OBVIOUS
  <2>4. <<1..y, 1..x>> \in StrictSubsetOrdering(Nat) BY <2>2, <2>3 DEF StrictSubsetOrdering
  <2> QED BY <1>3, <1>4, <2>1, <2>4
<1> QED BY <1>5

\* As long as a window is there, one is registered: the opener of the first registration
\* on its way.
LEMMA OneIsHeld == IInv /\ OpenerStays => (root_windows_ = {} => present = {})
<1> SUFFICES ASSUME IInv, OpenerStays, root_windows_ = {}, NEW w \in Windows, Present(w)
             PROVE  FALSE
  BY DEF present
<1>0. TypeOK /\ \A v \in Windows : Each(v) BY DEF IInv
<1> DEFINE T == {i \in 1..Len(tasks) : tasks[i][1] = "registered"}
<1>1. ASSUME NEW v \in Windows, Present(v)
      PROVE  \E i \in 1..Len(tasks) : tasks[i] = <<"registered", v>>
  BY <1>0, <1>1 DEF Each, Registered, Posted
<1>2. T # {} /\ T \in SUBSET (1..Len(tasks)) BY <1>1
<1>3. Len(tasks) \in Nat BY <1>0 DEF TypeOK
<1>4. PICK i \in T : \A j \in T : i <= j
  <2> HIDE DEF T
  <2> QED BY <1>2, <1>3, Least
<1> DEFINE o == opener[tasks[i][2]]
<1>5. /\ o \in Windows /\ kind[o] # "unused" /\ view[o] # "destroyed"
      /\ \A j \in 1..Len(tasks) : tasks[j] = <<"registered", o>> => j < i
  BY DEF OpenerStays
<1>6. Present(o) BY <1>5 DEF Present
<1>7. PICK j \in 1..Len(tasks) : tasks[j] = <<"registered", o>> BY <1>1, <1>5, <1>6
<1>8. j < i BY <1>5, <1>7
<1>9. tasks[j][1] = "registered" BY <1>7
<1>10. i <= j BY <1>4, <1>9
<1> QED BY <1>3, <1>8, <1>10
-----------------------------------------------------------------------------
(* Openers stay. *)

\* What a step leaves of a window u whose registration is on its way.
Undisturbed(u) ==
  LET o == opener[u]
  IN /\ opener'[u] = o /\ kind'[u] = kind[u] /\ kind'[o] # "unused" /\ view'[o] # "destroyed"
     /\ ~MultiThreaded => browser'[u] = "requested" /\ browser'[o] # "ended"

\* What a step that posts the registration of w finds of its opener.
Sheltered(w) ==
  LET o == opener'[w]
  IN /\ o \in Windows /\ o # w /\ kind'[o] # "unused" /\ view'[o] # "destroyed"
     /\ ~Posted("closed", o)
     /\ kind[w] = "unused"
     /\ ~MultiThreaded => kind'[w] = "popup" /\ browser'[w] = "requested" /\ browser'[o] # "ended"

\* A step that posts closures of one window, or none.
LEMMA OpenersExtended ==
  ASSUME TypeOK, OpenerStays, NEW m \in Nat, NEW w,
         Len(tasks') = Len(tasks) + m, \A i \in 1..Len(tasks) : tasks'[i] = tasks[i],
         \A i \in 1..Len(tasks') : i \in 1..Len(tasks) \/ tasks'[i][2] = w,
         \A i \in 1..Len(tasks) : tasks[i][1] = "registered" => Undisturbed(tasks[i][2]),
         (\E i \in 1..Len(tasks') : i \notin 1..Len(tasks) /\ tasks'[i][1] = "registered")
           => Sheltered(w)
  PROVE  OpenerStays'
<1> SUFFICES ASSUME NEW i \in 1..Len(tasks'), tasks'[i][1] = "registered"
             PROVE  LET u == tasks'[i][2]
                        o == opener'[u]
                    IN /\ o \in Windows /\ kind'[o] # "unused" /\ view'[o] # "destroyed"
                       /\ \A j \in 1..Len(tasks') :
                            /\ tasks'[j] = <<"registered", o>> => j < i
                            /\ tasks'[j] = <<"closed", o>> => i < j
                       /\ ~MultiThreaded =>
                            kind'[u] = "popup" /\ browser'[u] = "requested" /\ browser'[o] # "ended"
  BY DEF OpenerStays
<1>0. Len(tasks) \in Nat BY DEF TypeOK
<1>1. \A j \in 1..Len(tasks') : j \in 1..Len(tasks) \/ j > Len(tasks) BY <1>0
<1>2. CASE i \in 1..Len(tasks)
  <2> DEFINE u == tasks[i][2]
             o == opener[u]
  <2>1. tasks'[i] = tasks[i] /\ tasks[i][1] = "registered" BY <1>2
  <2>2. Undisturbed(u) BY <1>2, <2>1
  <2>3. /\ o \in Windows /\ kind[o] # "unused" /\ view[o] # "destroyed"
        /\ \A j \in 1..Len(tasks) :
             /\ tasks[j] = <<"registered", o>> => j < i
             /\ tasks[j] = <<"closed", o>> => i < j
        /\ ~MultiThreaded => kind[u] = "popup" /\ browser[u] = "requested" /\ browser[o] # "ended"
    BY <1>2, <2>1 DEF OpenerStays
  <2>4. tasks'[i][2] = u BY <2>1
  <2> HIDE DEF u
  <2>5. opener'[u] = o BY <2>2 DEF Undisturbed
  <2>6. kind'[o] # "unused" /\ view'[o] # "destroyed"
        /\ (~MultiThreaded => kind'[u] = "popup" /\ browser'[u] = "requested" /\ browser'[o] # "ended")
    BY <2>2, <2>3 DEF Undisturbed
  <2>7. ASSUME NEW j \in 1..Len(tasks')
        PROVE  /\ tasks'[j] = <<"registered", o>> => j < i
               /\ tasks'[j] = <<"closed", o>> => i < j
    <3> HIDE DEF o
    <3>1. CASE j \in 1..Len(tasks) BY <2>3, <3>1
    <3>2. CASE j \notin 1..Len(tasks)
      <4>1. i < j BY <1>0, <1>1, <1>2, <3>2
      <4>2. tasks'[j] # <<"registered", o>>
        <5> SUFFICES ASSUME tasks'[j] = <<"registered", o>> PROVE FALSE OBVIOUS
        <5>1. o = w /\ tasks'[j][1] = "registered" BY <3>2
        <5>2. kind[w] = "unused" BY <3>2, <5>1 DEF Sheltered
        <5> QED BY <2>3, <5>1, <5>2
      <4> QED BY <4>1, <4>2
    <3> QED BY <3>1, <3>2
  <2> QED BY <2>3, <2>4, <2>5, <2>6, <2>7
<1>3. CASE i \notin 1..Len(tasks)
  <2> DEFINE o == opener'[w]
  <2>1. tasks'[i][2] = w /\ Sheltered(w) BY <1>3
  <2>2. /\ o \in Windows /\ o # w /\ kind'[o] # "unused" /\ view'[o] # "destroyed"
        /\ ~Posted("closed", o)
        /\ ~MultiThreaded => kind'[w] = "popup" /\ browser'[w] = "requested" /\ browser'[o] # "ended"
    BY <2>1 DEF Sheltered
  <2> HIDE DEF o
  <2>3. ASSUME NEW j \in 1..Len(tasks'), tasks'[j] = <<"registered", o>> \/ tasks'[j] = <<"closed", o>>
        PROVE  tasks'[j] = <<"registered", o>> /\ j < i
    <3>1. tasks'[j][2] = o BY <2>3
    <3>2. j \in 1..Len(tasks) /\ tasks[j] = tasks'[j] BY <2>2, <3>1
    <3>3. tasks[j] # <<"closed", o>> BY <2>2, <3>2 DEF Posted
    <3>4. j < i BY <1>0, <1>1, <1>3, <3>2
    <3> QED BY <2>3, <3>2, <3>3, <3>4
  <2>4. ASSUME NEW j \in 1..Len(tasks')
        PROVE  /\ tasks'[j] = <<"registered", o>> => j < i
               /\ tasks'[j] = <<"closed", o>> => i < j
    <3>1. <<"registered", o>> # <<"closed", o>>
      <4>1. <<"registered", o>>[1] # <<"closed", o>>[1] OBVIOUS
      <4> QED BY <4>1
    <3> QED BY <2>3, <3>1
  <2> QED BY <2>1, <2>2, <2>4 DEF o
<1> QED BY <1>2, <1>3

\* A step that runs a closure.
LEMMA OpenersRun ==
  ASSUME IInv, OpenerStays, RunTask
  PROVE  OpenerStays'
<1>0. TypeOK /\ tasks # <<>> /\ tasks' = Tail(tasks) /\ kind' = kind /\ opener' = opener
  BY DEF IInv, RunTask
<1>1. /\ Head(tasks) = tasks[1] /\ 1 \in 1..Len(tasks) /\ Len(tasks) \in Nat
      /\ \A i \in 1..Len(tasks') : i + 1 \in 1..Len(tasks) /\ tasks'[i] = tasks[i + 1]
  BY <1>0, AfterRun
<1>2. PICK name \in Closures, w \in Windows : tasks[1] = <<name, w>> /\ name \in Names
  BY <1>0, <1>1, TaskType
<1>3. ASSUME NEW o \in Windows, view[o] # "destroyed", view'[o] = "destroyed"
      PROVE  tasks[1] = <<"closed", o>>
  <2>1. tasks[1][1] = name /\ tasks[1][2] = w BY <1>2
  <2>2. name \in {"created", "closing", "closed"} /\ Perform(name, w)
    <3>1. CASE name = "create" BY <1>1, <1>3, <2>1, <3>1 DEF RunTask
    <3>2. CASE name = "registered"
      BY <1>1, <1>3, <2>1, <3>2 DEF RunTask, Perform, OnRootWindowCreated
    <3>3. CASE name \in {"created", "closing", "closed"} BY <1>1, <2>1, <3>3 DEF RunTask
    <3> QED BY <1>2, <3>1, <3>2, <3>3 DEF Names
  <2>3. view' = [view EXCEPT ![w] = After(name)] BY <1>0, <2>2, Performed
  <2>4. o = w /\ After(name) = "destroyed" BY <1>0, <1>3, <2>3 DEF TypeOK
  <2>5. name = "closed" BY <2>2, <2>4 DEF After
  <2> QED BY <1>2, <2>4, <2>5
<1>4. ~MultiThreaded => browser' = browser
  <2>1. ~MultiThreaded => tasks[1][1] = "registered" BY <1>1 DEF IInv, Queue, Direct
  <2> QED BY <1>1, <2>1 DEF RunTask
<1> SUFFICES ASSUME NEW i \in 1..Len(tasks'), tasks'[i][1] = "registered"
             PROVE  LET u == tasks'[i][2]
                        o == opener'[u]
                    IN /\ o \in Windows /\ kind'[o] # "unused" /\ view'[o] # "destroyed"
                       /\ \A j \in 1..Len(tasks') :
                            /\ tasks'[j] = <<"registered", o>> => j < i
                            /\ tasks'[j] = <<"closed", o>> => i < j
                       /\ ~MultiThreaded =>
                            kind'[u] = "popup" /\ browser'[u] = "requested" /\ browser'[o] # "ended"
  BY DEF OpenerStays
<1>5. i + 1 \in 1..Len(tasks) /\ tasks'[i] = tasks[i + 1] BY <1>1
<1> DEFINE u == tasks[i + 1][2]
           o == opener[u]
<1>6. /\ o \in Windows /\ kind[o] # "unused" /\ view[o] # "destroyed"
      /\ \A j \in 1..Len(tasks) :
           /\ tasks[j] = <<"registered", o>> => j < i + 1
           /\ tasks[j] = <<"closed", o>> => i + 1 < j
      /\ ~MultiThreaded => kind[u] = "popup" /\ browser[u] = "requested" /\ browser[o] # "ended"
  BY <1>5 DEF OpenerStays
<1>7. tasks'[i][2] = u /\ opener'[u] = o BY <1>0, <1>5
<1> HIDE DEF u, o
<1>8. view'[o] # "destroyed"
  <2> SUFFICES ASSUME view'[o] = "destroyed" PROVE FALSE OBVIOUS
  <2>1. i + 1 < 1 BY <1>1, <1>3, <1>6
  <2> QED BY <2>1
<1>9. ASSUME NEW j \in 1..Len(tasks')
      PROVE  /\ tasks'[j] = <<"registered", o>> => j < i
             /\ tasks'[j] = <<"closed", o>> => i < j
  <2>1. j + 1 \in 1..Len(tasks) /\ tasks'[j] = tasks[j + 1] BY <1>1
  <2>2. /\ tasks'[j] = <<"registered", o>> => j + 1 < i + 1
        /\ tasks'[j] = <<"closed", o>> => i + 1 < j + 1
    BY <1>6, <2>1
  <2> QED BY <2>2
<1> QED BY <1>0, <1>4, <1>6, <1>7, <1>8, <1>9

\* A step that creates no window, nor posts the registration of one.
LEMMA OpenersAside ==
  ASSUME IInv, OpenerStays, UNCHANGED <<kind, opener>>,
         \/ tasks' = tasks
         \/ \E name \in Closures, w \in Windows :
              name # "registered" /\ tasks' = Append(tasks, <<name, w>>),
         ASSUME NEW i \in 1..Len(tasks), tasks[i][1] = "registered"
         PROVE  /\ view'[opener[tasks[i][2]]] # "destroyed"
                /\ ~MultiThreaded =>
                     browser'[tasks[i][2]] = "requested" /\ browser'[opener[tasks[i][2]]] # "ended"
  PROVE  OpenerStays'
<1>0. TypeOK BY DEF IInv
<1>1. Len(tasks) \in Nat BY <1>0 DEF TypeOK
<1>2. ASSUME NEW i \in 1..Len(tasks), tasks[i][1] = "registered"
      PROVE  Undisturbed(tasks[i][2])
  BY <1>2 DEF Undisturbed, OpenerStays
<1>3. CASE tasks' = tasks
  <2>1. 0 \in Nat /\ Len(tasks') = Len(tasks) + 0 BY <1>1, <1>3
  <2> QED BY <1>0, <1>2, <1>3, <2>1, OpenersExtended
<1>4. ASSUME NEW name \in Closures, NEW w \in Windows,
             name # "registered", tasks' = Append(tasks, <<name, w>>)
      PROVE  OpenerStays'
  <2>1. /\ Len(tasks') = Len(tasks) + 1
        /\ tasks'[Len(tasks')] = <<name, w>>
        /\ \A i \in 1..Len(tasks) : tasks'[i] = tasks[i]
        /\ \A i \in 1..Len(tasks') : i \in 1..Len(tasks) \/ i = Len(tasks')
    BY <1>0, <1>4, AfterPost
  <2>2. tasks'[Len(tasks')][1] = name /\ tasks'[Len(tasks')][2] = w BY <2>1
  <2>3. \A i \in 1..Len(tasks') : i \in 1..Len(tasks) \/ tasks'[i][2] = w BY <2>1, <2>2
  <2>4. ~ \E i \in 1..Len(tasks') : i \notin 1..Len(tasks) /\ tasks'[i][1] = "registered"
    BY <1>4, <2>1, <2>2
  <2>5. 1 \in Nat OBVIOUS
  <2> QED BY <1>0, <1>2, <2>1, <2>3, <2>4, <2>5, OpenersExtended
<1> QED BY <1>3, <1>4

\* A window is named, and nothing happens to the others.
LEMMA NamedLeaves ==
  ASSUME IInv, OpenerStays, NEW o \in Windows, NEW w \in Windows,
         NEW k \in {"window", "popup", "tools"}, Named(k, o, w), view' = view,
         \A v \in Windows : v # w => browser'[v] = browser[v],
         NEW i \in 1..Len(tasks), tasks[i][1] = "registered"
  PROVE  Undisturbed(tasks[i][2])
<1>0. TypeOK /\ Each(w) BY DEF IInv
<1> DEFINE u == tasks[i][2]
           v == opener[u]
<1>1. kind[w] = "unused" /\ NoTask(w) BY <1>0 DEF Named, Each, Unused
<1>2. u \in Windows /\ u # w BY <1>0, <1>1, TaskType DEF NoTask
<1>3. /\ v \in Windows /\ kind[v] # "unused" /\ view[v] # "destroyed"
      /\ ~MultiThreaded => browser[u] = "requested" /\ browser[v] # "ended"
  BY DEF OpenerStays
<1>4. v # w BY <1>1, <1>3
<1> HIDE DEF u
<1>5. Undisturbed(u) BY <1>0, <1>2, <1>3, <1>4 DEF Undisturbed, Named, TypeOK
<1> QED BY <1>5 DEF u

\* The opener of a window is there, and its end is not yet known.
LEMMA NamedShelters ==
  ASSUME IInv, NEW o \in Windows, NEW w \in Windows,
         NEW k \in {"window", "popup", "tools"}, Named(k, o, w), view' = view,
         \A v \in Windows : v # w => browser'[v] = browser[v],
         ~MultiThreaded => k = "popup" /\ browser'[w] = "requested"
  PROVE  Sheltered(w)
<1>0. TypeOK /\ Queue /\ \A v \in Windows : Each(v) BY DEF IInv
<1>1. /\ kind[w] = "unused" /\ kind' = [kind EXCEPT ![w] = k] /\ browser[o] = "open"
      /\ opener' = [opener EXCEPT ![w] = o]
  BY DEF Named
<1>2. /\ kind'[w] = k /\ opener'[w] = o
      /\ \A v \in Windows : v # w => kind'[v] = kind[v] /\ opener'[v] = opener[v]
  BY <1>0, <1>1 DEF TypeOK
<1>3. kind[o] # "unused" /\ view[o] # "destroyed" BY <1>0, <1>1 DEF Each, Unused, Lags
<1>4. o # w BY <1>1, <1>3
<1>5. ~Posted("closed", o)
  <2> SUFFICES ASSUME NEW i \in 1..Len(tasks), tasks[i] = <<"closed", o>> PROVE FALSE
    BY DEF Posted
  <2>1. tasks[i][1] = "closed" /\ tasks[i][2] = o OBVIOUS
  <2>2. Rank("closed") <= Latest("open") BY <1>0, <1>1, <2>1 DEF Queue, InTime, Timely
  <2> QED BY <2>2, RankIs, Stages
<1> QED BY <1>1, <1>2, <1>3, <1>4, <1>5 DEF Sheltered

LEMMA NamedPosted ==
  ASSUME IInv, OpenerStays, NEW o \in Windows, NEW w \in Windows,
         NEW k \in {"window", "popup", "tools"}, Named(k, o, w), view' = view,
         \A v \in Windows : v # w => browser'[v] = browser[v],
         ~MultiThreaded => k = "popup" /\ browser'[w] = "requested",
         tasks' = Append(tasks, <<"registered", w>>)
  PROVE  OpenerStays'
<1>0. TypeOK BY DEF IInv
<1>1. "registered" \in Closures BY DEF Closures
<1>2. /\ Len(tasks') = Len(tasks) + 1
      /\ tasks'[Len(tasks')] = <<"registered", w>>
      /\ \A i \in 1..Len(tasks) : tasks'[i] = tasks[i]
      /\ \A i \in 1..Len(tasks') : i \in 1..Len(tasks) \/ i = Len(tasks')
  BY <1>0, <1>1, AfterPost
<1>3. \A i \in 1..Len(tasks') : i \in 1..Len(tasks) \/ tasks'[i][2] = w BY <1>2
<1>4. 1 \in Nat OBVIOUS
<1>5. /\ \A i \in 1..Len(tasks) : tasks[i][1] = "registered" => Undisturbed(tasks[i][2])
      /\ Sheltered(w)
  BY NamedLeaves, NamedShelters
<1> QED BY <1>0, <1>2, <1>3, <1>4, <1>5, OpenersExtended
LEMMA NamedAtOnce ==
  ASSUME IInv, OpenerStays, NEW o \in Windows, NEW w \in Windows,
         NEW k \in {"window", "popup", "tools"}, Named(k, o, w), view' = view, tasks' = tasks,
         \A v \in Windows : v # w => browser'[v] = browser[v]
  PROVE  OpenerStays'
<1>0. TypeOK BY DEF IInv
<1>1. 0 \in Nat /\ Len(tasks') = Len(tasks) + 0 BY <1>0 DEF TypeOK
<1>2. \A i \in 1..Len(tasks) : tasks[i][1] = "registered" => Undisturbed(tasks[i][2])
  BY NamedLeaves
<1> QED BY <1>0, <1>1, <1>2, OpenersExtended
-----------------------------------------------------------------------------
(* The application ends with its last window. *)

\* A step of AppLifetime, or none.
LifeStep ==
  \/ present' = present /\ quit' = quit
  \/ \E w \in Windows :
       w \notin present /\ present # {} /\ present' = present \cup {w} /\ quit' = quit
  \/ \E w \in present : present' = present \ {w} /\ quit' = (present' = {})

LEMMA LifeStepKeeps ==
  ASSUME QuitWithLast, LifeStep PROVE QuitWithLast'
BY DEF QuitWithLast, LifeStep

\* No window opens or has gone.
LEMMA SamePresent ==
  ASSUME kind' = kind, quit' = quit,
         \A v \in Windows : \/ view[v] # "destroyed" /\ view'[v] # "destroyed"
                            \/ view'[v] = view[v] /\ hwnd'[v] = hwnd[v]
  PROVE  LifeStep
<1>1. \A v \in Windows : Present(v)' <=> Present(v) BY DEF Present
<1> QED BY <1>1 DEF present, LifeStep

\* A window opens.
LEMMA NamedOpens ==
  ASSUME IInv, QuitWithLast, NEW o \in Windows, NEW w \in Windows,
         NEW k \in {"window", "popup", "tools"}, Named(k, o, w), view' = view, quit' = quit,
         \A v \in Windows : v # w => hwnd'[v] = hwnd[v]
  PROVE  LifeStep
<1>0. TypeOK /\ \A v \in Windows : Each(v) BY DEF IInv
<1>1. kind[w] = "unused" /\ kind' = [kind EXCEPT ![w] = k] /\ browser[o] = "open" BY DEF Named
<1>2. kind'[w] = k /\ \A v \in Windows : v # w => kind'[v] = kind[v] BY <1>0, <1>1 DEF TypeOK
<1>3. view[w] = "none" /\ view[o] # "destroyed" /\ kind[o] # "unused"
  BY <1>0, <1>1 DEF Each, Unused, Lags
<1>4. Present(o) /\ ~Present(w) /\ Present(w)' BY <1>1, <1>2, <1>3 DEF Present
<1>5. \A v \in Windows : v # w => (Present(v)' <=> Present(v)) BY <1>2 DEF Present
<1>6. w \notin present /\ present # {} /\ present' = present \cup {w} BY <1>4, <1>5 DEF present
<1> QED BY <1>6 DEF LifeStep

LEMMA HeldAfter == IInv' /\ OpenerStays' => (root_windows_' = {} <=> present' = {})
<1> DEFINE Held == root_windows_ = {} <=> present = {}
<1>1. IInv /\ OpenerStays => Held
  <2> SUFFICES ASSUME IInv, OpenerStays PROVE root_windows_ = {} <=> present = {} OBVIOUS
  <2>1. \A v \in Windows : Registered(v) BY DEF IInv, Each
  <2>2. root_windows_ \subseteq Windows BY DEF IInv, TypeOK
  <2> QED BY <2>1, <2>2, OneIsHeld DEF Registered, present
<1> HIDE DEF Held
<1>2. IInv' /\ OpenerStays' => Held' BY <1>1, PTL
<1> QED BY <1>2 DEF Held

\* The main thread takes notice of what has become of a browser.
LEMMA PerformLives ==
  ASSUME IInv, IInv', OpenerStays', QuitWithLast, NEW w \in Windows,
         NEW name \in {"created", "closing", "closed"}, Perform(name, w),
         kind' = kind, kind[w] # "unused", view[w] # "destroyed"
  PROVE  LifeStep
<1>0. TypeOK BY DEF IInv
<1>1. /\ view' = [view EXCEPT ![w] = After(name)] /\ view'[w] = After(name)
      /\ \A v \in Windows : v # w => hwnd'[v] = hwnd[v] /\ view'[v] = view[v]
      /\ name # "closed" => quit' = quit
      /\ name = "closed" => quit' = (quit \/ (hwnd'[w] = "destroyed" /\ root_windows_' = {}))
  BY <1>0, Performed DEF TypeOK
<1>2. After(name) = "destroyed" <=> name = "closed" BY DEF After
<1>3. CASE name # "closed" BY <1>1, <1>2, <1>3, SamePresent
<1>4. CASE name = "closed"
  <2>1. Present(w) /\ (Present(w)' <=> hwnd'[w] # "destroyed") BY <1>1, <1>2, <1>4 DEF Present
  <2>2. \A v \in Windows : v # w => (Present(v)' <=> Present(v)) BY <1>1 DEF Present
  <2>3. w \in present /\ quit = FALSE
    <3>1. quit \in BOOLEAN BY <1>0 DEF TypeOK
    <3> QED BY <2>1, <3>1 DEF present, QuitWithLast
  <2>4. CASE hwnd'[w] = "destroyed"
    <3>1. present' = present \ {w} BY <2>1, <2>2, <2>4 DEF present
    <3>2. quit' = (present' = {}) BY <1>1, <1>4, <2>3, <2>4, HeldAfter
    <3> QED BY <2>3, <3>1, <3>2 DEF LifeStep
  <2>5. CASE hwnd'[w] # "destroyed"
    <3>1. present' = present BY <2>1, <2>2, <2>5 DEF present
    <3>2. quit' = quit BY <1>1, <1>4, <2>3, <2>5
    <3> QED BY <3>1, <3>2 DEF LifeStep
  <2> QED BY <2>4, <2>5
<1> QED BY <1>3, <1>4
-----------------------------------------------------------------------------
(* The steps. *)

\* A step that changes no window but by destroying its native window.
LEMMA AsideLives ==
  ASSUME IInv, OpenerStays, UNCHANGED <<kind, opener, tasks, view, quit>>,
         \A v \in Windows : hwnd'[v] = hwnd[v] \/ view[v] # "destroyed",
         \A v \in Windows : \/ browser'[v] = browser[v]
                            \/ browser'[v] = "dying" /\ browser[v] # "requested"
                            \/ browser'[v] = "never" /\ (MultiThreaded \/ NoTask(v))
  PROVE  OpenerStays' /\ LifeStep
<1>0. TypeOK BY DEF IInv
<1>1. LifeStep BY SamePresent
<1>2. ASSUME NEW i \in 1..Len(tasks), tasks[i][1] = "registered"
      PROVE  /\ view'[opener[tasks[i][2]]] # "destroyed"
             /\ ~MultiThreaded =>
                  browser'[tasks[i][2]] = "requested" /\ browser'[opener[tasks[i][2]]] # "ended"
  <2> DEFINE u == tasks[i][2]
             o == opener[u]
  <2>1. /\ o \in Windows /\ view[o] # "destroyed"
        /\ ~MultiThreaded => browser[u] = "requested" /\ browser[o] # "ended"
    BY <1>2 DEF OpenerStays
  <2>2. u \in Windows /\ ~NoTask(u) BY <1>0, TaskType DEF NoTask
  <2> HIDE DEF u
  <2>3. ~MultiThreaded => browser'[u] = "requested" /\ browser'[o] # "ended" BY <2>1, <2>2
  <2> QED BY <2>1, <2>3 DEF u
<1> QED BY <1>1, <1>2, OpenersAside

LEMMA OnCloseLives ==
  ASSUME IInv, OpenerStays, NEW w \in Windows, hwnd[w] = "open", OnClose(w),
         UNCHANGED <<kind, opener, tasks>>
  PROVE  OpenerStays' /\ LifeStep
<1>0. TypeOK /\ Each(w) BY DEF IInv
<1>1. CASE ~MayClose(w)
  <2>1. UNCHANGED <<browser, windowVars>> BY <1>1 DEF OnClose
  <2> QED BY <2>1, AsideLives DEF windowVars
<1>2. CASE MayClose(w)
  <2>1. DestroyWindow(w) BY <1>2 DEF OnClose
  <2>2. /\ hwnd' = [hwnd EXCEPT ![w] = "destroyed"] /\ view' = view
        /\ browser' = IF Running(w) THEN [browser EXCEPT ![w] = "dying"] ELSE browser
        /\ view[w] # "destroyed"
    BY <1>0, <2>1 DEF DestroyWindow, Each, Lags
  <2>3. quit' = quit BY <2>1, <2>2 DEF DestroyWindow, NotifyDestroyedIfDone, Told
  <2>4. /\ \A v \in Windows : hwnd'[v] = hwnd[v] \/ view[v] # "destroyed"
        /\ \A v \in Windows : \/ browser'[v] = browser[v]
                              \/ browser'[v] = "dying" /\ browser[v] # "requested"
    BY <1>0, <2>2 DEF TypeOK, Running
  <2> QED BY <2>2, <2>3, <2>4, AsideLives
<1> QED BY <1>1, <1>2

\* CEF's thread tells of a browser.
LEMMA NotifiedLives ==
  ASSUME IInv, IInv', OpenerStays, QuitWithLast, NEW w \in Windows,
         NEW name \in {"created", "closing", "closed"}, FromUiThread(name, w),
         UNCHANGED <<kind, opener>>, NEW b \in BrowserStates,
         browser' = [browser EXCEPT ![w] = b], browser[w] \in {"requested", "open", "dying"},
         b = "ended" => name = "closed", ~MultiThreaded => NoTask(w),
         ~MultiThreaded /\ name = "closed" =>
           \A i \in 1..Len(tasks) : tasks[i][1] = "registered" => opener[tasks[i][2]] # w
  PROVE  OpenerStays' /\ LifeStep
<1>0. TypeOK /\ Each(w) BY DEF IInv
<1>1. kind[w] # "unused" /\ view[w] # "destroyed" BY <1>0 DEF Each, Unused, Lags
<1>2. browser'[w] = b /\ \A v \in Windows : v # w => browser'[v] = browser[v]
  BY <1>0 DEF TypeOK
<1>3. CASE MultiThreaded
  <2>1. tasks' = Append(tasks, <<name, w>>) /\ UNCHANGED windowVars
    BY <1>3 DEF FromUiThread, OnMainThread
  <2>2. name \in Closures /\ name # "registered" BY <1>3 DEF Closures
  <2>3. ASSUME NEW i \in 1..Len(tasks), tasks[i][1] = "registered"
        PROVE  view'[opener[tasks[i][2]]] # "destroyed"
    BY <2>1, <2>3 DEF OpenerStays, windowVars
  <2>4. OpenerStays' BY <1>3, <2>1, <2>2, <2>3, OpenersAside
  <2>5. LifeStep BY <2>1, SamePresent DEF windowVars
  <2> QED BY <2>4, <2>5
<1>4. CASE ~MultiThreaded
  <2>1. tasks' = tasks /\ Perform(name, w) BY <1>4 DEF FromUiThread, OnMainThread
  <2>2. view' = [view EXCEPT ![w] = After(name)] /\ (After(name) = "destroyed" => name = "closed")
    BY <1>0, <2>1, Performed DEF After
  <2>3. ASSUME NEW i \in 1..Len(tasks), tasks[i][1] = "registered"
        PROVE  /\ view'[opener[tasks[i][2]]] # "destroyed"
               /\ browser'[tasks[i][2]] = "requested" /\ browser'[opener[tasks[i][2]]] # "ended"
    <3> DEFINE u == tasks[i][2]
               o == opener[u]
    <3>1. /\ o \in Windows /\ view[o] # "destroyed"
          /\ browser[u] = "requested" /\ browser[o] # "ended"
      BY <1>4, <2>3 DEF OpenerStays
    <3>2. u \in Windows /\ u # w BY <1>0, <1>4, TaskType DEF NoTask
    <3>3. name = "closed" => o # w BY <1>4, <2>3
    <3> HIDE DEF u, o
    <3>4. view'[o] # "destroyed" BY <1>0, <2>2, <3>1, <3>3 DEF TypeOK
    <3>5. browser'[u] = "requested" /\ browser'[o] # "ended" BY <1>2, <3>1, <3>2, <3>3
    <3> QED BY <3>4, <3>5 DEF u, o
  <2>4. OpenerStays' BY <2>1, <2>3, OpenersAside
  <2>5. LifeStep BY <1>1, <2>1, <2>4, PerformLives
  <2> QED BY <2>4, <2>5
<1> QED BY <1>3, <1>4 DEF WindowsAssumption

LEMMA RunTaskLives ==
  ASSUME IInv, IInv', OpenerStays, QuitWithLast, RunTask
  PROVE  OpenerStays' /\ LifeStep
<1>0. TypeOK /\ Queue /\ (\A v \in Windows : Each(v)) /\ tasks # <<>> /\ tasks' = Tail(tasks)
      /\ kind' = kind
  BY DEF IInv, RunTask
<1>1. Head(tasks) = tasks[1] /\ 1 \in 1..Len(tasks) BY <1>0, AfterRun
<1>2. PICK name \in Closures, w \in Windows :
        name \in Names /\ tasks[1][1] = name /\ tasks[1][2] = w
  BY <1>0, <1>1, TaskType
<1>3. OpenerStays' BY OpenersRun
<1>4. kind[w] # "unused" BY <1>0, <1>1, <1>2 DEF Each, Unused, NoTask
<1>5. Shown(view[w]) < Rank(name) BY <1>0, <1>1, <1>2 DEF Queue, InTime, Timely
<1>6. view[w] # "destroyed"
  <2>1. Rank(name) \in 1..5 BY <1>2, RankIs
  <2> QED BY <1>5, <2>1, Stages
<1>7. CASE name = "create"
  <2>1. hwnd' = [hwnd EXCEPT ![w] = "open"] /\ UNCHANGED <<root_windows_, view, quit>>
    BY <1>1, <1>2, <1>7 DEF RunTask, CreateNativeWindow
  <2>2. \A v \in Windows : v # w => hwnd'[v] = hwnd[v] BY <1>0, <2>1 DEF TypeOK
  <2>3. LifeStep BY <1>0, <1>6, <2>1, <2>2, SamePresent
  <2> QED BY <1>3, <2>3
<1>8. CASE name = "registered"
  <2>1. UNCHANGED <<hwnd, view, quit>>
    BY <1>1, <1>2, <1>8 DEF RunTask, Perform, OnRootWindowCreated
  <2>2. LifeStep BY <1>0, <2>1, SamePresent
  <2> QED BY <1>3, <2>2
<1>9. CASE name \in {"created", "closing", "closed"}
  <2>1. Perform(name, w) BY <1>1, <1>2, <1>9 DEF RunTask
  <2>2. LifeStep BY <1>0, <1>3, <1>4, <1>6, <1>9, <2>1, PerformLives
  <2> QED BY <1>3, <2>2
<1> QED BY <1>2, <1>7, <1>8, <1>9 DEF Names

LEMMA BrowserCreatedLives ==
  ASSUME IInv, IInv', OpenerStays, QuitWithLast, NEW w \in Windows, BrowserCreated(w)
  PROVE  OpenerStays' /\ LifeStep
<1>1. browser[w] = "requested" /\ UNCHANGED <<kind, opener>> BY DEF BrowserCreated
<1>2. ~MultiThreaded => NoTask(w) BY NothingPosted DEF BrowserCreated
<1>3. CASE browser' = [browser EXCEPT ![w] = "open"] /\ FromUiThread("created", w)
  <2>1. "open" \in BrowserStates BY DEF BrowserStates
  <2> QED BY <1>1, <1>2, <1>3, <2>1, NotifiedLives
<1>4. CASE browser' = [browser EXCEPT ![w] = "never"] /\ UNCHANGED <<windowVars, tasks>>
  <2>1. \A v \in Windows : browser'[v] = browser[v] \/ (v = w /\ browser'[v] = "never")
    BY <1>4 DEF IInv, TypeOK
  <2>2. \A v \in Windows : \/ browser'[v] = browser[v]
                           \/ browser'[v] = "never" /\ (MultiThreaded \/ NoTask(v))
    BY <1>2, <2>1 DEF WindowsAssumption
  <2> QED BY <1>1, <1>4, <2>2, AsideLives DEF windowVars
<1> QED BY <1>3, <1>4 DEF BrowserCreated

LEMMA DoCloseLives ==
  ASSUME IInv, IInv', OpenerStays, QuitWithLast, NEW w \in Windows, DoClose(w)
  PROVE  OpenerStays' /\ LifeStep
<1>1. /\ browser[w] = "open" /\ UNCHANGED <<kind, opener>>
      /\ browser' = [browser EXCEPT ![w] = "closing"] /\ FromUiThread("closing", w)
  BY DEF DoClose
<1>2. ~MultiThreaded => NoTask(w) BY <1>1, NothingPosted
<1>3. "closing" \in BrowserStates BY DEF BrowserStates
<1> QED BY <1>1, <1>2, <1>3, NotifiedLives

LEMMA OnBeforeCloseLives ==
  ASSUME IInv, IInv', OpenerStays, QuitWithLast, OpenerWaits, NEW w \in Windows, OnBeforeClose(w)
  PROVE  OpenerStays' /\ LifeStep
<1>1. /\ browser[w] = "dying" /\ UNCHANGED <<kind, opener>>
      /\ browser' = [browser EXCEPT ![w] = "ended"] /\ FromUiThread("closed", w)
  BY DEF OnBeforeClose
<1>2. ~MultiThreaded => NoTask(w) BY <1>1, NothingPosted
<1>3. "ended" \in BrowserStates BY DEF BrowserStates
<1>4. ASSUME ~MultiThreaded, NEW i \in 1..Len(tasks), tasks[i][1] = "registered"
      PROVE  opener[tasks[i][2]] # w
  <2> DEFINE u == tasks[i][2]
  <2>1. u \in Windows BY TaskType DEF IInv
  <2>2. kind[u] = "popup" /\ browser[u] = "requested" BY <1>4 DEF OpenerStays
  <2>3. browser'[w] = "ended" BY <1>1 DEF IInv, TypeOK
  <2> QED BY <1>1, <1>4, <2>1, <2>2, <2>3 DEF OpenerWaits
<1> QED BY <1>1, <1>2, <1>3, <1>4, NotifiedLives

LEMMA PopupDroppedLives ==
  ASSUME IInv, OpenerStays, NEW w \in Windows, PopupDropped(w)
  PROVE  OpenerStays' /\ LifeStep
<1>1. MultiThreaded \/ NoTask(w)
  <2> SUFFICES ASSUME ~MultiThreaded PROVE NoTask(w) OBVIOUS
  <2>1. ~Posted("registered", w)
    <3> SUFFICES ASSUME NEW i \in 1..Len(tasks), tasks[i] = <<"registered", w>> PROVE FALSE
      BY DEF Posted
    <3>1. tasks[i][1] = "registered" /\ tasks[i][2] = w OBVIOUS
    <3>2. browser[opener[w]] # "ended" BY <3>1 DEF OpenerStays
    <3> QED BY <3>2 DEF PopupDropped
  <2> QED BY <2>1, NothingPosted
<1>2. /\ UNCHANGED <<kind, opener, tasks, view, hwnd, quit>>
      /\ browser' = [browser EXCEPT ![w] = "never"]
  BY DEF PopupDropped
<1>3. \A v \in Windows : browser'[v] = browser[v] \/ (v = w /\ browser'[v] = "never")
  BY <1>2 DEF IInv, TypeOK
<1>4. \A v \in Windows : \/ browser'[v] = browser[v]
                         \/ browser'[v] = "never" /\ (MultiThreaded \/ NoTask(v))
  BY <1>1, <1>3
<1> QED BY <1>2, <1>4, AsideLives

LEMMA CreateRootWindowLives ==
  ASSUME IInv, OpenerStays, QuitWithLast, NEW o \in Windows, NEW w \in Windows,
         NEW here \in BOOLEAN, CreateRootWindow(o, w, here)
  PROVE  OpenerStays' /\ LifeStep
<1>0. TypeOK BY DEF IInv
<1>1. Named("window", o, w) /\ UNCHANGED <<view, quit>> BY DEF CreateRootWindow
<1>2. CASE here
  <2>1. /\ hwnd' = [hwnd EXCEPT ![w] = "open"] /\ browser' = [browser EXCEPT ![w] = "requested"]
        /\ tasks' = tasks
    BY <1>2 DEF CreateRootWindow, CreateNativeWindow
  <2>2. \A v \in Windows : v # w => hwnd'[v] = hwnd[v] /\ browser'[v] = browser[v]
    BY <1>0, <2>1 DEF TypeOK
  <2>3. LifeStep BY <1>1, <2>2, NamedOpens
  <2>4. OpenerStays' BY <1>1, <2>1, <2>2, NamedAtOnce
  <2> QED BY <2>3, <2>4
<1>3. CASE ~here
  <2>1. MultiThreaded /\ tasks' = tasks \o CreateTasks(w) /\ UNCHANGED <<hwnd, browser>>
    BY <1>3 DEF CreateRootWindow
  <2>2. LifeStep BY <1>1, <2>1, NamedOpens
  <2>3. NoTask(w) /\ browser[w] = "none" /\ view[w] = "none"
    BY <1>1, NamedIs
  <2>4. /\ Len(tasks') = Len(tasks) + 2 /\ \A i \in 1..Len(tasks) : tasks'[i] = tasks[i]
        /\ \A i \in 1..Len(tasks') : i \in 1..Len(tasks) \/ tasks'[i][2] = w
    BY <1>0, <1>1, <2>1, <2>3, CreationPosted DEF IInv
  <2>5. /\ \A i \in 1..Len(tasks) : tasks[i][1] = "registered" => Undisturbed(tasks[i][2])
        /\ Sheltered(w)
    BY <1>1, <2>1, NamedLeaves, NamedShelters
  <2>6. 2 \in Nat OBVIOUS
  <2>7. OpenerStays' BY <1>0, <2>4, <2>5, <2>6, OpenersExtended
  <2> QED BY <2>2, <2>7
<1> QED BY <1>2, <1>3

LEMMA OnBeforePopupLives ==
  ASSUME IInv, OpenerStays, QuitWithLast, NEW o \in Windows, NEW w \in Windows,
         OnBeforePopup(o, w)
  PROVE  OpenerStays' /\ LifeStep
<1>1. /\ Named("popup", o, w) /\ browser' = [browser EXCEPT ![w] = "requested"]
      /\ tasks' = Append(tasks, <<"registered", w>>) /\ UNCHANGED <<hwnd, view, quit>>
  BY DEF OnBeforePopup, OnMainThread, windowVars
<1>2. browser'[w] = "requested" /\ \A v \in Windows : v # w => browser'[v] = browser[v]
  BY <1>1 DEF IInv, TypeOK
<1>3. OpenerStays' BY <1>1, <1>2, NamedPosted
<1>4. LifeStep BY <1>1, NamedOpens
<1> QED BY <1>3, <1>4

LEMMA ShowDevToolsLives ==
  ASSUME IInv, OpenerStays, QuitWithLast, NEW o \in Windows, NEW w \in Windows,
         ShowDevTools(o, w)
  PROVE  OpenerStays' /\ LifeStep
<1>1. PICK b \in {"requested", "never"} : browser' = [browser EXCEPT ![w] = b]
  BY DEF ShowDevTools
<1>2. Named("tools", o, w) /\ FromUiThread("registered", w) BY DEF ShowDevTools
<1>3. \A v \in Windows : v # w => browser'[v] = browser[v] BY <1>1 DEF IInv, TypeOK
<1>4. UNCHANGED <<hwnd, view, quit>>
  BY <1>2 DEF FromUiThread, OnMainThread, Perform, OnRootWindowCreated, windowVars
<1>5. LifeStep BY <1>2, <1>4, NamedOpens
<1>6. CASE MultiThreaded
  <2>1. tasks' = Append(tasks, <<"registered", w>>) BY <1>2, <1>6 DEF FromUiThread, OnMainThread
  <2> QED BY <1>2, <1>3, <1>4, <1>5, <1>6, <2>1, NamedPosted
<1>7. CASE ~MultiThreaded
  <2>1. tasks' = tasks BY <1>2, <1>7 DEF FromUiThread, OnMainThread
  <2> QED BY <1>2, <1>3, <1>4, <1>5, <2>1, NamedAtOnce
<1> QED BY <1>6, <1>7 DEF WindowsAssumption

LEMMA NextLives ==
  ASSUME IInv, IInv', OpenerStays, QuitWithLast, OpenerWaits, [Next]_vars
  PROVE  OpenerStays' /\ QuitWithLast' /\ LifeStep
<1> SUFFICES OpenerStays' /\ LifeStep BY LifeStepKeeps
<1>1. CASE RunTask BY <1>1, RunTaskLives
<1>2. CASE OnExit BY <1>2, AsideLives DEF OnExit
<1>3. ASSUME NEW w \in Windows, UserCloses(w) PROVE OpenerStays' /\ LifeStep
  BY <1>3, OnCloseLives DEF UserCloses
<1>4. ASSUME NEW w \in Windows, NEW from \in {"CEF", "manager"}, CloseArrives(w, from)
      PROVE  OpenerStays' /\ LifeStep
  <2>1. CASE hwnd[w] = "open" /\ OnClose(w) BY <1>4, <2>1, OnCloseLives DEF CloseArrives
  <2>2. CASE UNCHANGED <<browser, asked, windowVars>>
    BY <1>4, <2>2, AsideLives DEF CloseArrives, windowVars
  <2> QED BY <1>4, <2>1, <2>2 DEF CloseArrives
<1>5. ASSUME NEW w \in Windows, BrowserCreated(w) PROVE OpenerStays' /\ LifeStep
  BY <1>5, BrowserCreatedLives
<1>6. ASSUME NEW w \in Windows, PopupDropped(w) PROVE OpenerStays' /\ LifeStep
  BY <1>6, PopupDroppedLives
<1>7. ASSUME NEW w \in Windows, DoClose(w) PROVE OpenerStays' /\ LifeStep
  BY <1>7, DoCloseLives
<1>8. ASSUME NEW w \in Windows, PageStays(w) PROVE OpenerStays' /\ LifeStep
  BY <1>8, AsideLives DEF PageStays
<1>9. ASSUME NEW w \in Windows, OnBeforeClose(w) PROVE OpenerStays' /\ LifeStep
  BY <1>9, OnBeforeCloseLives
<1>10. ASSUME NEW o \in Windows, NEW w \in Windows, NEW here \in BOOLEAN,
              CreateRootWindow(o, w, here)
       PROVE  OpenerStays' /\ LifeStep
  BY <1>10, CreateRootWindowLives
<1>11. ASSUME NEW o \in Windows, NEW w \in Windows, OnBeforePopup(o, w)
       PROVE  OpenerStays' /\ LifeStep
  BY <1>11, OnBeforePopupLives
<1>12. ASSUME NEW o \in Windows, NEW w \in Windows, ShowDevTools(o, w)
       PROVE  OpenerStays' /\ LifeStep
  BY <1>12, ShowDevToolsLives
<1>13. CASE UNCHANGED vars BY <1>13, AsideLives DEF vars
<1>14. ASSUME NEW w \in Windows, TempWindowCloses(w) PROVE OpenerStays' /\ LifeStep
  <2>1. /\ UNCHANGED <<kind, opener, tasks, view, quit, hwnd>>
        /\ browser' = [v \in Windows |-> IF InTempWindow(v) THEN "dying" ELSE browser[v]]
    BY <1>14 DEF TempWindowCloses
  <2>2. \A v \in Windows : \/ browser'[v] = browser[v]
                           \/ browser'[v] = "dying" /\ browser[v] # "requested"
    BY <2>1 DEF InTempWindow, Running
  <2> QED BY <2>1, <2>2, AsideLives
<1> QED
  BY <1>1, <1>2, <1>3, <1>4, <1>5, <1>6, <1>7, <1>8, <1>9, <1>10, <1>11, <1>12, <1>13, <1>14
  DEF Next

LEMMA LifeBegins == Init => OpenerStays /\ QuitWithLast /\ Lifetime!Init
<1> SUFFICES ASSUME Init PROVE OpenerStays /\ QuitWithLast /\ Lifetime!Init OBVIOUS
<1>1. OpenerStays BY DEF Init, OpenerStays
<1>2. present = {First} /\ quit = FALSE BY WindowsAssumption DEF Init, present, Present
<1> QED BY <1>1, <1>2 DEF QuitWithLast, Lifetime!Init, present

LEMMA LifeStepIs == LifeStep => [Lifetime!Next]_<<present, quit>>
BY DEF LifeStep, Lifetime!Next, Lifetime!Opens, Lifetime!Goes, present

\* The application is told to end in the very step in which its last window goes, whatever
\* is still posted, and each window opens once and from one that is there: wherever the main
\* thread is not CEF's UI thread, and on one thread in every behavior in which CEF does not
\* end the browser of an opener before the popup it has asked for has been created.
THEOREM ImplementsAppLifetime == Spec /\ [][OpenerWaits]_vars => ImplementsLifetime
<1>1. OpenerStays /\ QuitWithLast /\ IInv /\ IInv' /\ [Next]_vars /\ [OpenerWaits]_vars
        => OpenerStays' /\ QuitWithLast' /\ [Lifetime!Next]_<<present, quit>>
  <2> SUFFICES ASSUME OpenerStays, QuitWithLast, IInv, IInv', [Next]_vars, [OpenerWaits]_vars
               PROVE  OpenerStays' /\ QuitWithLast' /\ LifeStep
    BY LifeStepIs
  <2>1. CASE OpenerWaits BY <2>1, NextLives
  <2>2. CASE UNCHANGED vars
    <3>1. OpenerWaits BY <2>2 DEF vars, OpenerWaits
    <3> QED BY <3>1, NextLives
  <2> QED BY <2>1, <2>2
<1>2. Init => OpenerStays /\ QuitWithLast /\ Lifetime!Init BY LifeBegins
<1> QED BY <1>1, <1>2, Always, PTL DEF Spec, ImplementsLifetime, Lifetime!Spec, present
-----------------------------------------------------------------------------
(* What root windows know of their browsers. *)

Begun == {"open", "closing", "dying", "ended"}

\* The root window knows of its browser, or will by a closure that is posted.
Knows(w) == browser[w] \in Begun /\ view[w] = "none" => Posted("created", w)

AllKnow == \A w \in Windows : Knows(w)

Asked == \A w \in Windows : browser[w] = "open" /\ browser'[w] = "dying" => Posted("created", w)

LEMMA KnowsStill ==
  ASSUME AllKnow,
         ASSUME NEW w \in Windows, view'[w] = "none"
         PROVE  /\ view[w] = "none"
                /\ browser'[w] \in Begun => browser[w] \in Begun \/ Posted("created", w)'
                /\ Posted("created", w) => Posted("created", w)'
  PROVE  AllKnow'
<1> SUFFICES ASSUME NEW w \in Windows, view'[w] = "none", browser'[w] \in Begun
             PROVE  Posted("created", w)'
  BY DEF AllKnow, Knows
<1>1. /\ view[w] = "none"
      /\ browser'[w] \in Begun => browser[w] \in Begun \/ Posted("created", w)'
      /\ Posted("created", w) => Posted("created", w)'
  OBVIOUS
<1> QED BY <1>1 DEF AllKnow, Knows

\* A window is destroyed by WM_CLOSE only when its browser has let it, has ended, or is not
\* known to it yet.
LEMMA OnCloseAsks ==
  ASSUME IInv, AllKnow, NEW w \in Windows, hwnd[w] = "open", OnClose(w),
         UNCHANGED <<kind, tasks>>
  PROVE  AllKnow' /\ Asked
<1>0. TypeOK /\ Each(w) BY DEF IInv
<1>1. CASE ~MayClose(w)
  <2>1. UNCHANGED <<browser, view>> BY <1>1 DEF OnClose, windowVars
  <2>2. AllKnow' BY <2>1, KnowsStill DEF Posted
  <2> QED BY <2>1, <2>2 DEF Asked
<1>2. CASE MayClose(w)
  <2>1. /\ view' = view /\ view[w] # "open"
        /\ browser' = IF Running(w) THEN [browser EXCEPT ![w] = "dying"] ELSE browser
    BY <1>2 DEF OnClose, DestroyWindow, MayClose
  <2>2. /\ \A v \in Windows : v # w => browser'[v] = browser[v]
        /\ browser'[w] \in Begun => browser[w] \in Begun
    BY <1>0, <2>1 DEF TypeOK, Running, Begun
  <2>3. AllKnow' BY <2>1, <2>2, KnowsStill DEF Posted
  <2>4. browser[w] = "open" => view[w] = "none" BY <1>0, <2>1 DEF Each, Lags, TypeOK
  <2>5. browser[w] = "open" => Posted("created", w) BY <2>4 DEF AllKnow, Knows, Begun
  <2> QED BY <2>2, <2>3, <2>5 DEF Asked
<1> QED BY <1>1, <1>2

LEMMA RunTaskAsks == ASSUME IInv, AllKnow, RunTask PROVE AllKnow' /\ Asked
<1>0. TypeOK /\ Queue /\ tasks # <<>> /\ tasks' = Tail(tasks)
  BY DEF IInv, RunTask
<1>1. Head(tasks) = tasks[1] /\ 1 \in 1..Len(tasks) BY <1>0, AfterRun
<1>2. PICK name \in Closures, w \in Windows :
        name \in Names /\ tasks[1][1] = name /\ tasks[1][2] = w /\ tasks[1] = <<name, w>>
  BY <1>0, <1>1, TaskType
<1>3. \A v : Posted("created", v) => Posted("created", v)' \/ tasks[1] = <<"created", v>>
  BY <1>0, RunKeeps DEF Queue
<1>4. CASE name = "create"
  <2>1. browser' = [browser EXCEPT ![w] = "requested"] /\ view' = view
    BY <1>1, <1>2, <1>4 DEF RunTask, CreateNativeWindow
  <2>2. \A v \in Windows : browser'[v] = browser[v] \/ browser'[v] = "requested"
    BY <1>0, <2>1 DEF TypeOK
  <2>3. \A v : Posted("created", v) => Posted("created", v)'
    <3>1. \A v : tasks[1] # <<"created", v>> BY <1>2, <1>4
    <3> QED BY <1>3, <3>1
  <2>4. AllKnow' BY <1>0, <2>1, <2>2, <2>3, KnowsStill DEF Begun
  <2> QED BY <2>2, <2>4 DEF Asked
<1>5. CASE name = "registered"
  <2>1. UNCHANGED <<browser, view>>
    BY <1>1, <1>2, <1>5 DEF RunTask, Perform, OnRootWindowCreated
  <2>2. \A v : Posted("created", v) => Posted("created", v)'
    <3>1. \A v : tasks[1] # <<"created", v>> BY <1>2, <1>5
    <3> QED BY <1>3, <3>1
  <2>3. AllKnow' BY <1>0, <2>1, <2>2, KnowsStill
  <2> QED BY <2>1, <2>3 DEF Asked
<1>6. CASE name \in {"created", "closing", "closed"}
  <2>1. Perform(name, w) /\ browser' = browser BY <1>1, <1>2, <1>6 DEF RunTask
  <2>2. view' = [view EXCEPT ![w] = After(name)] BY <1>0, <1>6, <2>1, Performed
  <2>3. view'[w] # "none" /\ \A v \in Windows : v # w => view'[v] = view[v]
    BY <1>0, <2>2 DEF TypeOK, After
  <2>4. ASSUME NEW v \in Windows, v # w, Posted("created", v) PROVE Posted("created", v)'
    <3>1. tasks[1] # <<"created", v>> BY <1>2, <2>4
    <3> QED BY <1>3, <2>4, <3>1
  <2>5. AllKnow' BY <1>0, <2>1, <2>3, <2>4, KnowsStill
  <2> QED BY <2>1, <2>5 DEF Asked
<1> QED BY <1>2, <1>4, <1>5, <1>6 DEF Names

LEMMA NotifiedAsks ==
  ASSUME IInv, AllKnow, NEW w \in Windows,
         NEW name \in {"created", "closing", "closed"}, FromUiThread(name, w),
         NEW b \in {"open", "closing", "ended"}, browser' = [browser EXCEPT ![w] = b],
         name = "created" \/ browser[w] \in Begun
  PROVE  AllKnow' /\ Asked
<1>0. TypeOK /\ Queue BY DEF IInv
<1>1. browser'[w] = b /\ \A v \in Windows : v # w => browser'[v] = browser[v] BY <1>0 DEF TypeOK
<1>2. Asked BY <1>1 DEF Asked
<1>3. CASE MultiThreaded
  <2>1. tasks' = Append(tasks, <<name, w>>) /\ view' = view
    BY <1>3 DEF FromUiThread, OnMainThread, windowVars
  <2>2. name \in Closures BY <1>3 DEF Closures
  <2>3. /\ tasks'[Len(tasks')] = <<name, w>> /\ Len(tasks') = Len(tasks) + 1 /\ Len(tasks) \in Nat
        /\ \A i \in 1..Len(tasks) : tasks'[i] = tasks[i]
    BY <1>0, <2>1, <2>2, AfterPost
  <2>4. /\ Len(tasks') \in 1..Len(tasks')
        /\ \A i \in 1..Len(tasks) : i \in 1..Len(tasks')
    BY <2>3
  <2>5. /\ \A v : Posted("created", v) => Posted("created", v)'
        /\ name = "created" => Posted("created", w)'
    BY <2>3, <2>4 DEF Posted
  <2>6. AllKnow' BY <1>1, <2>1, <2>5, KnowsStill
  <2> QED BY <1>2, <2>6
<1>4. CASE ~MultiThreaded
  <2>1. tasks' = tasks /\ Perform(name, w) BY <1>4 DEF FromUiThread, OnMainThread
  <2>2. view' = [view EXCEPT ![w] = After(name)] BY <1>0, <2>1, Performed
  <2>3. view'[w] # "none" /\ \A v \in Windows : v # w => view'[v] = view[v]
    BY <1>0, <2>2 DEF TypeOK, After
  <2>4. AllKnow' BY <1>1, <2>1, <2>3, KnowsStill DEF Posted
  <2> QED BY <1>2, <2>4
<1> QED BY <1>3, <1>4 DEF WindowsAssumption

\* A step that leaves what the root windows know alone, and whose browser, if it concerns
\* one, has not begun.
LEMMA AsideAsks ==
  ASSUME AllKnow, view' = view,
         \A v : Posted("created", v) => Posted("created", v)',
         \A v \in Windows : browser'[v] = browser[v] \/ browser'[v] \in {"requested", "never"}
  PROVE  AllKnow' /\ Asked
<1>1. AllKnow' BY KnowsStill DEF Begun
<1> QED BY <1>1 DEF Asked

\* A window that is asked for: its browser has not begun.
LEMMA NamedAsks ==
  ASSUME IInv, AllKnow, NEW w \in Windows, view' = view,
         NEW b \in {"none", "requested", "never"}, browser' = [browser EXCEPT ![w] = b],
         browser[w] = "none",
         \/ tasks' = tasks
         \/ tasks' = Append(tasks, <<"registered", w>>)
         \/ MultiThreaded /\ tasks' = tasks \o CreateTasks(w) /\ NoTask(w) /\ view[w] = "none" /\ b = "none"
  PROVE  AllKnow' /\ Asked
<1>0. TypeOK /\ Queue BY DEF IInv
<1>1. \A v \in Windows : browser'[v] = browser[v] \/ browser'[v] \in {"requested", "never"}
  BY <1>0 DEF TypeOK
<1>2. \A v : Posted("created", v) => Posted("created", v)'
  <2>1. CASE tasks' = tasks BY <2>1 DEF Posted
  <2>2. CASE tasks' = Append(tasks, <<"registered", w>>)
    <3>1. "registered" \in Closures BY DEF Closures
    <3>2. /\ Len(tasks') = Len(tasks) + 1 /\ Len(tasks) \in Nat
          /\ \A i \in 1..Len(tasks) : tasks'[i] = tasks[i]
      BY <1>0, <2>2, <3>1, AfterPost
    <3>3. \A i \in 1..Len(tasks) : i \in 1..Len(tasks') BY <3>2
    <3> QED BY <3>2, <3>3 DEF Posted
  <2>3. CASE MultiThreaded /\ tasks' = tasks \o CreateTasks(w) /\ NoTask(w) /\ view[w] = "none" /\ b = "none"
    <3>1. browser' = browser BY <1>0, <2>3 DEF TypeOK
    <3>2. Len(tasks') = Len(tasks) + 2 /\ \A i \in 1..Len(tasks) : tasks'[i] = tasks[i]
      BY <1>0, <2>3, <3>1, CreationPosted
    <3>3. Len(tasks) \in Nat BY <1>0 DEF TypeOK
    <3>4. \A i \in 1..Len(tasks) : i \in 1..Len(tasks') BY <3>2, <3>3
    <3> QED BY <3>2, <3>4 DEF Posted
  <2> QED BY <2>1, <2>2, <2>3
<1> QED BY <1>1, <1>2, AsideAsks

-----------------------------------------------------------------------------
(* Pages are asked, and nothing is left behind. *)

\* A root window's browser and native window, as far as they have come.
Sound(w) ==
  /\ kind[w] # "unused" /\ browser[w] = "none" => Posted("create", w)
  /\ browser[w] = "ended" => view[w] = "destroyed" \/ Posted("closed", w)
  /\ view[w] # "none" => hwnd[w] # "none"
  /\ kind[w] = "window" /\ browser[w] # "none" => hwnd[w] # "none"

AllSound == \A w \in Windows : Sound(w)

\* A native window that does not cease to be, and a browser that does not end.
LEMMA SoundStill ==
  ASSUME NEW w, Sound(w), kind'[w] = kind[w], view'[w] = view[w],
         hwnd'[w] = hwnd[w] \/ hwnd'[w] # "none",
         \/ browser'[w] = browser[w]
         \/ browser[w] # "none" /\ browser'[w] \notin {"none", "ended"},
         Posted("create", w) => Posted("create", w)', Posted("closed", w) => Posted("closed", w)'
  PROVE  Sound(w)'
BY DEF Sound

LEMMA AsideSound ==
  ASSUME AllSound, UNCHANGED <<kind, view, tasks>>,
         \A v \in Windows : hwnd'[v] = hwnd[v] \/ hwnd'[v] # "none",
         \A v \in Windows : \/ browser'[v] = browser[v]
                            \/ browser[v] # "none" /\ browser'[v] \notin {"none", "ended"}
  PROVE  AllSound'
BY SoundStill DEF AllSound, Posted

LEMMA OnCloseSound ==
  ASSUME IInv, AllSound, NEW w \in Windows, OnClose(w), UNCHANGED <<kind, tasks>>
  PROVE  AllSound'
<1>0. TypeOK BY DEF IInv
<1>1. CASE ~MayClose(w) BY <1>1, AsideSound DEF OnClose, windowVars
<1>2. CASE MayClose(w)
  <2>1. /\ view' = view /\ hwnd' = [hwnd EXCEPT ![w] = "destroyed"]
        /\ browser' = IF Running(w) THEN [browser EXCEPT ![w] = "dying"] ELSE browser
    BY <1>2 DEF OnClose, DestroyWindow
  <2>2. \A v \in Windows : /\ hwnd'[v] = hwnd[v] \/ hwnd'[v] = "destroyed"
                           /\ browser'[v] = browser[v] \/ (Running(v) /\ browser'[v] = "dying")
    BY <1>0, <2>1 DEF TypeOK
  <2> QED BY <2>1, <2>2, AsideSound DEF Running
<1> QED BY <1>1, <1>2

\* The window that the news of a browser is about.
LEMMA PerformSound ==
  ASSUME IInv, NEW w \in Windows, Sound(w), NEW name \in {"created", "closing", "closed"},
         Perform(name, w), kind' = kind, kind[w] # "unused",
         browser'[w] \in Begun, browser[w] # "none", browser'[w] = "ended" \/ name # "closed",
         name # "created" => view[w] # "none",
         browser'[w] = "ended" => name = "closed" \/ Posted("closed", w)'
  PROVE  Sound(w)'
<1>0. TypeOK BY DEF IInv
<1>1. view' = [view EXCEPT ![w] = After(name)] /\ view'[w] = After(name)
  BY <1>0, Performed DEF TypeOK
<1>2. hwnd'[w] # "none"
  <2>1. CASE name = "created"
    <3>1. hwnd' = IF Popup(w) THEN [hwnd EXCEPT ![w] = "open"] ELSE hwnd
      BY <2>1 DEF Perform, OnBrowserCreated
    <3>2. Popup(w) \/ kind[w] = "window" BY <1>0 DEF Popup, TypeOK
    <3> QED BY <1>0, <3>1, <3>2 DEF Sound, TypeOK
  <2>2. CASE name = "closing"
    <3>1. hwnd' = hwnd BY <2>2 DEF Perform, OnBrowserClosing
    <3> QED BY <2>2, <3>1 DEF Sound
  <2>3. CASE name = "closed"
    <3>1. hwnd' = IF hwnd[w] = "open" THEN [hwnd EXCEPT ![w] = "destroyed"] ELSE hwnd
      BY <2>3 DEF Perform, OnBrowserClosed
    <3> QED BY <1>0, <2>3, <3>1 DEF Sound, TypeOK
  <2> QED BY <2>1, <2>2, <2>3
<1>3. name = "closed" => view'[w] = "destroyed" BY <1>1 DEF After
<1> QED BY <1>2, <1>3 DEF Sound, Begun

LEMMA NotifiedSound ==
  ASSUME IInv, AllKnow, AllSound, NEW w \in Windows,
         NEW name \in {"created", "closing", "closed"}, FromUiThread(name, w), kind' = kind,
         NEW b \in {"open", "closing", "ended"}, browser' = [browser EXCEPT ![w] = b],
         b = "ended" <=> name = "closed", name = "created" \/ browser[w] \in Begun,
         browser[w] # "none", ~MultiThreaded => NoTask(w)
  PROVE  AllSound'
<1>0. TypeOK /\ Queue /\ Each(w) /\ Sound(w) BY DEF IInv, AllSound
<1>1. browser'[w] = b /\ \A v \in Windows : v # w => browser'[v] = browser[v] BY <1>0 DEF TypeOK
<1>2. kind[w] # "unused" BY <1>0 DEF Each, Unused
<1>3. CASE MultiThreaded
  <2>1. tasks' = Append(tasks, <<name, w>>) /\ UNCHANGED <<view, hwnd>>
    BY <1>3 DEF FromUiThread, OnMainThread, windowVars
  <2>2. name \in Closures BY <1>3 DEF Closures
  <2>3. /\ tasks'[Len(tasks')] = <<name, w>> /\ Len(tasks') = Len(tasks) + 1 /\ Len(tasks) \in Nat
        /\ \A i \in 1..Len(tasks) : tasks'[i] = tasks[i]
    BY <1>0, <2>1, <2>2, AfterPost
  <2>4. /\ Len(tasks') \in 1..Len(tasks')
        /\ \A i \in 1..Len(tasks) : i \in 1..Len(tasks')
    BY <2>3
  <2>5. \A v : /\ Posted("create", v) => Posted("create", v)'
               /\ Posted("closed", v) => Posted("closed", v)'
    BY <2>3, <2>4 DEF Posted
  <2>6. name = "closed" => Posted("closed", w)' BY <2>3, <2>4 DEF Posted
  <2>7. Sound(w)' BY <1>0, <1>1, <2>1, <2>6 DEF Sound
  <2>8. ASSUME NEW v \in Windows, v # w PROVE Sound(v)'
    BY <1>1, <2>1, <2>5, <2>8, SoundStill DEF AllSound
  <2> QED BY <2>7, <2>8 DEF AllSound
<1>4. CASE ~MultiThreaded
  <2>1. tasks' = tasks /\ Perform(name, w) BY <1>4 DEF FromUiThread, OnMainThread
  <2>2. name # "created" => view[w] # "none"
    <3>1. ~Posted("created", w)
      <4> SUFFICES ASSUME NEW i \in 1..Len(tasks), tasks[i] = <<"created", w>> PROVE FALSE
        BY DEF Posted
      <4>1. tasks[i][2] = w OBVIOUS
      <4> QED BY <1>4, <4>1 DEF NoTask
    <3> QED BY <3>1 DEF AllKnow, Knows
  <2>3. Sound(w)' BY <1>0, <1>1, <1>2, <2>1, <2>2, PerformSound DEF Begun
  <2>4. \A v \in Windows : v # w => view'[v] = view[v] /\ hwnd'[v] = hwnd[v]
    BY <1>0, <2>1, Performed
  <2>5. ASSUME NEW v \in Windows, v # w PROVE Sound(v)'
    BY <1>1, <2>1, <2>4, <2>5, SoundStill DEF AllSound, Posted
  <2> QED BY <2>3, <2>5 DEF AllSound
<1> QED BY <1>3, <1>4 DEF WindowsAssumption

LEMMA RunTaskSound ==
  ASSUME IInv, AllKnow, AllSound, RunTask
  PROVE  AllSound'
<1>0. TypeOK /\ Queue /\ (\A v \in Windows : Each(v) /\ Sound(v) /\ Knows(v)) /\ tasks # <<>>
      /\ tasks' = Tail(tasks) /\ kind' = kind
  BY DEF IInv, RunTask, AllSound, AllKnow
<1>1. /\ Head(tasks) = tasks[1] /\ 1 \in 1..Len(tasks) /\ Len(tasks) \in Nat
      /\ \A i \in 1..Len(tasks) : i = 1 \/ 1 < i
  <2>1. Head(tasks) = tasks[1] /\ 1 \in 1..Len(tasks) /\ Len(tasks) \in Nat BY <1>0, AfterRun
  <2> QED BY <2>1
<1>2. PICK name \in Closures, w \in Windows :
        name \in Names /\ tasks[1][1] = name /\ tasks[1][2] = w /\ tasks[1] = <<name, w>>
  BY <1>0, <1>1, TaskType
<1>3. \A n, v : Posted(n, v) => Posted(n, v)' \/ (n = name /\ v = w)
  <2>1. \A n, v : Posted(n, v) => Posted(n, v)' \/ tasks[1] = <<n, v>> BY <1>0, RunKeeps DEF Queue
  <2>2. \A n, v : tasks[1] = <<n, v>> => n = name /\ v = w BY <1>2
  <2> QED BY <2>1, <2>2
<1>4. kind[w] # "unused" BY <1>0, <1>1, <1>2 DEF Each, Unused, NoTask
<1>5. /\ Rank(name) <= Latest(browser[w]) /\ Shown(view[w]) < Rank(name)
      /\ name = "create" => browser[w] = "none"
  BY <1>0, <1>1, <1>2 DEF Queue, InTime, Timely
<1>6. CASE name = "create"
  <2>1. /\ hwnd' = [hwnd EXCEPT ![w] = "open"] /\ browser' = [browser EXCEPT ![w] = "requested"]
        /\ view' = view
    BY <1>1, <1>2, <1>6 DEF RunTask, CreateNativeWindow
  <2>2. /\ hwnd'[w] = "open" /\ browser'[w] = "requested"
        /\ \A v \in Windows : v # w => hwnd'[v] = hwnd[v] /\ browser'[v] = browser[v]
    BY <1>0, <2>1 DEF TypeOK
  <2>4. Sound(w)' BY <1>0, <2>1, <2>2 DEF Sound
  <2>5. ASSUME NEW v \in Windows, v # w PROVE Sound(v)'
    <3>1. /\ Posted("create", v) => Posted("create", v)'
          /\ Posted("closed", v) => Posted("closed", v)'
      BY <1>3, <2>5
    <3>2. Sound(v) BY <1>0
    <3> QED BY <1>0, <2>1, <2>2, <2>5, <3>1, <3>2, SoundStill
  <2> QED BY <2>4, <2>5 DEF AllSound
<1>7. CASE name = "registered"
  <2>1. UNCHANGED <<hwnd, view, browser>>
    BY <1>1, <1>2, <1>7 DEF RunTask, Perform, OnRootWindowCreated
  <2>2. ASSUME NEW v \in Windows PROVE Sound(v)'
    <3>1. /\ Posted("create", v) => Posted("create", v)'
          /\ Posted("closed", v) => Posted("closed", v)'
      BY <1>3, <1>7
    <3>2. Sound(v) BY <1>0
    <3> QED BY <1>0, <2>1, <3>1, <3>2, SoundStill
  <2> QED BY <2>2 DEF AllSound
<1>8. CASE name \in {"created", "closing", "closed"}
  <2>1. Perform(name, w) /\ browser' = browser BY <1>1, <1>2, <1>8 DEF RunTask
  <2>2. \A v \in Windows : v # w => view'[v] = view[v] /\ hwnd'[v] = hwnd[v]
    BY <1>0, <1>8, <2>1, Performed
  <2>3. browser[w] \in Begun /\ (name = "closed" => browser[w] = "ended")
    <3>1. browser[w] \in BrowserStates BY <1>0 DEF TypeOK, BrowserStates
    <3> QED BY <1>0, <1>5, <1>8, <3>1, RankIs, Stages DEF Begun, BrowserStates
  <2>4. name # "created" => view[w] # "none"
    <3> SUFFICES ASSUME name # "created", Posted("created", w) PROVE FALSE
      BY <1>0, <2>3 DEF Knows
    <3>1. PICK i \in 1..Len(tasks) : tasks[i] = <<"created", w>> BY DEF Posted
    <3>2. tasks[i][1] = "created" /\ tasks[i][2] = w BY <3>1
    <3>3. 1 < i BY <1>1, <1>2, <3>2
    <3>4. Rank(name) < Rank("created") BY <1>0, <1>1, <1>2, <3>2, <3>3 DEF Queue, InTurn
    <3> QED BY <1>8, <3>4, RankIs
  <2>5. browser[w] = "ended" => name = "closed" \/ Posted("closed", w)'
    <3>1. browser[w] = "ended" => Posted("closed", w)
      <4>1. Rank(name) \in 1..5 BY <1>2, RankIs
      <4>2. view[w] # "destroyed" BY <1>5, <4>1, Stages
      <4> QED BY <1>0, <4>2 DEF Sound
    <3> QED BY <1>3, <3>1
  <2>6. Sound(w)' BY <1>0, <1>4, <1>8, <2>1, <2>3, <2>4, <2>5, PerformSound DEF Begun
  <2>7. ASSUME NEW v \in Windows, v # w PROVE Sound(v)'
    <3>1. /\ Posted("create", v) => Posted("create", v)'
          /\ Posted("closed", v) => Posted("closed", v)'
      BY <1>3, <2>7
    <3>2. Sound(v) BY <1>0
    <3> QED BY <1>0, <2>1, <2>2, <2>7, <3>1, <3>2, SoundStill
  <2> QED BY <2>6, <2>7 DEF AllSound
<1> QED BY <1>2, <1>6, <1>7, <1>8 DEF Names

LEMMA NamedSound ==
  ASSUME IInv, AllSound, NEW o \in Windows, NEW w \in Windows,
         NEW k \in {"window", "popup", "tools"}, Named(k, o, w), view' = view,
         \A v : Posted("create", v) => Posted("create", v)',
         \A v : Posted("closed", v) => Posted("closed", v)',
         \A v \in Windows : v # w => hwnd'[v] = hwnd[v] /\ browser'[v] = browser[v],
         \/ browser'[w] = "none" /\ hwnd' = hwnd /\ Posted("create", w)'
         \/ browser'[w] = "requested" /\ hwnd'[w] = "open"
         \/ browser'[w] \in {"requested", "never"} /\ hwnd' = hwnd /\ k # "window"
  PROVE  AllSound'
<1>0. TypeOK BY DEF IInv
<1>1. kind' = [kind EXCEPT ![w] = k] BY DEF Named
<1>2. kind'[w] = k /\ \A v \in Windows : v # w => kind'[v] = kind[v] BY <1>0, <1>1 DEF TypeOK
<1>3. browser[w] = "none" /\ hwnd[w] = "none" /\ view[w] = "none" BY NamedIs
<1>5. Sound(w)' BY <1>2, <1>3 DEF Sound
<1>6. ASSUME NEW v \in Windows, v # w PROVE Sound(v)'
  BY <1>2, <1>6, SoundStill DEF AllSound
<1> QED BY <1>5, <1>6 DEF AllSound

\* What has been posted stays posted when a registration follows it.
LEMMA PostedStays ==
  ASSUME TypeOK, NEW w \in Windows, tasks' = Append(tasks, <<"registered", w>>)
  PROVE  \A n, v : Posted(n, v) => Posted(n, v)'
<1>1. "registered" \in Closures BY DEF Closures
<1>2. /\ Len(tasks') = Len(tasks) + 1 /\ Len(tasks) \in Nat
      /\ \A i \in 1..Len(tasks) : tasks'[i] = tasks[i]
  BY <1>1, AfterPost
<1>3. \A i \in 1..Len(tasks) : i \in 1..Len(tasks') BY <1>2
<1> QED BY <1>2, <1>3 DEF Posted

LEMMA NextSound ==
  ASSUME IInv, AllKnow, AllSound, [Next]_vars
  PROVE  AllSound'
<1>0. TypeOK /\ Queue /\ \A v \in Windows : Each(v) BY DEF IInv
<1>1. CASE RunTask BY <1>1, RunTaskSound
<1>2. CASE OnExit BY <1>2, AsideSound DEF OnExit
<1>3. ASSUME NEW w \in Windows, UserCloses(w) PROVE AllSound'
  BY <1>3, OnCloseSound DEF UserCloses
<1>4. ASSUME NEW w \in Windows, NEW from \in {"CEF", "manager"}, CloseArrives(w, from)
      PROVE  AllSound'
  <2>1. UNCHANGED <<kind, tasks>> BY <1>4 DEF CloseArrives
  <2>2. CASE OnClose(w) BY <2>1, <2>2, OnCloseSound
  <2>3. CASE UNCHANGED <<browser, asked, windowVars>>
    BY <2>1, <2>3, AsideSound DEF windowVars
  <2> QED BY <1>4, <2>2, <2>3 DEF CloseArrives
<1>5. ASSUME NEW w \in Windows, BrowserCreated(w) PROVE AllSound'
  <2>1. browser[w] = "requested" /\ kind' = kind BY <1>5 DEF BrowserCreated
  <2>2. CASE browser' = [browser EXCEPT ![w] = "open"] /\ FromUiThread("created", w)
    <3>1. ~MultiThreaded => NoTask(w) BY <1>5, NothingPosted DEF BrowserCreated
    <3> QED BY <2>1, <2>2, <3>1, NotifiedSound
  <2>3. CASE browser' = [browser EXCEPT ![w] = "never"] /\ UNCHANGED <<windowVars, tasks>>
    <3>1. \A v \in Windows : \/ browser'[v] = browser[v]
                             \/ browser[v] # "none" /\ browser'[v] \notin {"none", "ended"}
      BY <1>0, <2>1, <2>3 DEF TypeOK
    <3> QED BY <2>1, <2>3, <3>1, AsideSound DEF windowVars
  <2> QED BY <1>5, <2>2, <2>3 DEF BrowserCreated
<1>6. ASSUME NEW w \in Windows, PopupDropped(w) PROVE AllSound'
  <2>1. /\ UNCHANGED <<kind, view, hwnd, tasks>> /\ browser[w] = "requested"
        /\ browser' = [browser EXCEPT ![w] = "never"]
    BY <1>6 DEF PopupDropped
  <2>2. \A v \in Windows : \/ browser'[v] = browser[v]
                           \/ browser[v] # "none" /\ browser'[v] \notin {"none", "ended"}
    BY <1>0, <2>1 DEF TypeOK
  <2> QED BY <2>1, <2>2, AsideSound
<1>7. ASSUME NEW w \in Windows, DoClose(w) PROVE AllSound'
  <2>1. /\ FromUiThread("closing", w) /\ browser' = [browser EXCEPT ![w] = "closing"]
        /\ browser[w] = "open" /\ browser[w] \in Begun /\ kind' = kind
    BY <1>7 DEF DoClose, Begun
  <2>2. ~MultiThreaded => NoTask(w) BY <2>1, NothingPosted
  <2> QED BY <2>1, <2>2, NotifiedSound
<1>8. ASSUME NEW w \in Windows, PageStays(w) PROVE AllSound' BY <1>8, AsideSound DEF PageStays
<1>9. ASSUME NEW w \in Windows, OnBeforeClose(w) PROVE AllSound'
  <2>1. /\ FromUiThread("closed", w) /\ browser' = [browser EXCEPT ![w] = "ended"]
        /\ browser[w] = "dying" /\ browser[w] \in Begun /\ kind' = kind
    BY <1>9 DEF OnBeforeClose, Begun
  <2>2. ~MultiThreaded => NoTask(w) BY <2>1, NothingPosted
  <2> QED BY <2>1, <2>2, NotifiedSound
<1>10. ASSUME NEW o \in Windows, NEW w \in Windows, NEW here \in BOOLEAN,
              CreateRootWindow(o, w, here)
       PROVE  AllSound'
  <2>1. Named("window", o, w) /\ view' = view BY <1>10 DEF CreateRootWindow
  <2>2. browser[w] = "none" /\ hwnd[w] = "none" /\ view[w] = "none" /\ NoTask(w)
    BY <2>1, NamedIs
  <2>3. CASE here
    <3>1. /\ browser' = [browser EXCEPT ![w] = "requested"] /\ hwnd' = [hwnd EXCEPT ![w] = "open"]
          /\ tasks' = tasks
      BY <1>10, <2>3 DEF CreateRootWindow, CreateNativeWindow
    <3>2. /\ browser'[w] = "requested" /\ hwnd'[w] = "open"
          /\ \A v \in Windows : v # w => hwnd'[v] = hwnd[v] /\ browser'[v] = browser[v]
      BY <1>0, <3>1 DEF TypeOK
    <3>3. \A n, v : Posted(n, v) => Posted(n, v)' BY <3>1 DEF Posted
    <3> QED BY <2>1, <3>2, <3>3, NamedSound
  <2>4. CASE ~here
    <3>1. UNCHANGED <<hwnd, browser>> /\ MultiThreaded /\ tasks' = tasks \o CreateTasks(w)
      BY <1>10, <2>4 DEF CreateRootWindow
    <3>2. /\ \A i \in 1..Len(tasks) : tasks'[i] = tasks[i]
          /\ Len(tasks') = Len(tasks) + 2 /\ Posted("create", w)'
      BY <1>0, <2>1, <2>2, <3>1, CreationPosted
    <3>3. Len(tasks) \in Nat
      <4>1. tasks \in Seq(Closures \X Windows) BY <1>0 DEF TypeOK
      <4> QED BY <4>1
    <3>4. \A i \in 1..Len(tasks) : i \in 1..Len(tasks') BY <3>2, <3>3
    <3>5. \A n, v : Posted(n, v) => Posted(n, v)' BY <3>2, <3>4 DEF Posted
    <3> QED BY <2>1, <2>2, <3>1, <3>2, <3>5, NamedSound
  <2> QED BY <2>3, <2>4
<1>11. ASSUME NEW o \in Windows, NEW w \in Windows, OnBeforePopup(o, w) PROVE AllSound'
  <2>1. /\ Named("popup", o, w) /\ browser' = [browser EXCEPT ![w] = "requested"]
        /\ UNCHANGED <<hwnd, view>> /\ tasks' = Append(tasks, <<"registered", w>>)
    BY <1>11 DEF OnBeforePopup, OnMainThread, windowVars
  <2>2. browser'[w] = "requested" /\ \A v \in Windows : v # w => browser'[v] = browser[v]
    BY <1>0, <2>1 DEF TypeOK
  <2>3. \A n, v : Posted(n, v) => Posted(n, v)' BY <1>0, <2>1, PostedStays
  <2> QED BY <2>1, <2>2, <2>3, NamedSound
<1>12. ASSUME NEW o \in Windows, NEW w \in Windows, ShowDevTools(o, w) PROVE AllSound'
  <2>1. Named("tools", o, w) /\ FromUiThread("registered", w) BY <1>12 DEF ShowDevTools
  <2>5. PICK b \in {"requested", "never"} : browser' = [browser EXCEPT ![w] = b]
    BY <1>12 DEF ShowDevTools
  <2>2. /\ UNCHANGED <<view, hwnd>>
        /\ tasks' = tasks \/ tasks' = Append(tasks, <<"registered", w>>)
    BY <2>1 DEF FromUiThread, OnMainThread, Perform, OnRootWindowCreated, windowVars
  <2>3. browser'[w] \in {"requested", "never"} /\ \A v \in Windows : v # w => browser'[v] = browser[v]
    BY <1>0, <2>5 DEF TypeOK
  <2>4. \A n, v : Posted(n, v) => Posted(n, v)'
    <3>1. CASE tasks' = tasks BY <3>1 DEF Posted
    <3> QED BY <1>0, <2>2, <3>1, PostedStays
  <2> QED BY <2>1, <2>2, <2>3, <2>4, NamedSound
<1>13. CASE UNCHANGED vars BY <1>13, AsideSound DEF vars
<1>14. ASSUME NEW w \in Windows, TempWindowCloses(w) PROVE AllSound'
  <2>1. /\ UNCHANGED <<kind, view, hwnd, tasks>>
        /\ browser' = [v \in Windows |-> IF InTempWindow(v) THEN "dying" ELSE browser[v]]
    BY <1>14 DEF TempWindowCloses
  <2>2. \A v \in Windows : browser'[v] = browser[v] \/ (Running(v) /\ browser'[v] = "dying")
    BY <2>1 DEF InTempWindow
  <2> QED BY <2>1, <2>2, AsideSound DEF Running
<1> QED
  BY <1>1, <1>2, <1>3, <1>4, <1>5, <1>6, <1>7, <1>8, <1>9, <1>10, <1>11, <1>12, <1>13, <1>14
  DEF Next

LEMMA NextAsks ==
  ASSUME IInv, AllKnow, AllSound, [Next]_vars
  PROVE  AllKnow' /\ Asked
<1>0. TypeOK /\ \A v \in Windows : Each(v) BY DEF IInv
<1>1. CASE RunTask BY <1>1, RunTaskAsks
<1>2. CASE OnExit
  <2>1. UNCHANGED <<view, browser, tasks>> BY <1>2 DEF OnExit
  <2> QED BY <2>1, AsideAsks DEF Posted
<1>3. ASSUME NEW w \in Windows, UserCloses(w) PROVE AllKnow' /\ Asked
  BY <1>3, OnCloseAsks DEF UserCloses
<1>4. ASSUME NEW w \in Windows, NEW from \in {"CEF", "manager"}, CloseArrives(w, from)
      PROVE  AllKnow' /\ Asked
  <2>1. UNCHANGED <<kind, tasks>> BY <1>4 DEF CloseArrives
  <2>2. CASE hwnd[w] = "open" /\ OnClose(w) BY <2>1, <2>2, OnCloseAsks
  <2>3. CASE UNCHANGED <<browser, asked, windowVars>>
    BY <2>1, <2>3, AsideAsks DEF Posted, windowVars
  <2> QED BY <1>4, <2>2, <2>3 DEF CloseArrives
<1>5. ASSUME NEW w \in Windows, BrowserCreated(w) PROVE AllKnow' /\ Asked
  <2>1. CASE browser' = [browser EXCEPT ![w] = "open"] /\ FromUiThread("created", w)
    BY <1>5, <2>1, NotifiedAsks DEF BrowserCreated
  <2>2. CASE browser' = [browser EXCEPT ![w] = "never"] /\ UNCHANGED <<windowVars, tasks>>
    <3>1. \A v \in Windows : browser'[v] = browser[v] \/ browser'[v] = "never"
      BY <1>0, <2>2 DEF TypeOK
    <3> QED BY <1>5, <2>2, <3>1, AsideAsks DEF BrowserCreated, Posted, windowVars
  <2> QED BY <1>5, <2>1, <2>2 DEF BrowserCreated
<1>6. ASSUME NEW w \in Windows, PopupDropped(w) PROVE AllKnow' /\ Asked
  <2>1. browser' = [browser EXCEPT ![w] = "never"] /\ UNCHANGED <<view, tasks>>
    BY <1>6 DEF PopupDropped
  <2>2. \A v \in Windows : browser'[v] = browser[v] \/ browser'[v] = "never"
    BY <1>0, <2>1 DEF TypeOK
  <2> QED BY <2>1, <2>2, AsideAsks DEF Posted
<1>7. ASSUME NEW w \in Windows, DoClose(w) PROVE AllKnow' /\ Asked
  <2>1. /\ FromUiThread("closing", w) /\ browser' = [browser EXCEPT ![w] = "closing"]
        /\ browser[w] \in Begun
    BY <1>7 DEF DoClose, Begun
  <2> QED BY <2>1, NotifiedAsks
<1>8. ASSUME NEW w \in Windows, PageStays(w) PROVE AllKnow' /\ Asked
  BY <1>8, AsideAsks DEF PageStays, Posted
<1>9. ASSUME NEW w \in Windows, OnBeforeClose(w) PROVE AllKnow' /\ Asked
  <2>1. /\ FromUiThread("closed", w) /\ browser' = [browser EXCEPT ![w] = "ended"]
        /\ browser[w] \in Begun
    BY <1>9 DEF OnBeforeClose, Begun
  <2> QED BY <2>1, NotifiedAsks
<1>10. ASSUME NEW o \in Windows, NEW w \in Windows, NEW here \in BOOLEAN,
              CreateRootWindow(o, w, here)
       PROVE  AllKnow' /\ Asked
  <2>1. Named("window", o, w) /\ view' = view BY <1>10 DEF CreateRootWindow
  <2>2. browser[w] = "none" /\ view[w] = "none" /\ NoTask(w) BY <2>1, NamedIs
  <2>3. CASE here
    <3>1. browser' = [browser EXCEPT ![w] = "requested"] /\ tasks' = tasks
      BY <1>10, <2>3 DEF CreateRootWindow, CreateNativeWindow
    <3> QED BY <2>1, <2>2, <3>1, NamedAsks
  <2>4. CASE ~here
    <3>1. browser' = browser /\ MultiThreaded /\ tasks' = tasks \o CreateTasks(w)
      BY <1>10, <2>4 DEF CreateRootWindow
    <3>2. browser' = [browser EXCEPT ![w] = "none"] BY <1>0, <2>2, <3>1 DEF TypeOK
    <3> QED BY <2>1, <2>2, <3>1, <3>2, NamedAsks
  <2> QED BY <2>3, <2>4
<1>11. ASSUME NEW o \in Windows, NEW w \in Windows, OnBeforePopup(o, w) PROVE AllKnow' /\ Asked
  <2>1. /\ Named("popup", o, w) /\ browser' = [browser EXCEPT ![w] = "requested"]
        /\ view' = view /\ tasks' = Append(tasks, <<"registered", w>>)
    BY <1>11 DEF OnBeforePopup, OnMainThread, windowVars
  <2>2. browser[w] = "none" BY <2>1, NamedIs
  <2> QED BY <2>1, <2>2, NamedAsks
<1>12. ASSUME NEW o \in Windows, NEW w \in Windows, ShowDevTools(o, w) PROVE AllKnow' /\ Asked
  <2>1. PICK b \in {"requested", "never"} : browser' = [browser EXCEPT ![w] = b]
    BY <1>12 DEF ShowDevTools
  <2>2. Named("tools", o, w) /\ FromUiThread("registered", w)
    BY <1>12 DEF ShowDevTools
  <2>3. view' = view /\ (tasks' = tasks \/ tasks' = Append(tasks, <<"registered", w>>))
    BY <2>2 DEF FromUiThread, OnMainThread, Perform, OnRootWindowCreated, windowVars
  <2>4. browser[w] = "none" BY <2>2, NamedIs
  <2> QED BY <2>1, <2>2, <2>3, <2>4, NamedAsks
<1>13. CASE UNCHANGED vars BY <1>13, AsideAsks DEF vars, Posted
<1>14. ASSUME NEW w \in Windows, TempWindowCloses(w) PROVE AllKnow' /\ Asked
  <2>1. /\ UNCHANGED <<view, tasks>>
        /\ browser' = [v \in Windows |-> IF InTempWindow(v) THEN "dying" ELSE browser[v]]
    BY <1>14 DEF TempWindowCloses
  <2>2. \A v \in Windows : browser'[v] = browser[v] \/ (InTempWindow(v) /\ browser[v] \in Begun)
    BY <2>1 DEF InTempWindow, Running, Begun
  <2>3. AllKnow' BY <2>1, <2>2, KnowsStill DEF Posted
  <2>4. ASSUME NEW v \in Windows, InTempWindow(v) PROVE Posted("created", v)
    <3>1. hwnd[v] = "none" /\ browser[v] \in Begun BY <2>4 DEF InTempWindow, Running, Begun
    <3>2. view[v] = "none" BY <3>1 DEF AllSound, Sound
    <3> QED BY <3>1, <3>2 DEF AllKnow, Knows
  <2>5. Asked BY <2>2, <2>4 DEF Asked
  <2> QED BY <2>3, <2>5
<1> QED
  BY <1>1, <1>2, <1>3, <1>4, <1>5, <1>6, <1>7, <1>8, <1>9, <1>10, <1>11, <1>12, <1>13, <1>14
  DEF Next

LEMMA BothBegin == Init => AllKnow /\ AllSound
BY WindowsAssumption DEF Init, AllKnow, Knows, Begun, AllSound, Sound

LEMMA BothStay == IInv /\ AllKnow /\ AllSound /\ [Next]_vars => AllKnow' /\ AllSound' /\ Asked
BY NextAsks, NextSound

\* No native window is destroyed under an open page that has not been asked and has not let
\* its browser close, whoever wants which window closed and however the messages and
\* closures of the two threads interleave, unless the main thread is still to hear of the
\* browser.
THEOREM AskedBeforeDestroyed == Spec => PageAskedFirst
<1>1. Asked => \A w \in Windows :
                  browser[w] = "open" /\ browser'[w] = "dying" => Posted("created", w)
  BY DEF Asked
<1> QED BY <1>1, BothBegin, BothStay, Always, PTL DEF Spec, PageAskedFirst

\* Every root window that keeps the main loop running has a browser, is still to get one,
\* will hear of its end, or is one whose browser was never made.
THEOREM NoneLeftBehind == Spec => []NothingLeftBehind
<1>1. IInv /\ AllSound => NothingLeftBehind
  <2> SUFFICES ASSUME IInv, AllSound, NEW w \in root_windows_
               PROVE  \/ browser[w] \in {"requested", "open", "closing", "dying", "never"}
                      \/ Posted("create", w) \/ Posted("closed", w)
    BY DEF NothingLeftBehind
  <2>1. w \in Windows /\ Each(w) /\ Sound(w) BY DEF IInv, TypeOK, AllSound
  <2>2. Present(w) BY <2>1 DEF Each, Registered
  <2>3. browser[w] \in BrowserStates /\ hwnd[w] \in {"none", "open", "destroyed"}
    BY <2>1 DEF IInv, TypeOK, BrowserStates
  <2> QED BY <2>1, <2>2, <2>3 DEF Each, Lags, Sound, Present, BrowserStates
<1> QED BY <1>1, BothBegin, BothStay, Always, PTL DEF Spec
=============================================================================
