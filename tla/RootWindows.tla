---------------------------- MODULE RootWindows ----------------------------
(***************************************************************************)
(* The native host's root windows: each owns a native window and, inside   *)
(* it, a browser. The two are created and end in either order, on the main *)
(* thread and on CEF's UI thread, which are the same thread or not. The    *)
(* manager keeps a root window until both have ended, and quits the main   *)
(* loop with the last one.                                                 *)
(*   src/cef3/tests/cefclient/browser/root_window_manager.cc               *)
(*   src/cef3/tests/cefclient/browser/root_window_win.cc                   *)
(*   src/cef3/tests/cefclient/browser/browser_window.cc                    *)
(*   src/cef3/tests/cefclient/browser/client_handler.cc                    *)
(***************************************************************************)
EXTENDS Naturals, Sequences

CONSTANTS
  Windows,
  First,           \* the window the host opens before it runs its loop
  NoWindow,
  MultiThreaded    \* is the main thread another than CEF's UI thread?

ASSUME WindowsAssumption ==
  First \in Windows /\ NoWindow \notin Windows /\ MultiThreaded \in BOOLEAN

VARIABLES
  kind,          \* what each root window was created for, "unused" before
  opener,        \* the window whose browser asked for it
  root_windows_, \* the manager's set
  hwnd,          \* the native window: none yet, open, or destroyed (window_destroyed_)
  view,          \* the browser as the root window knows it: none yet, open (browser_),
                 \* closing (is_closing_) or destroyed (browser_destroyed_)
  browser,       \* the browser in CEF, which may never come to be
  temp,          \* the TempWindow, the parent of a popup's browser at first: open or destroyed
  tasks,         \* closures posted to the main thread
  wm_close,      \* WM_CLOSE messages on their way: the manager's and CEF's to a window, and
                 \* CEF's, about the browser of a window, to the TempWindow
  asked,         \* windows whose browser is asking its page whether it may close
  quit           \* MainMessageLoop::Quit has been called

vars ==
  <<kind, opener, root_windows_, hwnd, view, browser, temp, tasks, wm_close, asked, quit>>
windowVars == <<root_windows_, hwnd, view, quit>>

Popup(w) == kind[w] \in {"popup", "tools"}
Posted(name, w) == \E i \in 1..Len(tasks) : tasks[i] = <<name, w>>
Running(w) == browser[w] \in {"open", "closing"}

\* A popup's browser is moved to its root window when that gets its native window.
InTempWindow(w) == Popup(w) /\ Running(w) /\ hwnd[w] = "none"

\* The window that a new browser is to be a child of is gone.
ParentGone(w) == IF Popup(w) THEN temp = "destroyed" ELSE hwnd[w] = "destroyed"
-----------------------------------------------------------------------------
(* What the main thread does with a root window. *)

\* Mutant: the manager is told as soon as either has been destroyed.
ToldOfEither(window_destroyed, browser_destroyed) == window_destroyed \/ browser_destroyed

\* NotifyDestroyedIfDone: is OnRootWindowDestroyed called?
Told(window_destroyed, browser_destroyed) == window_destroyed /\ browser_destroyed

\* Mutant: the manager quits with each window.
OnRootWindowDestroyedQuits(w) ==
  /\ root_windows_' = root_windows_ \ {w}
  /\ quit' = TRUE

OnRootWindowDestroyed(w) ==
  /\ root_windows_' = root_windows_ \ {w}
  /\ quit' = (quit \/ root_windows_' = {})

\* Mutant: the flags are looked at before they are set.
NotifyDestroyedIfDoneBefore(w) ==
  IF Told(hwnd[w] = "destroyed", view[w] = "destroyed")
  THEN OnRootWindowDestroyed(w)
  ELSE UNCHANGED <<root_windows_, quit>>

NotifyDestroyedIfDone(w) ==
  IF Told(hwnd'[w] = "destroyed", view'[w] = "destroyed")
  THEN OnRootWindowDestroyed(w)
  ELSE UNCHANGED <<root_windows_, quit>>

OnRootWindowCreated(w) ==
  /\ root_windows_' = root_windows_ \cup {w}
  /\ UNCHANGED <<hwnd, view, quit>>

\* BrowserWindow::OnBrowserCreated, RootWindowWin::OnBrowserCreated: a popup gets its
\* native window now.
OnBrowserCreated(w) ==
  /\ view' = [view EXCEPT ![w] = "open"]
  /\ hwnd' = IF Popup(w) THEN [hwnd EXCEPT ![w] = "open"] ELSE hwnd
  /\ UNCHANGED <<root_windows_, quit>>

OnBrowserClosing(w) ==
  /\ view' = [view EXCEPT ![w] = "closing"]
  /\ UNCHANGED <<root_windows_, hwnd, quit>>

\* BrowserWindow::OnBrowserClosed, OnBrowserWindowDestroyed: Close(true) destroys the
\* native window, if there is one.
OnBrowserClosed(w) ==
  /\ view' = [view EXCEPT ![w] = "destroyed"]
  /\ hwnd' = IF hwnd[w] = "open" THEN [hwnd EXCEPT ![w] = "destroyed"] ELSE hwnd
  /\ NotifyDestroyedIfDone(w)

Perform(name, w) ==
  CASE name = "registered" -> OnRootWindowCreated(w)
    [] name = "created" -> OnBrowserCreated(w)
    [] name = "closing" -> OnBrowserClosing(w)
    [] name = "closed" -> OnBrowserClosed(w)

\* MAIN_POST_CLOSURE, unless the caller is on the main thread.
OnMainThread(name, w, here) ==
  IF here
  THEN Perform(name, w) /\ UNCHANGED tasks
  ELSE tasks' = Append(tasks, <<name, w>>) /\ UNCHANGED windowVars

\* Mutant: the closure is posted even where the two threads are one.
FromUiThreadPosted(name, w) == OnMainThread(name, w, FALSE)

FromUiThread(name, w) == OnMainThread(name, w, ~MultiThreaded)

\* WM_NCDESTROY of the root window; its browser's window is a child and goes with it.
DestroyWindow(w) ==
  /\ hwnd' = [hwnd EXCEPT ![w] = "destroyed"]
  /\ browser' = IF Running(w) THEN [browser EXCEPT ![w] = "dying"] ELSE browser
  /\ asked' = asked \ {w}
  /\ UNCHANGED view
  /\ NotifyDestroyedIfDone(w)

\* Mutant: the browser is asked each time.
MayCloseNever(w) == view[w] \in {"none", "destroyed"}

\* RootWindowWin::OnClose: is the window to be destroyed now?
MayClose(w) == view[w] # "open"

\* Mutant: the window takes the question for the answer and is closed by the next WM_CLOSE.
OnCloseForGood(w) ==
  \/ /\ ~MayClose(w)
     /\ asked' = IF browser[w] = "open" THEN asked \cup {w} ELSE asked
     /\ view' = [view EXCEPT ![w] = "closing"]
     /\ UNCHANGED <<browser, root_windows_, hwnd, quit>>
  \/ /\ MayClose(w)
     /\ DestroyWindow(w)

\* WM_CLOSE.
OnClose(w) ==
  \/ /\ ~MayClose(w)
     /\ asked' = IF browser[w] = "open" THEN asked \cup {w} ELSE asked
     /\ UNCHANGED <<browser, windowVars>>
  \/ /\ MayClose(w)
     /\ DestroyWindow(w)
-----------------------------------------------------------------------------
(* The main thread. *)

\* CreateRootWindow of a window that is not a popup.
CreateNativeWindow(w) ==
  /\ hwnd' = [hwnd EXCEPT ![w] = "open"]
  /\ browser' = [browser EXCEPT ![w] = "requested"]

RunTask ==
  /\ tasks # <<>>
  /\ tasks' = Tail(tasks)
  /\ LET name == Head(tasks)[1]
         w == Head(tasks)[2]
     IN \/ /\ name = "create"
           /\ CreateNativeWindow(w)
           /\ UNCHANGED <<root_windows_, view, quit>>
        \/ /\ name # "create"
           /\ Perform(name, w)
           /\ UNCHANGED browser
  /\ UNCHANGED <<kind, opener, temp, wm_close, asked>>

\* The user closes a window.
UserCloses(w) ==
  /\ hwnd[w] = "open"
  /\ OnClose(w)
  /\ UNCHANGED <<kind, opener, temp, tasks, wm_close>>

\* A posted WM_CLOSE arrives, CEF's after what CEF's thread had posted before it.
CloseArrives(w, from) ==
  /\ <<w, from>> \in wm_close
  /\ from = "CEF" => ~Posted("created", w) /\ ~Posted("closing", w)
  /\ wm_close' = wm_close \ {<<w, from>>}
  /\ \/ hwnd[w] = "open" /\ OnClose(w)
     \/ hwnd[w] # "open" /\ UNCHANGED <<browser, asked, windowVars>>
  /\ UNCHANGED <<kind, opener, temp, tasks>>

\* The TempWindow has no window procedure of its own: a WM_CLOSE destroys it, with the
\* browsers that are still in it.
TempWindowCloses(w) ==
  /\ <<w, "temp">> \in wm_close
  /\ ~Posted("created", w) /\ ~Posted("closing", w)
  /\ wm_close' = wm_close \ {<<w, "temp">>}
  /\ temp' = "destroyed"
  /\ browser' = [v \in Windows |-> IF InTempWindow(v) THEN "dying" ELSE browser[v]]
  /\ UNCHANGED <<kind, opener, root_windows_, hwnd, view, tasks, asked, quit>>

\* OnExit, CloseAllWindows(false): a window whose native window does not exist yet is
\* passed over.
OnExit ==
  /\ \E w \in root_windows_ : hwnd[w] = "open"
  /\ wm_close' = wm_close \cup {<<w, "manager">> : w \in {v \in root_windows_ : hwnd[v] = "open"}}
  /\ UNCHANGED <<kind, opener, root_windows_, hwnd, view, browser, temp, tasks, asked, quit>>
-----------------------------------------------------------------------------
(* Windows that are asked for by the browser of window o. *)

\* What CreateRootWindow posts from another thread than the main one.
CreateTasks(w) == <<<<"create", w>>, <<"registered", w>>>>

Named(k, o, w) ==
  /\ kind[w] = "unused" /\ browser[o] = "open"
  /\ kind' = [kind EXCEPT ![w] = k]
  /\ opener' = [opener EXCEPT ![w] = o]
  /\ UNCHANGED temp

\* CreateRootWindow, for a link that opens a new window (UI thread) or from the menu
\* (main thread).
CreateRootWindow(o, w, here) ==
  /\ here => view[o] = "open" /\ hwnd[o] = "open"
  /\ ~here => MultiThreaded
  /\ Named("window", o, w)
  /\ \/ /\ here
        /\ CreateNativeWindow(w)
        /\ root_windows_' = root_windows_ \cup {w}
        /\ UNCHANGED tasks
     \/ /\ ~here
        /\ tasks' = tasks \o CreateTasks(w)
        /\ UNCHANGED <<root_windows_, hwnd, browser>>
  /\ UNCHANGED <<view, wm_close, asked, quit>>

\* OnBeforePopup, on the IO thread: CreateRootWindowAsPopup.
OnBeforePopup(o, w) ==
  /\ Named("popup", o, w)
  /\ browser' = [browser EXCEPT ![w] = "requested"]
  /\ OnMainThread("registered", w, FALSE)
  /\ UNCHANGED <<wm_close, asked>>

HasDevTools(o) ==
  \E v \in Windows : kind[v] = "tools" /\ opener[v] = o /\ (browser[v] = "requested" \/ Running(v))

\* ClientHandler::ShowDevTools: the root window is created whether or not CEF will only
\* focus the tools' browser that exists.
ShowDevTools(o, w) ==
  /\ Named("tools", o, w)
  /\ browser' = [browser EXCEPT ![w] = IF HasDevTools(o) THEN "never" ELSE "requested"]
  /\ FromUiThread("registered", w)
  /\ UNCHANGED <<wm_close, asked>>
-----------------------------------------------------------------------------
(* CEF, on its UI thread. *)

\* OnAfterCreated. A browser that is to be a child of a destroyed window is not created:
\* its window was closed first, or the TempWindow is gone. A popup's browser is created by
\* a task of the UI thread, which follows what OnBeforePopup has posted to that thread.
BrowserCreated(w) ==
  /\ browser[w] = "requested"
  /\ ~MultiThreaded => ~Posted("registered", w)
  /\ \/ /\ ~ParentGone(w)
        /\ browser' = [browser EXCEPT ![w] = "open"]
        /\ FromUiThread("created", w)
     \/ /\ ParentGone(w)
        /\ browser' = [browser EXCEPT ![w] = "never"]
        /\ UNCHANGED <<windowVars, tasks>>
  /\ UNCHANGED <<kind, opener, temp, wm_close, asked>>

\* A popup whose opener has ended is dropped.
PopupDropped(w) ==
  /\ kind[w] = "popup" /\ browser[w] = "requested" /\ browser[opener[w]] = "ended"
  /\ browser' = [browser EXCEPT ![w] = "never"]
  /\ UNCHANGED <<kind, opener, root_windows_, hwnd, view, temp, tasks, wm_close, asked, quit>>

\* DoClose: the page lets its browser close, asked or on its own (window.close()), and CEF
\* posts WM_CLOSE to the top-level window the browser is in.
DoClose(w) ==
  /\ browser[w] = "open"
  /\ browser' = [browser EXCEPT ![w] = "closing"]
  /\ asked' = asked \ {w}
  /\ wm_close' = wm_close \cup {<<w, IF InTempWindow(w) THEN "temp" ELSE "CEF">>}
  /\ FromUiThread("closing", w)
  /\ UNCHANGED <<kind, opener, temp>>

\* The user stays on the page.
PageStays(w) ==
  /\ w \in asked
  /\ asked' = asked \ {w}
  /\ UNCHANGED <<kind, opener, root_windows_, hwnd, view, browser, temp, tasks, wm_close, quit>>

\* OnBeforeClose of a browser whose window is gone.
OnBeforeClose(w) ==
  /\ browser[w] = "dying"
  /\ browser' = [browser EXCEPT ![w] = "ended"]
  /\ FromUiThread("closed", w)
  /\ UNCHANGED <<kind, opener, temp, wm_close, asked>>
-----------------------------------------------------------------------------
\* RunMain has created the first window.
Init ==
  /\ kind = [w \in Windows |-> IF w = First THEN "window" ELSE "unused"]
  /\ opener = [w \in Windows |-> NoWindow]
  /\ root_windows_ = {First}
  /\ hwnd = [w \in Windows |-> IF w = First THEN "open" ELSE "none"]
  /\ view = [w \in Windows |-> "none"]
  /\ browser = [w \in Windows |-> IF w = First THEN "requested" ELSE "none"]
  /\ temp = "open"
  /\ tasks = <<>> /\ wm_close = {} /\ asked = {} /\ quit = FALSE

Next ==
  \/ RunTask \/ OnExit
  \/ \E w \in Windows :
       \/ UserCloses(w) \/ \E from \in {"CEF", "manager"} : CloseArrives(w, from)
       \/ TempWindowCloses(w)
       \/ BrowserCreated(w) \/ PopupDropped(w) \/ DoClose(w) \/ PageStays(w) \/ OnBeforeClose(w)
  \/ \E o, w \in Windows :
       \/ \E here \in BOOLEAN : CreateRootWindow(o, w, here)
       \/ OnBeforePopup(o, w) \/ ShowDevTools(o, w)

Spec == Init /\ [][Next]_vars

\* Both threads run what they have to; nobody has to open or close anything.
FairSpec ==
  /\ Spec
  /\ WF_vars(RunTask)
  /\ \A w \in Windows :
       /\ \A from \in {"CEF", "manager"} : WF_vars(CloseArrives(w, from))
       /\ WF_vars(TempWindowCloses(w))
       /\ WF_vars(BrowserCreated(w)) /\ WF_vars(OnBeforeClose(w))
-----------------------------------------------------------------------------
\* The closures that are posted: where the UI thread is the main thread, only the
\* registration of a window, from the IO thread.
Closures ==
  IF MultiThreaded THEN {"create", "registered", "created", "closing", "closed"} ELSE {"registered"}

\* Every variable has its type; in particular the main thread posts nothing to itself.
TypeOK ==
  /\ kind \in [Windows -> {"unused", "window", "popup", "tools"}]
  /\ opener \in [Windows -> Windows \cup {NoWindow}]
  /\ root_windows_ \subseteq Windows
  /\ hwnd \in [Windows -> {"none", "open", "destroyed"}]
  /\ view \in [Windows -> {"none", "open", "closing", "destroyed"}]
  /\ browser \in [Windows -> {"none", "requested", "open", "closing", "dying", "ended", "never"}]
  /\ tasks \in Seq(Closures \X Windows)
  /\ temp \in {"open", "destroyed"}
  /\ wm_close \subseteq Windows \X {"CEF", "temp", "manager"}
  /\ asked \subseteq Windows /\ quit \in BOOLEAN

\* A window that is, or is about to be.
Present(w) == kind[w] # "unused" /\ ~(hwnd[w] = "destroyed" /\ view[w] = "destroyed")

\* The manager holds exactly the root windows whose native window or browser has not ended,
\* but for those whose registration is still on its way: none is released early (its
\* destructor expects both to be gone) or notified before it was registered
\* (OnRootWindowDestroyed expects to find it).
RegisteredUntilDone ==
  \A w \in Windows : w \in root_windows_ <=> Present(w) /\ ~Posted("registered", w)

\* Whatever keeps the loop running has an end to come, unless its browser was never made:
\* the browser exists, is still to come, or the news of its end is on its way. A root window
\* is not left in the manager by the order in which the two threads end it.
NothingLeftBehind ==
  \A w \in root_windows_ :
    \/ browser[w] \in {"requested", "open", "closing", "dying", "never"}
    \/ Posted("create", w) \/ Posted("closed", w)

\* The page of an open browser is asked before its native window is destroyed, however
\* often the window is closed and the user stays, but for one case: the main thread closes
\* the window while the news of the browser is on its way to it (OnClose does not see the
\* browser then). Where the two threads are one that news is never on its way.
PageAskedFirst ==
  [][\A w \in Windows :
       browser[w] = "open" /\ browser'[w] = "dying" => Posted("created", w)]_vars

\* A root window that has begun to end, by its native window or by its browser, ends, and
\* is released, unless its browser was never made.
BegunEnds ==
  \A w \in Windows :
    (browser[w] \in {"closing", "dying"} \/ hwnd[w] = "destroyed")
      ~> (w \notin root_windows_ \/ browser[w] = "never")

\* The main loop is told to quit when the last window has gone, and no window, not even
\* one on its way, is left behind or comes later: where the main thread is not the UI
\* thread, which hears of a popup before it hears of its opener's end.
Lifetime == INSTANCE AppLifetime WITH
  present <- {w \in Windows : Present(w)}, over <- quit
ImplementsLifetime == Lifetime!Spec
=============================================================================
