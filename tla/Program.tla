------------------------------ MODULE Program -------------------------------
(***************************************************************************)
(* The life of the process (src/source/src/main.cpp): wWinMain and its     *)
(* mutex, the members of main_window in the order they are constructed     *)
(* and destroyed, the threads some of them own, which use other members,   *)
(* and the two windows (Window).                                           *)
(*                                                                         *)
(* A member is its place in the order of declaration.  Whether a reset is  *)
(* due depends on the titles of another program's window, and is left      *)
(* open.  The use of a member outside its life ends the behaviour, save    *)
(* the read of kps::crt_type, a number with no destructor, by the timer of *)
(* autoplay_manager.                                                       *)
(***************************************************************************)
EXTENDS Window, Integers

CONSTANTS
  MaxOpens  \* bound: times the key window is opened

ASSUME ProgramAssumption == Windows = {"main", "key"} /\ MaxOpens \in Nat

\* _tt, tt_auto_reset, k_manager, kps, cfg, key_wnd
Paint == 1
Reset == 2
Manager == 3
Kps == 4
Cfg == 5
KeyWnd == 6

\* The threads, by the member that owns and joins each: the timers of _tt,
\* tt_auto_reset and autoplay_manager, and the monitor's thread.
Threads == {Paint, Reset, Manager, Kps}

VARIABLES
  stage,    \* the main thread
  built,    \* members whose construction is complete and whose destruction is not
  leaving,  \* the destructor of the last of them has begun
  thread,   \* each thread
  exit,     \* bs_exit, or the monitor's flag
  quit,     \* WM_QUIT has been posted
  enabled,  \* the main window takes input
  handles,  \* the processes that have a handle of the mutex
  second,   \* another process of the program
  opens,    \* history: times the key window was opened
  misused   \* history: threads with the members they used outside their lives

members == <<built, leaving, thread, exit>>
processes == <<handles, second>>
vars == <<stage, members, quit, enabled, processes, opens, misused, windowing>>

Stages ==
  {"off", "building", "creating", "boxed", "loop", "opening", "tearing", "closing", "gone", "crashed"}
Ats == {"none", "resting", "testing", "sent", "total", "max", "graph", "calling", "ended"}

TypeOK ==
  /\ WindowTypeOK
  /\ stage \in Stages
  /\ built \in 0 .. KeyWnd
  /\ leaving \in BOOLEAN
  /\ thread \in [Threads -> Ats]
  /\ exit \in [Threads -> BOOLEAN]
  /\ quit \in BOOLEAN
  /\ enabled \in BOOLEAN
  /\ handles \subseteq {"first", "second"}
  /\ second \in {"none", "checking", "running"}
  /\ opens \in 0 .. MaxOpens
  /\ misused \subseteq Threads \X (Paint .. KeyWnd)

Live(m) == m < built \/ (m = built /\ ~leaving)

Init ==
  /\ WindowInit
  /\ stage = "off"
  /\ built = 0 /\ leaving = FALSE
  /\ thread = [t \in Threads |-> "none"]
  /\ exit = [t \in Threads |-> FALSE]
  /\ quit = FALSE
  /\ enabled = TRUE
  /\ handles = {} /\ second = "none"
  /\ opens = 0
  /\ misused = {}

-----------------------------------------------------------------------------
\* wWinMain: the mutex, which cannot be made, or is there already, or is made now.
Exists_Never == FALSE
Exists == handles # {}

WinMain ==
  /\ stage = "off"
  /\ \/ stage' = "gone" /\ UNCHANGED handles
     \/ ~Exists /\ stage' = "building" /\ handles' = handles \union {"first"}
  /\ UNCHANGED <<members, quit, enabled, second, opens, misused, windowing>>

\* external: the program is started once more, at any time.  A start that cannot make
\* the mutex changes nothing.
SecondStarts ==
  /\ second = "none"
  /\ handles' = handles \union {"second"}
  /\ second' = IF Exists THEN "checking" ELSE "running"
  /\ UNCHANGED <<stage, members, quit, enabled, opens, misused, windowing>>

SecondEnds ==
  /\ second # "none"
  /\ handles' = handles \ {"second"}
  /\ second' = "none"
  /\ UNCHANGED <<stage, members, quit, enabled, opens, misused, windowing>>

\* The members are constructed in the order of their declarations; a timer or a
\* monitor starts its thread.
Complete_PastEnd(n) == n > KeyWnd
Complete(n) == n = KeyWnd

Build ==
  /\ stage = "building"
  /\ built' = built + 1
  /\ thread' = [t \in Threads |-> IF t = built + 1 THEN "resting" ELSE thread[t]]
  /\ stage' = IF Complete(built + 1) THEN "creating" ELSE stage
  /\ UNCHANGED <<leaving, exit, quit, enabled, processes, opens, misused, windowing>>

-----------------------------------------------------------------------------
\* wnd.create().  OnCreate may show a message box, which handles messages, or fail.
Crash ==
  /\ stage' = "crashed"
  /\ handles' = handles \ {"first"}

CreateMain ==
  /\ stage = "creating"
  /\ Enter("main")
  /\ UNCHANGED <<stage, members, quit, enabled, processes, opens, misused>>

\* CreateWindowExW fails: message_loop starts all the same.
RefuseMain ==
  /\ stage = "creating"
  /\ Refused("main")
  /\ stage' = "loop"
  /\ UNCHANGED <<members, quit, enabled, processes, opens, misused>>

BindMain ==
  /\ stage = "creating"
  /\ FirstMessage("main")
  /\ UNCHANGED <<stage, members, quit, enabled, processes, opens, misused>>

MessageBox ==
  /\ Creating("main", "bound")
  /\ \/ stage = "creating" /\ stage' = "boxed"
     \/ stage = "boxed" /\ stage' = "creating"
  /\ UNCHANGED <<members, quit, enabled, processes, opens, misused, windowing>>

CreatedMain ==
  /\ stage = "creating"
  /\ Created("main")
  /\ stage' = "loop"
  /\ UNCHANGED <<members, quit, enabled, processes, opens, misused>>

\* OnCreate returns FALSE; OnDestroy posts WM_QUIT.
DeclineMain ==
  /\ stage = "creating"
  /\ Declined("main")
  /\ quit' = TRUE
  /\ stage' = "loop"
  /\ UNCHANGED <<members, enabled, processes, opens, misused>>

\* register_class or OnCreate throws, and nothing catches it.
Throw ==
  /\ stage \in {"creating", "opening"} /\ creating # NotCreating
  /\ Crash
  /\ UNCHANGED <<members, quit, enabled, second, opens, misused, windowing>>

-----------------------------------------------------------------------------
\* message_loop.  modify_keys creates the key window, which is owned by the main window
\* and disables it.
OpenKeys ==
  /\ stage = "loop" /\ hwnd["main"] # "null" /\ enabled /\ opens < MaxOpens
  /\ Enter("key")
  /\ stage' = "opening"
  /\ opens' = opens + 1
  /\ UNCHANGED <<members, quit, enabled, processes, misused>>

RefuseKeys ==
  /\ stage = "opening"
  /\ Refused("key")
  /\ stage' = "loop"
  /\ UNCHANGED <<members, quit, enabled, processes, opens, misused>>

BindKeys ==
  /\ stage = "opening"
  /\ FirstMessage("key")
  /\ UNCHANGED <<stage, members, quit, enabled, processes, opens, misused>>

CreatedKeys ==
  /\ stage = "opening"
  /\ Created("key")
  /\ enabled' = FALSE
  /\ stage' = "loop"
  /\ UNCHANGED <<members, quit, processes, opens, misused>>

\* The key window's OnDestroy enables the main window again.
EnabledAfter_Not(ws) == enabled
EnabledAfter(ws) == enabled \/ "key" \in ws

CloseKeys ==
  /\ stage = "loop" /\ hwnd["key"] # "null"
  /\ Gone({"key"})
  /\ enabled' = EnabledAfter({"key"})
  /\ UNCHANGED <<stage, members, quit, processes, opens, misused>>

\* WM_CLOSE, from the menu or from outside: the window and the windows it owns are
\* destroyed, and OnDestroy posts WM_QUIT.
Closed_NotMain == {"key"}
Closed == {"main", "key"}

Close ==
  /\ stage = "loop" /\ hwnd["main"] # "null" /\ ~quit
  /\ Gone(Closed)
  /\ enabled' = EnabledAfter({w \in Closed : hwnd[w] # "null"})
  /\ quit' = TRUE
  /\ UNCHANGED <<stage, members, processes, opens, misused>>

LoopEnds ==
  /\ stage = "loop" /\ quit
  /\ stage' = "tearing"
  /\ UNCHANGED <<members, quit, enabled, processes, opens, misused, windowing>>

\* A window whose thread is handling messages is repainted (OnPaint).
OnPaint ==
  /\ stage \in {"loop", "boxed"} /\ thread[Paint] = "sent" /\ hwnd["main"] # "null"
  /\ thread' = [thread EXCEPT ![Paint] = "resting"]
  /\ UNCHANGED <<stage, built, leaving, exit, quit, enabled, processes, opens, misused, windowing>>

-----------------------------------------------------------------------------
\* The members are destroyed in the reverse order: a destructor tells its thread to
\* end and joins it.
Told_Not(m) == exit
Told(m) == [t \in Threads |-> exit[t] \/ t = m]

TearBegin ==
  /\ stage = "tearing" /\ built > 0 /\ ~leaving
  /\ leaving' = TRUE
  /\ exit' = Told(built)
  /\ UNCHANGED <<stage, built, thread, quit, enabled, processes, opens, misused, windowing>>

Joined_AtOnce(m) == TRUE
Joined(m) == m \in Threads => thread[m] = "ended"

TearEnd ==
  /\ stage = "tearing" /\ leaving /\ Joined(built)
  /\ leaving' = FALSE
  /\ built' = built - 1
  /\ UNCHANGED <<stage, thread, exit, quit, enabled, processes, opens, misused, windowing>>

\* CloseHandle(hMutex), and the process ends.
Torn ==
  /\ stage = "tearing" /\ built = 0
  /\ stage' = "closing"
  /\ UNCHANGED <<members, quit, enabled, processes, opens, misused, windowing>>

CloseMutex ==
  /\ stage = "closing"
  /\ stage' = "gone"
  /\ handles' = handles \ {"first"}
  /\ UNCHANGED <<members, quit, enabled, second, opens, misused, windowing>>

-----------------------------------------------------------------------------
Running == stage \notin {"off", "gone", "crashed"}

At(t, from, to) ==
  /\ Running /\ thread[t] = from
  /\ thread' = [thread EXCEPT ![t] = to]
  /\ UNCHANGED <<built, leaving, exit, quit, enabled, second, opens, windowing>>

\* try_acquire_for gets bs_exit, or a monitor sees its flag: the thread ends.
ThreadEnds(t) ==
  /\ exit[t]
  /\ At(t, "resting", "ended")
  /\ UNCHANGED <<stage, handles, misused>>

\* _tt: if the window is there, UpdateWindow makes the main thread repaint it, which
\* it waits for.
TestWindow ==
  /\ ~exit[Paint]
  /\ At(Paint, "resting", IF hwnd["main"] # "null" THEN "testing" ELSE "resting")
  /\ UNCHANGED <<stage, handles, misused>>

UpdateWindow ==
  /\ At(Paint, "testing", IF hwnd["main"] # "null" THEN "sent" ELSE "resting")
  /\ UNCHANGED <<stage, handles, misused>>

UpdateFails ==
  /\ hwnd["main"] = "null"
  /\ At(Paint, "sent", "resting")
  /\ UNCHANGED <<stage, handles, misused>>

\* tt_auto_reset: the settings are read, and what is to be reset is reset.
Use(t, ms) ==
  /\ misused' = misused \union {<<t, m>> : m \in {n \in ms : ~Live(n)}}
  /\ IF \A m \in ms : Live(m) THEN UNCHANGED <<stage, handles>> ELSE Crash

ReadSettings ==
  /\ ~exit[Reset]
  /\ \E to \in {"resting", "total"} : At(Reset, "resting", to)
  /\ Use(Reset, {Cfg})

ClearTotal == At(Reset, "total", "max") /\ \E ms \in {{Cfg}, {Cfg, Manager}} : Use(Reset, ms)
ClearMax == At(Reset, "max", "graph") /\ \E ms \in {{Cfg}, {Cfg, Manager}} : Use(Reset, ms)
ClearGraph == At(Reset, "graph", "resting") /\ \E ms \in {{Cfg}, {Cfg, Kps}} : Use(Reset, ms)

\* autoplay_manager: get_status reads kps::crt_type, whose value matters to nobody
\* but keys_manager.
GetStatus ==
  /\ ~exit[Manager]
  /\ At(Manager, "resting", "resting")
  /\ misused' = IF Live(Kps) THEN misused ELSE misused \union {<<Manager, Kps>>}
  /\ UNCHANGED <<stage, handles>>

\* A monitor reports a key to keys_manager.
Report == ~exit[Kps] /\ At(Kps, "resting", "calling") /\ UNCHANGED <<stage, handles, misused>>
UpdateOnKeyDown == At(Kps, "calling", "resting") /\ Use(Kps, {Manager})

\* The rounds the threads begin, and what ends a round or a thread.
Begins(t) ==
  \/ t = Paint /\ TestWindow
  \/ t = Reset /\ ReadSettings
  \/ t = Manager /\ GetStatus
  \/ t = Kps /\ Report
Finishes(t) ==
  \/ ThreadEnds(t)
  \/ t = Paint /\ (UpdateWindow \/ UpdateFails)
  \/ t = Reset /\ (ClearTotal \/ ClearMax \/ ClearGraph)
  \/ t = Kps /\ UpdateOnKeyDown

Main ==
  \/ WinMain \/ Build
  \/ CreateMain \/ RefuseMain \/ BindMain \/ MessageBox \/ CreatedMain \/ DeclineMain \/ Throw
  \/ OpenKeys \/ RefuseKeys \/ BindKeys \/ CreatedKeys \/ CloseKeys \/ Close
  \/ OnPaint \/ LoopEnds
  \/ TearBegin \/ TearEnd \/ Torn \/ CloseMutex

Next == Main \/ (\E t \in Threads : Begins(t) \/ Finishes(t)) \/ SecondStarts \/ SecondEnds

Spec == Init /\ [][Next]_vars

\* A thread ends the round it is in, and ends when it is told to; when it begins a
\* round is left to its clock.  The main thread leaves the loop and carries through
\* the destructors.
Fairness ==
  /\ \A t \in Threads : WF_vars(Finishes(t))
  /\ WF_vars(LoopEnds \/ TearBegin \/ TearEnd \/ Torn \/ CloseMutex)
FairSpec == Spec /\ Fairness
-----------------------------------------------------------------------------
(* Properties *)

\* window.hpp line 24 demands that the object outlive its window: no message can
\* reach an object that is not there, and every window is its object's.
ObjectsOutlive ==
  /\ \A h \in Handles : userdata[h] # "gone" =>
       userdata[h] \in Windows /\ hwnd[userdata[h]] = h
  /\ \A w \in Windows : hwnd[w] # "null" =>
       /\ userdata[hwnd[w]] = w
       /\ IF w = "main" THEN stage # "closing" ELSE Live(KeyWnd)

\* The semaphore is taken only while CreateWindowExW has not sent a message yet, so
\* that create never waits for it, although the semaphore is released twice when a
\* window could not be created.
CreateNeverWaits == semaphore_create = 0 <=> creating.at = "entered"

\* The main window takes input unless the key window is there to be closed.
NeverLeftDisabled == ~enabled => hwnd["key"] # "null"

\* The three facts about windows, up to an exception or a use that ends the process.
WindowsInOrder ==
  stage \in Stages \ {"gone", "crashed"} => ObjectsOutlive /\ CreateNeverWaits /\ NeverLeftDisabled

\* Only the two timers that read members declared after their own can use a member
\* that is not there (main.cpp line 726, autoplay_manager.hpp line 25); the monitor's
\* thread never finds keys_manager gone.
UsesExplained == misused \subseteq ({Reset} \X {Manager, Kps, Cfg}) \union {<<Manager, Kps>>}

\* Two processes never run at a time: the settings are saved before another may
\* start and read them.
OneInstance == second = "running" => ~Running

\* Closing ends the process: the destructors wait for every thread, and none of them
\* waits for the main thread, which handles no messages any more.  (No thread has to
\* begin a round, so the timers' wrong uses are not what ends it.)
CloseEnds == quit ~> ~Running
=============================================================================
