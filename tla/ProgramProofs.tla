---------------------------- MODULE ProgramProofs ---------------------------
(***************************************************************************)
(* Proofs about Program, for any handles and any number of key windows:    *)
(* the types, the order among objects and windows, what the threads can    *)
(* use, and that one process runs at a time.  Painting, for any buttons    *)
(* and any bound on the clock: only an event that overtakes a paint makes  *)
(* it throw.  And Placement, for every monitor and window.                 *)
(*                                                                         *)
(* The inductive invariant says for each stage of the main thread which    *)
(* members and which windows there are (StageOK), that a window and its    *)
(* object name each other (Bound), that the thread of a member that is     *)
(* gone has ended (ThreadsOwned), and what the mutex shows (MutexOK).      *)
(***************************************************************************)
EXTENDS Program, Painting, Placement, TLAPS

NoWindow(w) == hwnd[w] = "null"

Bound ==
  /\ \A h \in Handles : userdata[h] # "gone" =>
       userdata[h] \in Windows /\ hwnd[userdata[h]] = h
  /\ \A w \in Windows : hwnd[w] # "null" => userdata[hwnd[w]] = w

\* The object being created, and what storage and the semaphore show of it.
CreatingOK ==
  /\ creating.at = "none" <=> creating.window = "none"
  /\ creating.at = "entered" => storage = creating.window /\ NoWindow(creating.window)
  /\ creating.at = "bound" => ~NoWindow(creating.window)
  /\ semaphore_create = 0 <=> creating.at = "entered"

\* What there is at each stage of the main thread.
StageOK ==
  /\ stage \in {"off", "building", "tearing", "closing"} =>
       creating.at = "none" /\ NoWindow("main") /\ NoWindow("key")
  /\ stage \in {"off", "building"} => built < KeyWnd /\ ~leaving
  /\ leaving => built > 0
  /\ stage \in {"creating", "boxed"} =>
       NoWindow("key") /\ creating.window # "key" /\ (creating.at = "none" => NoWindow("main"))
  /\ stage \in {"creating", "boxed", "loop", "opening"} => built = KeyWnd /\ ~leaving
  /\ stage = "boxed" => creating.at = "bound"
  /\ stage = "loop" => creating.at = "none" /\ (quit => NoWindow("main") /\ NoWindow("key"))
  /\ stage = "opening" => creating.window = "key" /\ ~quit
  /\ stage = "opening" => enabled
  /\ stage \in {"off", "building", "creating", "boxed"} => ~quit /\ enabled
  /\ ~enabled => ~NoWindow("key")

\* A thread that is at work has its member.
ThreadsOwned == \A t \in Threads : thread[t] \notin {"none", "ended"} => t <= built

\* What the mutex shows of both processes.
MutexOK ==
  /\ Running => "first" \in handles
  /\ second = "running" => "second" \in handles /\ ~Running
  /\ second = "checking" => "second" \in handles

Ongoing == stage \notin {"gone", "crashed"}

IInv ==
  /\ TypeOK
  /\ UsesExplained
  /\ MutexOK
  /\ Ongoing => Bound /\ CreatingOK /\ StageOK /\ ThreadsOwned
-----------------------------------------------------------------------------
\* The names of members, and the two windows, are the same in every step.
USE ProgramAssumption DEF Paint, Reset, Manager, Kps, Cfg, KeyWnd, Threads

\* The invariant holds when the process starts.
LEMMA InitIInv == Init => IInv
<1> SUFFICES ASSUME Init PROVE IInv
  OBVIOUS
<1>1. WindowTypeOK
  BY DEF Init, WindowInit, WindowTypeOK, NotCreating, Points
<1>2. stage \in Stages /\ thread \in [Threads -> Ats] /\ exit \in [Threads -> BOOLEAN]
  BY DEF Init, Stages, Ats
<1>3. TypeOK
  <2>1. built \in 0 .. KeyWnd /\ opens \in 0 .. MaxOpens
    BY DEF Init
  <2>2. leaving \in BOOLEAN /\ quit \in BOOLEAN /\ enabled \in BOOLEAN
    BY DEF Init
  <2>3. handles = {} /\ second = "none" /\ misused = {}
    BY DEF Init
  <2> QED BY <1>1, <1>2, <2>1, <2>2, <2>3 DEF TypeOK
<1>4. Bound /\ CreatingOK /\ StageOK
  BY DEF Init, WindowInit, NotCreating, Bound, CreatingOK, StageOK, NoWindow
<1> QED BY <1>3, <1>4 DEF Init, IInv, UsesExplained, MutexOK, ThreadsOwned, Running

\* What a step that leaves the windows alone preserves of them.
LEMMA WindowsKept ==
  IInv /\ UNCHANGED windowing => WindowTypeOK' /\ (Ongoing => Bound' /\ CreatingOK')
  BY DEF IInv, TypeOK, WindowTypeOK, Bound, CreatingOK, NoWindow, windowing

-----------------------------------------------------------------------------
\* Steps of the processes and of the main thread that leave the windows alone.
LEMMA WinMainStep == IInv /\ WinMain => IInv'
<1> SUFFICES ASSUME IInv, WinMain PROVE IInv'
  OBVIOUS
<1> USE DEF IInv, WinMain, Exists
<1>1. WindowTypeOK' /\ (Ongoing' => Bound' /\ CreatingOK')
  BY WindowsKept DEF Ongoing
<1>2. TypeOK'
  BY <1>1 DEF TypeOK, Stages, Ats, members, processes, Ongoing, StageOK
<1>3. UsesExplained' /\ MutexOK'
  BY DEF UsesExplained, MutexOK, Running, processes
<1>4. Ongoing' => StageOK' /\ ThreadsOwned'
  BY DEF StageOK, ThreadsOwned, NoWindow, Ongoing, windowing, members, Creating, TypeOK
<1> QED BY <1>1, <1>2, <1>3, <1>4

LEMMA SecondStartsStep == IInv /\ SecondStarts => IInv'
<1> SUFFICES ASSUME IInv, SecondStarts PROVE IInv'
  OBVIOUS
<1> USE DEF IInv, SecondStarts, Exists
<1>1. WindowTypeOK' /\ (Ongoing' => Bound' /\ CreatingOK')
  BY WindowsKept DEF Ongoing
<1>2. TypeOK'
  BY <1>1 DEF TypeOK, Stages, Ats, members, processes, Ongoing, StageOK
<1>3. UsesExplained' /\ MutexOK'
  BY DEF UsesExplained, MutexOK, Running, processes
<1>4. Ongoing' => StageOK' /\ ThreadsOwned'
  BY DEF StageOK, ThreadsOwned, NoWindow, Ongoing, windowing, members, Creating, TypeOK
<1> QED BY <1>1, <1>2, <1>3, <1>4

LEMMA SecondEndsStep == IInv /\ SecondEnds => IInv'
<1> SUFFICES ASSUME IInv, SecondEnds PROVE IInv'
  OBVIOUS
<1> USE DEF IInv, SecondEnds
<1>1. WindowTypeOK' /\ (Ongoing' => Bound' /\ CreatingOK')
  BY WindowsKept DEF Ongoing
<1>2. TypeOK'
  BY <1>1 DEF TypeOK, Stages, Ats, members, processes, Ongoing, StageOK
<1>3. UsesExplained' /\ MutexOK'
  BY DEF UsesExplained, MutexOK, Running, processes
<1>4. Ongoing' => StageOK' /\ ThreadsOwned'
  BY DEF StageOK, ThreadsOwned, NoWindow, Ongoing, windowing, members, Creating, TypeOK
<1> QED BY <1>1, <1>2, <1>3, <1>4

LEMMA BuildStep == IInv /\ Build => IInv'
<1> SUFFICES ASSUME IInv, Build PROVE IInv'
  OBVIOUS
<1> USE DEF IInv, Build, Complete
<1>1. WindowTypeOK' /\ (Ongoing' => Bound' /\ CreatingOK')
  BY WindowsKept DEF Ongoing
<1>2. TypeOK'
  BY <1>1 DEF TypeOK, Stages, Ats, members, processes, Ongoing, StageOK
<1>3. UsesExplained' /\ MutexOK'
  BY DEF UsesExplained, MutexOK, Running, processes
<1>4. Ongoing' => StageOK' /\ ThreadsOwned'
  BY <1>1 DEF CreatingOK, StageOK, ThreadsOwned, NoWindow, Ongoing, windowing, members, Creating, TypeOK
<1> QED BY <1>1, <1>2, <1>3, <1>4

LEMMA MessageBoxStep == IInv /\ MessageBox => IInv'
<1> SUFFICES ASSUME IInv, MessageBox PROVE IInv'
  OBVIOUS
<1> USE DEF IInv, MessageBox
<1>1. WindowTypeOK' /\ (Ongoing' => Bound' /\ CreatingOK')
  BY WindowsKept DEF Ongoing
<1>2. TypeOK'
  BY <1>1 DEF TypeOK, Stages, Ats, members, processes, Ongoing, StageOK
<1>3. UsesExplained' /\ MutexOK'
  BY DEF UsesExplained, MutexOK, Running, processes
<1>4. Ongoing' => StageOK' /\ ThreadsOwned'
  BY DEF StageOK, ThreadsOwned, NoWindow, Ongoing, windowing, members, Creating, TypeOK
<1> QED BY <1>1, <1>2, <1>3, <1>4

LEMMA ThrowStep == IInv /\ Throw => IInv'
<1> SUFFICES ASSUME IInv, Throw PROVE IInv'
  OBVIOUS
<1> USE DEF IInv, Throw, Crash
<1>1. WindowTypeOK' /\ (Ongoing' => Bound' /\ CreatingOK')
  BY WindowsKept DEF Ongoing
<1>2. TypeOK'
  BY <1>1 DEF TypeOK, Stages, Ats, members, processes, Ongoing, StageOK
<1>3. UsesExplained' /\ MutexOK'
  BY DEF UsesExplained, MutexOK, Running, processes
<1>4. Ongoing' => StageOK' /\ ThreadsOwned'
  BY DEF StageOK, ThreadsOwned, NoWindow, Ongoing, windowing, members, Creating, TypeOK
<1> QED BY <1>1, <1>2, <1>3, <1>4

LEMMA LoopEndsStep == IInv /\ LoopEnds => IInv'
<1> SUFFICES ASSUME IInv, LoopEnds PROVE IInv'
  OBVIOUS
<1> USE DEF IInv, LoopEnds
<1>1. WindowTypeOK' /\ (Ongoing' => Bound' /\ CreatingOK')
  BY WindowsKept DEF Ongoing
<1>2. TypeOK'
  BY <1>1 DEF TypeOK, Stages, Ats, members, processes, Ongoing, StageOK
<1>3. UsesExplained' /\ MutexOK'
  BY DEF UsesExplained, MutexOK, Running, processes
<1>4. Ongoing' => StageOK' /\ ThreadsOwned'
  BY DEF StageOK, ThreadsOwned, NoWindow, Ongoing, windowing, members, Creating, TypeOK
<1> QED BY <1>1, <1>2, <1>3, <1>4

LEMMA OnPaintStep == IInv /\ OnPaint => IInv'
<1> SUFFICES ASSUME IInv, OnPaint PROVE IInv'
  OBVIOUS
<1> USE DEF IInv, OnPaint
<1>1. WindowTypeOK' /\ (Ongoing' => Bound' /\ CreatingOK')
  BY WindowsKept DEF Ongoing
<1>2. TypeOK'
  BY <1>1 DEF TypeOK, Stages, Ats, members, processes, Ongoing, StageOK
<1>3. UsesExplained' /\ MutexOK'
  BY DEF UsesExplained, MutexOK, Running, processes
<1>4. Ongoing' => StageOK' /\ ThreadsOwned'
  BY DEF StageOK, ThreadsOwned, NoWindow, Ongoing, windowing, members, Creating, TypeOK
<1> QED BY <1>1, <1>2, <1>3, <1>4

LEMMA TearBeginStep == IInv /\ TearBegin => IInv'
<1> SUFFICES ASSUME IInv, TearBegin PROVE IInv'
  OBVIOUS
<1> USE DEF IInv, TearBegin, Told
<1>1. WindowTypeOK' /\ (Ongoing' => Bound' /\ CreatingOK')
  BY WindowsKept DEF Ongoing
<1>2. TypeOK'
  BY <1>1 DEF TypeOK, Stages, Ats, members, processes, Ongoing, StageOK
<1>3. UsesExplained' /\ MutexOK'
  BY DEF UsesExplained, MutexOK, Running, processes
<1>4. Ongoing' => StageOK' /\ ThreadsOwned'
  BY DEF StageOK, ThreadsOwned, NoWindow, Ongoing, windowing, members, Creating, TypeOK
<1> QED BY <1>1, <1>2, <1>3, <1>4

LEMMA TearEndStep == IInv /\ TearEnd => IInv'
<1> SUFFICES ASSUME IInv, TearEnd PROVE IInv'
  OBVIOUS
<1> USE DEF IInv, TearEnd, Joined
<1>1. WindowTypeOK' /\ (Ongoing' => Bound' /\ CreatingOK')
  BY WindowsKept DEF Ongoing
<1>2. TypeOK'
  <2>1. built \in 1 .. KeyWnd
    BY DEF TypeOK, StageOK, Ongoing
  <2>2. built' \in 0 .. KeyWnd
    BY <2>1
  <2> QED BY <1>1, <2>2 DEF TypeOK, members, processes
<1>3. UsesExplained' /\ MutexOK'
  BY DEF UsesExplained, MutexOK, Running, processes
<1>4. Ongoing' => StageOK' /\ ThreadsOwned'
  BY DEF StageOK, ThreadsOwned, NoWindow, Ongoing, windowing, members, Creating, TypeOK
<1> QED BY <1>1, <1>2, <1>3, <1>4

LEMMA TornStep == IInv /\ Torn => IInv'
<1> SUFFICES ASSUME IInv, Torn PROVE IInv'
  OBVIOUS
<1> USE DEF IInv, Torn
<1>1. WindowTypeOK' /\ (Ongoing' => Bound' /\ CreatingOK')
  BY WindowsKept DEF Ongoing
<1>2. TypeOK'
  BY <1>1 DEF TypeOK, Stages, Ats, members, processes, Ongoing, StageOK
<1>3. UsesExplained' /\ MutexOK'
  BY DEF UsesExplained, MutexOK, Running, processes
<1>4. Ongoing' => StageOK' /\ ThreadsOwned'
  BY DEF StageOK, ThreadsOwned, NoWindow, Ongoing, windowing, members, Creating, TypeOK
<1> QED BY <1>1, <1>2, <1>3, <1>4

LEMMA CloseMutexStep == IInv /\ CloseMutex => IInv'
<1> SUFFICES ASSUME IInv, CloseMutex PROVE IInv'
  OBVIOUS
<1> USE DEF IInv, CloseMutex
<1>1. WindowTypeOK' /\ (Ongoing' => Bound' /\ CreatingOK')
  BY WindowsKept DEF Ongoing
<1>2. TypeOK'
  BY <1>1 DEF TypeOK, Stages, Ats, members, processes, Ongoing, StageOK
<1>3. UsesExplained' /\ MutexOK'
  BY DEF UsesExplained, MutexOK, Running, processes
<1>4. Ongoing' => StageOK' /\ ThreadsOwned'
  BY DEF StageOK, ThreadsOwned, NoWindow, Ongoing, windowing, members, Creating, TypeOK
<1> QED BY <1>1, <1>2, <1>3, <1>4

-----------------------------------------------------------------------------
\* Steps of the main thread that create or destroy a window.
LEMMA CreateMainStep == IInv /\ CreateMain => IInv'
<1> SUFFICES ASSUME IInv, CreateMain PROVE IInv'
  OBVIOUS
<1> USE DEF IInv, CreateMain, Enter
<1>1. Ongoing /\ Bound /\ CreatingOK /\ StageOK /\ ThreadsOwned
  BY DEF Ongoing
<1>2. WindowTypeOK'
  BY DEF TypeOK, WindowTypeOK, Points, NotCreating
<1>3. TypeOK'
  BY <1>2 DEF TypeOK, Stages, members, processes
<1>4. UsesExplained' /\ MutexOK'
  BY DEF UsesExplained, MutexOK, Running, processes
<1>5. Bound'
  BY <1>1 DEF Bound, CreatingOK, StageOK, NoWindow, TypeOK, WindowTypeOK, Creating, NotCreating
<1>6. CreatingOK'
  BY <1>1 DEF CreatingOK, StageOK, NoWindow, NotCreating, TypeOK, WindowTypeOK, Creating
<1>7. StageOK' /\ ThreadsOwned'
  BY <1>1 DEF CreatingOK, StageOK, ThreadsOwned, NoWindow, NotCreating, members, Creating, TypeOK,
              WindowTypeOK
<1> QED BY <1>3, <1>4, <1>5, <1>6, <1>7

LEMMA RefuseMainStep == IInv /\ RefuseMain => IInv'
<1> SUFFICES ASSUME IInv, RefuseMain PROVE IInv'
  OBVIOUS
<1> USE DEF IInv, RefuseMain, Refused
<1>1. Ongoing /\ Bound /\ CreatingOK /\ StageOK /\ ThreadsOwned
  BY DEF Ongoing
<1>2. WindowTypeOK'
  BY DEF TypeOK, WindowTypeOK, Points, NotCreating, Creating
<1>3. TypeOK'
  BY <1>2 DEF TypeOK, Stages, members, processes
<1>4. UsesExplained' /\ MutexOK'
  BY DEF UsesExplained, MutexOK, Running, processes
<1>5. Bound'
  BY <1>1 DEF Bound, CreatingOK, StageOK, NoWindow, TypeOK, WindowTypeOK, Creating, NotCreating
<1>6. CreatingOK'
  BY <1>1 DEF CreatingOK, StageOK, NoWindow, NotCreating, TypeOK, WindowTypeOK, Creating
<1>7. StageOK' /\ ThreadsOwned'
  BY <1>1 DEF CreatingOK, StageOK, ThreadsOwned, NoWindow, NotCreating, members, Creating, TypeOK,
              WindowTypeOK
<1> QED BY <1>3, <1>4, <1>5, <1>6, <1>7

LEMMA BindMainStep == IInv /\ BindMain => IInv'
<1> SUFFICES ASSUME IInv, BindMain PROVE IInv'
  OBVIOUS
<1> USE DEF IInv, BindMain, FirstMessage, Released
<1>1. Ongoing /\ Bound /\ CreatingOK /\ StageOK /\ ThreadsOwned
  BY DEF Ongoing
<1>2. storage = "main" /\ NoWindow("main") /\ creating = [window |-> "main", at |-> "entered"]
  BY <1>1 DEF CreatingOK, Creating
<1>3. PICK h \in Handles : /\ userdata[h] = "gone"
                          /\ userdata' = [userdata EXCEPT ![h] = "main"]
                          /\ hwnd' = [hwnd EXCEPT !["main"] = h]
  BY <1>2
<1>4. creating' = [window |-> "main", at |-> "bound"] /\ storage' = "null" /\ semaphore_create' = 1
  BY <1>2
<1>5. h # "null"
  BY WindowsAssumption
<1>6. WindowTypeOK'
  BY <1>3, <1>4 DEF TypeOK, WindowTypeOK, Points
<1>7. TypeOK'
  BY <1>6 DEF TypeOK, members, processes
<1>8. UsesExplained' /\ MutexOK'
  BY DEF UsesExplained, MutexOK, Running, processes
<1>9. Bound'
  BY <1>1, <1>2, <1>3, WindowsAssumption DEF Bound, NoWindow, TypeOK, WindowTypeOK
<1>10. CreatingOK'
  BY <1>3, <1>4, <1>5 DEF CreatingOK, NoWindow, TypeOK, WindowTypeOK
<1>11. StageOK' /\ ThreadsOwned'
  BY <1>1, <1>2, <1>3, <1>4, <1>5
     DEF StageOK, ThreadsOwned, NoWindow, members, TypeOK, WindowTypeOK
<1> QED BY <1>7, <1>8, <1>9, <1>10, <1>11

LEMMA CreatedMainStep == IInv /\ CreatedMain => IInv'
<1> SUFFICES ASSUME IInv, CreatedMain PROVE IInv'
  OBVIOUS
<1> USE DEF IInv, CreatedMain, Created
<1>1. Ongoing /\ Bound /\ CreatingOK /\ StageOK /\ ThreadsOwned
  BY DEF Ongoing
<1>2. WindowTypeOK'
  BY DEF TypeOK, WindowTypeOK, Points, NotCreating, Creating
<1>3. TypeOK'
  BY <1>2 DEF TypeOK, Stages, members, processes
<1>4. UsesExplained' /\ MutexOK'
  BY DEF UsesExplained, MutexOK, Running, processes
<1>5. Bound'
  BY <1>1 DEF Bound, CreatingOK, StageOK, NoWindow, TypeOK, WindowTypeOK, Creating, NotCreating
<1>6. CreatingOK'
  BY <1>1 DEF CreatingOK, StageOK, NoWindow, NotCreating, TypeOK, WindowTypeOK, Creating
<1>7. StageOK' /\ ThreadsOwned'
  BY <1>1 DEF CreatingOK, StageOK, ThreadsOwned, NoWindow, NotCreating, members, Creating, TypeOK,
              WindowTypeOK
<1> QED BY <1>3, <1>4, <1>5, <1>6, <1>7

LEMMA DeclineMainStep == IInv /\ DeclineMain => IInv'
<1> SUFFICES ASSUME IInv, DeclineMain PROVE IInv'
  OBVIOUS
<1> USE DEF IInv, DeclineMain, Declined
<1>1. Ongoing /\ Bound /\ CreatingOK /\ StageOK /\ ThreadsOwned
  BY DEF Ongoing
<1>2. WindowTypeOK'
  BY DEF TypeOK, WindowTypeOK, Points, NotCreating, Creating
<1>3. TypeOK'
  BY <1>2 DEF TypeOK, Stages, members, processes
<1>4. UsesExplained' /\ MutexOK'
  BY DEF UsesExplained, MutexOK, Running, processes
<1>5. Bound'
  BY <1>1 DEF Bound, CreatingOK, StageOK, NoWindow, TypeOK, WindowTypeOK, Creating, NotCreating
<1>6. CreatingOK'
  BY <1>1 DEF CreatingOK, StageOK, NoWindow, NotCreating, TypeOK, WindowTypeOK, Creating
<1>7. StageOK' /\ ThreadsOwned'
  BY <1>1 DEF CreatingOK, StageOK, ThreadsOwned, NoWindow, NotCreating, members, Creating, TypeOK,
              WindowTypeOK
<1> QED BY <1>3, <1>4, <1>5, <1>6, <1>7

LEMMA OpenKeysStep == IInv /\ OpenKeys => IInv'
<1> SUFFICES ASSUME IInv, OpenKeys PROVE IInv'
  OBVIOUS
<1> USE DEF IInv, OpenKeys, Enter
<1>1. Ongoing /\ Bound /\ CreatingOK /\ StageOK /\ ThreadsOwned
  BY DEF Ongoing
<1>2. WindowTypeOK'
  BY DEF TypeOK, WindowTypeOK, Points, NotCreating
<1>3. TypeOK'
  BY <1>2 DEF TypeOK, Stages, members, processes
<1>4. UsesExplained' /\ MutexOK'
  BY DEF UsesExplained, MutexOK, Running, processes
<1>5. Bound'
  BY <1>1 DEF Bound, CreatingOK, StageOK, NoWindow, TypeOK, WindowTypeOK, Creating, NotCreating
<1>6. CreatingOK'
  BY <1>1 DEF CreatingOK, StageOK, NoWindow, NotCreating, TypeOK, WindowTypeOK, Creating
<1>7. StageOK' /\ ThreadsOwned'
  BY <1>1 DEF CreatingOK, StageOK, ThreadsOwned, NoWindow, NotCreating, members, Creating, TypeOK,
              WindowTypeOK
<1> QED BY <1>3, <1>4, <1>5, <1>6, <1>7

LEMMA RefuseKeysStep == IInv /\ RefuseKeys => IInv'
<1> SUFFICES ASSUME IInv, RefuseKeys PROVE IInv'
  OBVIOUS
<1> USE DEF IInv, RefuseKeys, Refused
<1>1. Ongoing /\ Bound /\ CreatingOK /\ StageOK /\ ThreadsOwned
  BY DEF Ongoing
<1>2. WindowTypeOK'
  BY DEF TypeOK, WindowTypeOK, Points, NotCreating, Creating
<1>3. TypeOK'
  BY <1>2 DEF TypeOK, Stages, members, processes
<1>4. UsesExplained' /\ MutexOK'
  BY DEF UsesExplained, MutexOK, Running, processes
<1>5. Bound'
  BY <1>1 DEF Bound, CreatingOK, StageOK, NoWindow, TypeOK, WindowTypeOK, Creating, NotCreating
<1>6. CreatingOK'
  BY <1>1 DEF CreatingOK, StageOK, NoWindow, NotCreating, TypeOK, WindowTypeOK, Creating
<1>7. StageOK' /\ ThreadsOwned'
  BY <1>1 DEF CreatingOK, StageOK, ThreadsOwned, NoWindow, NotCreating, members, Creating, TypeOK,
              WindowTypeOK
<1> QED BY <1>3, <1>4, <1>5, <1>6, <1>7

LEMMA BindKeysStep == IInv /\ BindKeys => IInv'
<1> SUFFICES ASSUME IInv, BindKeys PROVE IInv'
  OBVIOUS
<1> USE DEF IInv, BindKeys, FirstMessage, Released
<1>1. Ongoing /\ Bound /\ CreatingOK /\ StageOK /\ ThreadsOwned
  BY DEF Ongoing
<1>2. storage = "key" /\ NoWindow("key") /\ creating = [window |-> "key", at |-> "entered"]
  BY <1>1 DEF CreatingOK, Creating
<1>3. PICK h \in Handles : /\ userdata[h] = "gone"
                          /\ userdata' = [userdata EXCEPT ![h] = "key"]
                          /\ hwnd' = [hwnd EXCEPT !["key"] = h]
  BY <1>2
<1>4. creating' = [window |-> "key", at |-> "bound"] /\ storage' = "null" /\ semaphore_create' = 1
  BY <1>2
<1>5. h # "null"
  BY WindowsAssumption
<1>6. WindowTypeOK'
  BY <1>3, <1>4 DEF TypeOK, WindowTypeOK, Points
<1>7. TypeOK'
  BY <1>6 DEF TypeOK, members, processes
<1>8. UsesExplained' /\ MutexOK'
  BY DEF UsesExplained, MutexOK, Running, processes
<1>9. Bound'
  BY <1>1, <1>2, <1>3, WindowsAssumption DEF Bound, NoWindow, TypeOK, WindowTypeOK
<1>10. CreatingOK'
  BY <1>3, <1>4, <1>5 DEF CreatingOK, NoWindow, TypeOK, WindowTypeOK
<1>11. StageOK' /\ ThreadsOwned'
  BY <1>1, <1>2, <1>3, <1>4, <1>5
     DEF StageOK, ThreadsOwned, NoWindow, members, TypeOK, WindowTypeOK
<1> QED BY <1>7, <1>8, <1>9, <1>10, <1>11

LEMMA CreatedKeysStep == IInv /\ CreatedKeys => IInv'
<1> SUFFICES ASSUME IInv, CreatedKeys PROVE IInv'
  OBVIOUS
<1> USE DEF IInv, CreatedKeys, Created
<1>1. Ongoing /\ Bound /\ CreatingOK /\ StageOK /\ ThreadsOwned
  BY DEF Ongoing
<1>2. WindowTypeOK'
  BY DEF TypeOK, WindowTypeOK, Points, NotCreating, Creating
<1>3. TypeOK'
  BY <1>2 DEF TypeOK, Stages, members, processes
<1>4. UsesExplained' /\ MutexOK'
  BY DEF UsesExplained, MutexOK, Running, processes
<1>5. Bound'
  BY <1>1 DEF Bound, CreatingOK, StageOK, NoWindow, TypeOK, WindowTypeOK, Creating, NotCreating
<1>6. CreatingOK'
  BY <1>1 DEF CreatingOK, StageOK, NoWindow, NotCreating, TypeOK, WindowTypeOK, Creating
<1>7. StageOK' /\ ThreadsOwned'
  BY <1>1 DEF CreatingOK, StageOK, ThreadsOwned, NoWindow, NotCreating, members, Creating, TypeOK,
              WindowTypeOK
<1> QED BY <1>3, <1>4, <1>5, <1>6, <1>7

LEMMA CloseKeysStep == IInv /\ CloseKeys => IInv'
<1> SUFFICES ASSUME IInv, CloseKeys PROVE IInv'
  OBVIOUS
<1> USE DEF IInv, CloseKeys, Gone, EnabledAfter
<1>1. Ongoing /\ Bound /\ CreatingOK /\ StageOK /\ ThreadsOwned
  BY DEF Ongoing
<1>2. WindowTypeOK'
  BY DEF TypeOK, WindowTypeOK, Points, NotCreating
<1>3. TypeOK'
  BY <1>2 DEF TypeOK, Stages, members, processes
<1>4. UsesExplained' /\ MutexOK'
  BY DEF UsesExplained, MutexOK, Running, processes
<1>5. Bound'
  BY <1>1 DEF Bound, CreatingOK, StageOK, NoWindow, TypeOK, WindowTypeOK, Creating, NotCreating
<1>6. CreatingOK'
  BY <1>1 DEF CreatingOK, StageOK, NoWindow, NotCreating, TypeOK, WindowTypeOK, Creating
<1>7. StageOK' /\ ThreadsOwned'
  BY <1>1 DEF CreatingOK, StageOK, ThreadsOwned, NoWindow, NotCreating, members, Creating, TypeOK,
              WindowTypeOK
<1> QED BY <1>3, <1>4, <1>5, <1>6, <1>7

LEMMA CloseStep == IInv /\ Close => IInv'
<1> SUFFICES ASSUME IInv, Close PROVE IInv'
  OBVIOUS
<1> USE DEF IInv, Close, Gone, Closed, EnabledAfter
<1>1. Ongoing /\ Bound /\ CreatingOK /\ StageOK /\ ThreadsOwned
  BY DEF Ongoing
<1>2. WindowTypeOK'
  BY DEF TypeOK, WindowTypeOK, Points, NotCreating
<1>3. TypeOK'
  BY <1>2 DEF TypeOK, Stages, members, processes
<1>4. UsesExplained' /\ MutexOK'
  BY DEF UsesExplained, MutexOK, Running, processes
<1>5. Bound'
  BY <1>1 DEF Bound, CreatingOK, StageOK, NoWindow, TypeOK, WindowTypeOK, Creating, NotCreating
<1>6. CreatingOK'
  BY <1>1 DEF CreatingOK, StageOK, NoWindow, NotCreating, TypeOK, WindowTypeOK, Creating
<1>7. StageOK' /\ ThreadsOwned'
  BY <1>1 DEF CreatingOK, StageOK, ThreadsOwned, NoWindow, NotCreating, members, Creating, TypeOK,
              WindowTypeOK
<1> QED BY <1>3, <1>4, <1>5, <1>6, <1>7

-----------------------------------------------------------------------------
\* Steps of the threads.
\* A thread ends.
LEMMA ThreadEndsStep == IInv /\ (\E t \in Threads : ThreadEnds(t)) => IInv'
<1> SUFFICES ASSUME IInv, (\E t \in Threads : ThreadEnds(t)) PROVE IInv'
  OBVIOUS
<1> USE DEF IInv, ThreadEnds, At
<1>1. WindowTypeOK' /\ (Ongoing' => Bound' /\ CreatingOK')
  BY WindowsKept DEF Ongoing
<1>2. TypeOK'
  BY <1>1 DEF TypeOK, Stages, Ats, members, processes, Ongoing, StageOK
<1>3. UsesExplained' /\ MutexOK'
  BY DEF UsesExplained, MutexOK, Running, processes
<1>4. Ongoing' => StageOK' /\ ThreadsOwned'
  BY DEF StageOK, ThreadsOwned, NoWindow, Ongoing, windowing, members, Creating, TypeOK
<1> QED BY <1>1, <1>2, <1>3, <1>4

LEMMA TestWindowStep == IInv /\ TestWindow => IInv'
<1> SUFFICES ASSUME IInv, TestWindow PROVE IInv'
  OBVIOUS
<1> USE DEF IInv, TestWindow, At
<1>1. WindowTypeOK' /\ (Ongoing' => Bound' /\ CreatingOK')
  BY WindowsKept DEF Ongoing
<1>2. TypeOK'
  BY <1>1 DEF TypeOK, Stages, Ats, members, processes, Ongoing, StageOK
<1>3. UsesExplained' /\ MutexOK'
  BY DEF UsesExplained, MutexOK, Running, processes
<1>4. Ongoing' => StageOK' /\ ThreadsOwned'
  BY DEF StageOK, ThreadsOwned, NoWindow, Ongoing, windowing, members, Creating, TypeOK
<1> QED BY <1>1, <1>2, <1>3, <1>4

LEMMA UpdateWindowStep == IInv /\ UpdateWindow => IInv'
<1> SUFFICES ASSUME IInv, UpdateWindow PROVE IInv'
  OBVIOUS
<1> USE DEF IInv, UpdateWindow, At
<1>1. WindowTypeOK' /\ (Ongoing' => Bound' /\ CreatingOK')
  BY WindowsKept DEF Ongoing
<1>2. TypeOK'
  BY <1>1 DEF TypeOK, Stages, Ats, members, processes, Ongoing, StageOK
<1>3. UsesExplained' /\ MutexOK'
  BY DEF UsesExplained, MutexOK, Running, processes
<1>4. Ongoing' => StageOK' /\ ThreadsOwned'
  BY DEF StageOK, ThreadsOwned, NoWindow, Ongoing, windowing, members, Creating, TypeOK
<1> QED BY <1>1, <1>2, <1>3, <1>4

LEMMA UpdateFailsStep == IInv /\ UpdateFails => IInv'
<1> SUFFICES ASSUME IInv, UpdateFails PROVE IInv'
  OBVIOUS
<1> USE DEF IInv, UpdateFails, At
<1>1. WindowTypeOK' /\ (Ongoing' => Bound' /\ CreatingOK')
  BY WindowsKept DEF Ongoing
<1>2. TypeOK'
  BY <1>1 DEF TypeOK, Stages, Ats, members, processes, Ongoing, StageOK
<1>3. UsesExplained' /\ MutexOK'
  BY DEF UsesExplained, MutexOK, Running, processes
<1>4. Ongoing' => StageOK' /\ ThreadsOwned'
  BY DEF StageOK, ThreadsOwned, NoWindow, Ongoing, windowing, members, Creating, TypeOK
<1> QED BY <1>1, <1>2, <1>3, <1>4

LEMMA ReadSettingsStep == IInv /\ ReadSettings => IInv'
<1> SUFFICES ASSUME IInv, ReadSettings PROVE IInv'
  OBVIOUS
<1> USE DEF IInv, ReadSettings, At, Use, Crash, Live
<1>1. WindowTypeOK' /\ (Ongoing' => Bound' /\ CreatingOK')
  BY WindowsKept DEF Ongoing
<1>2. misused' \subseteq Threads \X (Paint .. KeyWnd)
  BY DEF TypeOK
<1>3. misused' \subseteq misused \union ({Reset} \X {Manager, Kps, Cfg})
  OBVIOUS
<1>4. TypeOK'
  <2>1. thread' \in [Threads -> Ats]
    BY DEF TypeOK, Ats
  <2>2. stage' \in Stages /\ handles' \subseteq {"first", "second"}
    BY DEF TypeOK, Stages
  <2> QED BY <1>1, <1>2, <2>1, <2>2 DEF TypeOK
<1>5. UsesExplained' /\ MutexOK'
  BY <1>2, <1>3 DEF UsesExplained, MutexOK, Running, processes
<1>6. Ongoing' => StageOK' /\ ThreadsOwned'
  BY DEF StageOK, ThreadsOwned, NoWindow, Ongoing, windowing, members, Creating, TypeOK
<1> QED BY <1>1, <1>4, <1>5, <1>6

LEMMA ClearTotalStep == IInv /\ ClearTotal => IInv'
<1> SUFFICES ASSUME IInv, ClearTotal PROVE IInv'
  OBVIOUS
<1> USE DEF IInv, ClearTotal, At, Use, Crash, Live
<1>1. WindowTypeOK' /\ (Ongoing' => Bound' /\ CreatingOK')
  BY WindowsKept DEF Ongoing
<1>2. misused' \subseteq Threads \X (Paint .. KeyWnd)
  BY DEF TypeOK
<1>3. misused' \subseteq misused \union ({Reset} \X {Manager, Kps, Cfg})
  OBVIOUS
<1>4. TypeOK'
  BY <1>1, <1>2, <1>3 DEF TypeOK, Stages, Ats, members, processes, Ongoing, StageOK
<1>5. UsesExplained' /\ MutexOK'
  BY <1>2, <1>3 DEF UsesExplained, MutexOK, Running, processes
<1>6. Ongoing' => StageOK' /\ ThreadsOwned'
  BY DEF StageOK, ThreadsOwned, NoWindow, Ongoing, windowing, members, Creating, TypeOK
<1> QED BY <1>1, <1>4, <1>5, <1>6

LEMMA ClearMaxStep == IInv /\ ClearMax => IInv'
<1> SUFFICES ASSUME IInv, ClearMax PROVE IInv'
  OBVIOUS
<1> USE DEF IInv, ClearMax, At, Use, Crash, Live
<1>1. WindowTypeOK' /\ (Ongoing' => Bound' /\ CreatingOK')
  BY WindowsKept DEF Ongoing
<1>2. misused' \subseteq Threads \X (Paint .. KeyWnd)
  BY DEF TypeOK
<1>3. misused' \subseteq misused \union ({Reset} \X {Manager, Kps, Cfg})
  OBVIOUS
<1>4. TypeOK'
  BY <1>1, <1>2, <1>3 DEF TypeOK, Stages, Ats, members, processes, Ongoing, StageOK
<1>5. UsesExplained' /\ MutexOK'
  BY <1>2, <1>3 DEF UsesExplained, MutexOK, Running, processes
<1>6. Ongoing' => StageOK' /\ ThreadsOwned'
  BY DEF StageOK, ThreadsOwned, NoWindow, Ongoing, windowing, members, Creating, TypeOK
<1> QED BY <1>1, <1>4, <1>5, <1>6

LEMMA ClearGraphStep == IInv /\ ClearGraph => IInv'
<1> SUFFICES ASSUME IInv, ClearGraph PROVE IInv'
  OBVIOUS
<1> USE DEF IInv, ClearGraph, At, Use, Crash, Live
<1>1. WindowTypeOK' /\ (Ongoing' => Bound' /\ CreatingOK')
  BY WindowsKept DEF Ongoing
<1>2. misused' \subseteq Threads \X (Paint .. KeyWnd)
  BY DEF TypeOK
<1>3. misused' \subseteq misused \union ({Reset} \X {Manager, Kps, Cfg})
  OBVIOUS
<1>4. TypeOK'
  BY <1>1, <1>2, <1>3 DEF TypeOK, Stages, Ats, members, processes, Ongoing, StageOK
<1>5. UsesExplained' /\ MutexOK'
  BY <1>2, <1>3 DEF UsesExplained, MutexOK, Running, processes
<1>6. Ongoing' => StageOK' /\ ThreadsOwned'
  BY DEF StageOK, ThreadsOwned, NoWindow, Ongoing, windowing, members, Creating, TypeOK
<1> QED BY <1>1, <1>4, <1>5, <1>6

LEMMA GetStatusStep == IInv /\ GetStatus => IInv'
<1> SUFFICES ASSUME IInv, GetStatus PROVE IInv'
  OBVIOUS
<1> USE DEF IInv, GetStatus, At, Live
<1>1. WindowTypeOK' /\ (Ongoing' => Bound' /\ CreatingOK')
  BY WindowsKept DEF Ongoing
<1>2. TypeOK'
  BY <1>1 DEF TypeOK, Stages, Ats, members, processes, Ongoing, StageOK
<1>3. UsesExplained' /\ MutexOK'
  BY DEF UsesExplained, MutexOK, Running, processes
<1>4. Ongoing' => StageOK' /\ ThreadsOwned'
  BY DEF StageOK, ThreadsOwned, NoWindow, Ongoing, windowing, members, Creating, TypeOK
<1> QED BY <1>1, <1>2, <1>3, <1>4

LEMMA ReportStep == IInv /\ Report => IInv'
<1> SUFFICES ASSUME IInv, Report PROVE IInv'
  OBVIOUS
<1> USE DEF IInv, Report, At
<1>1. WindowTypeOK' /\ (Ongoing' => Bound' /\ CreatingOK')
  BY WindowsKept DEF Ongoing
<1>2. TypeOK'
  BY <1>1 DEF TypeOK, Stages, Ats, members, processes, Ongoing, StageOK
<1>3. UsesExplained' /\ MutexOK'
  BY DEF UsesExplained, MutexOK, Running, processes
<1>4. Ongoing' => StageOK' /\ ThreadsOwned'
  BY DEF StageOK, ThreadsOwned, NoWindow, Ongoing, windowing, members, Creating, TypeOK
<1> QED BY <1>1, <1>2, <1>3, <1>4

LEMMA UpdateOnKeyDownStep == IInv /\ UpdateOnKeyDown => IInv'
<1> SUFFICES ASSUME IInv, UpdateOnKeyDown PROVE IInv'
  OBVIOUS
<1> USE DEF IInv, UpdateOnKeyDown, At, Use, Live, Crash
<1>1. WindowTypeOK' /\ (Ongoing' => Bound' /\ CreatingOK')
  BY WindowsKept DEF Ongoing
<1>2. Ongoing /\ ThreadsOwned
  BY DEF Running, Ongoing
<1>3. Live(Manager)
  BY <1>2 DEF ThreadsOwned, TypeOK
<1>4. UNCHANGED <<misused, stage, handles>>
  BY <1>3
<1>5. TypeOK'
  BY <1>1, <1>4 DEF TypeOK, Stages, Ats, members, processes, Ongoing, StageOK
<1>6. UsesExplained' /\ MutexOK'
  BY <1>4 DEF UsesExplained, MutexOK, Running, processes
<1>7. Ongoing' => StageOK' /\ ThreadsOwned'
  BY <1>4 DEF StageOK, ThreadsOwned, NoWindow, Ongoing, windowing, members, Creating, TypeOK
<1> QED BY <1>1, <1>5, <1>6, <1>7

-----------------------------------------------------------------------------
\* Every step preserves the invariant.
LEMMA MainStep == IInv /\ Main => IInv'
  BY WinMainStep, BuildStep, CreateMainStep, RefuseMainStep, BindMainStep,
     MessageBoxStep, CreatedMainStep, DeclineMainStep, ThrowStep, OpenKeysStep,
     RefuseKeysStep, BindKeysStep, CreatedKeysStep, CloseKeysStep, CloseStep,
     OnPaintStep, LoopEndsStep, TearBeginStep, TearEndStep, TornStep,
     CloseMutexStep
  DEF Main

LEMMA ThreadStep == IInv /\ (\E t \in Threads : Begins(t) \/ Finishes(t)) => IInv'
  BY ThreadEndsStep, TestWindowStep, UpdateWindowStep, UpdateFailsStep, ReadSettingsStep,
     ClearTotalStep, ClearMaxStep, ClearGraphStep, GetStatusStep, ReportStep,
     UpdateOnKeyDownStep
  DEF Begins, Finishes

LEMMA NextIInv == IInv /\ [Next]_vars => IInv'
<1> SUFFICES ASSUME IInv, [Next]_vars PROVE IInv'
  OBVIOUS
<1>1. CASE Next
  BY <1>1, MainStep, ThreadStep, SecondStartsStep, SecondEndsStep DEF Next
<1>2. CASE UNCHANGED vars
  <2>1. TypeOK' /\ UsesExplained' /\ MutexOK'
    BY <1>2 DEF IInv, TypeOK, WindowTypeOK, UsesExplained, MutexOK, Running, vars, members,
                processes, windowing
  <2>2. (Ongoing => Bound /\ CreatingOK /\ StageOK /\ ThreadsOwned)'
    BY <1>2 DEF IInv, Ongoing, Bound, CreatingOK, StageOK, ThreadsOwned, NoWindow, vars,
                members, processes, windowing
  <2> QED BY <2>1, <2>2 DEF IInv
<1> QED BY <1>1, <1>2

\* The inductive invariant holds throughout.
THEOREM Invariance == Spec => []IInv
<1>1. Init => IInv
  BY InitIInv
<1>2. IInv /\ [Next]_vars => IInv'
  BY NextIInv
<1> QED BY <1>1, <1>2, PTL DEF Spec

\* What the invariant says of windows, objects and processes.
LEMMA WindowsFollow == IInv => WindowsInOrder
<1> SUFFICES ASSUME IInv, stage \in Stages \ {"gone", "crashed"}
             PROVE ObjectsOutlive /\ CreateNeverWaits /\ NeverLeftDisabled
  BY DEF WindowsInOrder
<1>1. Bound /\ CreatingOK /\ StageOK
  BY DEF IInv, Ongoing
<1>2. ASSUME NEW w \in Windows, hwnd[w] # "null"
      PROVE IF w = "main" THEN stage # "closing" ELSE Live(KeyWnd)
  BY <1>1, <1>2 DEF StageOK, NoWindow, Live, Stages
<1>3. ObjectsOutlive
  BY <1>1, <1>2 DEF ObjectsOutlive, Bound
<1> QED BY <1>1, <1>3 DEF CreatingOK, StageOK, CreateNeverWaits, NeverLeftDisabled, NoWindow

\* Every variable keeps to its values, whatever the processes and the threads do.
THEOREM Typing == Spec => []TypeOK
<1>1. IInv => TypeOK
  BY DEF IInv
<1> QED BY <1>1, Invariance, PTL

\* A window never outlives its object or names another one, create never waits for
\* the semaphore that is released twice (window.hpp line 379), and the main window is
\* never left disabled.
THEOREM WindowsStayInOrder == Spec => []WindowsInOrder
<1> QED BY WindowsFollow, Invariance, PTL

\* The only threads that can use a member outside its life are the auto-reset timer
\* and the timer of autoplay_manager (main.cpp line 726).
THEOREM UsesStayExplained == Spec => []UsesExplained
<1>1. IInv => UsesExplained
  BY DEF IInv
<1> QED BY <1>1, Invariance, PTL

\* A process that found the mutex new runs alone until it has saved its settings.
THEOREM OneAtATime == Spec => []OneInstance
<1>1. IInv => OneInstance
  BY DEF IInv, MutexOK, OneInstance
<1> QED BY <1>1, Invariance, PTL

-----------------------------------------------------------------------------
(* The glow: the stamps never lie ahead of the clock, so right after the   *)
(* paint has read the clock all of them are in its past, and stay there    *)
(* until an event is written.                                              *)

Times == [Buttons -> Nat]

\* What the clock bounds: every stamp, and the times a paint has read.
PaintIInv ==
  /\ clock \in Nat /\ now \in Nat /\ now <= clock
  /\ previous_down \in Times /\ previous_up \in Times
  /\ update = NoUpdate \/ update \in Update
  /\ paint \in [at : {"none", "thrown"}] \union [at : {"clock", "down", "up", "pressed"}, button : Buttons]
  /\ down_alpha_param \in Int /\ up_alpha_param \in Int
  /\ overtaken \in BOOLEAN
  /\ ~overtaken /\ paint.at \notin {"none", "thrown"} =>
       \A i \in Buttons : previous_down[i] <= now /\ previous_up[i] <= now
  /\ \A i \in Buttons : previous_down[i] <= clock /\ previous_up[i] <= clock
  /\ update # NoUpdate => update.time <= clock
  /\ ~overtaken /\ paint.at \in {"down", "up", "pressed"} => down_alpha_param >= 0
  /\ ~overtaken /\ paint.at \in {"up", "pressed"} => up_alpha_param >= 0
  /\ ThrowsOnlyIfOvertaken
-----------------------------------------------------------------------------
\* The invariant holds at the start.
LEMMA PaintInitIInv == PaintInit => PaintIInv
<1> SUFFICES ASSUME PaintInit PROVE PaintIInv
  OBVIOUS
<1>1. paint = [at |-> "none"] /\ update = NoUpdate
  BY DEF PaintInit
<1>2. previous_down = [i \in Buttons |-> 0] /\ previous_up = [i \in Buttons |-> 0]
  BY DEF PaintInit
<1>3. clock = 1 /\ now = 0 /\ down_alpha_param = 0 /\ up_alpha_param = 0
  BY DEF PaintInit
<1>4. previous_down \in Times /\ previous_up \in Times
  BY <1>2 DEF Times
<1>5. \A i \in Buttons : previous_down[i] <= clock /\ previous_up[i] <= clock
  <2>1. \A i \in Buttons : previous_down[i] = 0 /\ previous_up[i] = 0
    BY <1>2
  <2>2. ASSUME NEW i \in Buttons PROVE previous_down[i] <= clock /\ previous_up[i] <= clock
    BY <1>3, <2>1
  <2> QED BY <2>2
<1>6. paint \in [at : {"none", "thrown"}] /\ paint.at = "none"
  BY <1>1
<1>7. overtaken \in BOOLEAN
  BY DEF PaintInit
<1> QED BY <1>1, <1>3, <1>4, <1>5, <1>6, <1>7 DEF PaintIInv, ThrowsOnlyIfOvertaken

\* Every step preserves it.
LEMMA PaintNextIInv == PaintIInv /\ [PaintNext]_paintVars => PaintIInv'
<1> SUFFICES ASSUME PaintIInv, [PaintNext]_paintVars PROVE PaintIInv'
  OBVIOUS
<1> USE DEF PaintIInv, Times, info, locals, ThrowsOnlyIfOvertaken
<1>1. CASE Tick
  BY <1>1 DEF Tick, NoUpdate, Update, Interpolated
<1>2. CASE \E i \in Buttons, isDown \in BOOLEAN : OnKey(i, isDown)
  BY <1>2 DEF OnKey, NoUpdate, Update, Interpolated
<1>3. CASE UpdateFlag
  BY <1>3 DEF UpdateFlag, NoUpdate, Update, Interpolated
<1>4. CASE UpdateTime
  BY <1>4 DEF UpdateTime, NoUpdate, Update, Interpolated
<1>5. CASE SetButtonCount
  BY <1>5 DEF SetButtonCount, NoUpdate, Update, Interpolated
<1>6. CASE \E i \in Buttons : ReadClock(i)
  <2>1. PICK i \in Buttons : ReadClock(i)
    BY <1>6
  <2>2. paint' = [at |-> "clock", button |-> i] /\ paint'.at = "clock"
    BY <2>1 DEF ReadClock
  <2>3. UNCHANGED <<clock, info, update, down_alpha_param, up_alpha_param>> /\ now' = clock
    BY <2>1 DEF ReadClock
  <2>4. \A b \in Buttons : previous_down'[b] <= now' /\ previous_up'[b] <= now'
    BY <2>3
  <2>5. \A b \in Buttons : previous_down'[b] <= clock' /\ previous_up'[b] <= clock'
    BY <2>3
  <2>6. overtaken' \in BOOLEAN
    BY <2>1 DEF ReadClock
  <2>7. paint' \in [at : {"clock", "down", "up", "pressed"}, button : Buttons]
    BY <2>2
  <2> QED BY <2>2, <2>3, <2>4, <2>5, <2>6, <2>7
<1>7. CASE ReadPreviousDown
  BY <1>7 DEF ReadPreviousDown, NoUpdate, Update, Interpolated
<1>8. CASE ReadPreviousUp
  BY <1>8 DEF ReadPreviousUp, NoUpdate, Update, Interpolated
<1>9. CASE PressColor
  BY <1>9 DEF PressColor, NoUpdate, Update, Interpolated
<1>10. CASE ReleaseColor
  BY <1>10 DEF ReleaseColor, NoUpdate, Update, Interpolated
<1>11. CASE UNCHANGED paintVars
  BY <1>11 DEF paintVars, NoUpdate, Update
<1> QED
  BY <1>1, <1>2, <1>3, <1>4, <1>5, <1>6, <1>7, <1>8, <1>9, <1>10, <1>11 DEF PaintNext, Monitor, PaintButton

\* A paint throws only if an event was written after it had read the clock
\* (main.cpp lines 896 to 917).
THEOREM ThrowsAreRaces == PaintSpec => []ThrowsOnlyIfOvertaken
<1>1. PaintInit => PaintIInv
  BY PaintInitIInv
<1>2. PaintIInv /\ [PaintNext]_paintVars => PaintIInv'
  BY PaintNextIInv
<1>3. PaintIInv => ThrowsOnlyIfOvertaken
  BY DEF PaintIInv
<1> QED BY <1>1, <1>2, <1>3, PTL DEF PaintSpec

-----------------------------------------------------------------------------
(* The places of the windows, for any monitor and any window. *)

\* The three places the windows take are one and the same function of where they
\* would be, although the code tests the ends in different orders, twice by
\* displacements: also for a window larger than the monitor.
THEOREM SamePlace ==
  ASSUME NEW at \in Int, NEW n \in Nat, NEW lo \in Int, NEW hi \in Int
  PROVE  /\ Resized(at, n, lo, hi) = Fenced(at, n, lo, hi)
         /\ \A cursor \in Int :
              MovedToCursor(at, n, cursor, lo, hi)
                = Fenced(at + (cursor - Half(at + (at + n))), n, lo, hi)
<1>1. Resized(at, n, lo, hi) = Fenced(at, n, lo, hi)
  BY SMT DEF Resized, Shift, Fenced
<1>2. ASSUME NEW cursor \in Int
      PROVE  MovedToCursor(at, n, cursor, lo, hi)
               = Fenced(at + (cursor - Half(at + (at + n))), n, lo, hi)
  <2>1. Half(at + (at + n)) \in Int
    BY SMT DEF Half
  <2>2. QED
    BY <2>1, SMT DEF MovedToCursor, CursorShift, Fenced
<1>3. QED
  BY <1>1, <1>2

\* A window that fits is never dragged out of its monitor, and is as near to the mouse
\* as that allows.
THEOREM FenceHolds ==
  ASSUME NEW start \in Int, NEW mouse \in Int, NEW p \in Int, NEW n \in Nat,
         NEW lo \in Int, NEW hi \in Int, n <= hi - lo
  PROVE  LET w == Dragged(start, mouse, p) IN
         /\ Inside(Fenced(w, n, lo, hi), n, lo, hi)
         /\ Nearest(Fenced(w, n, lo, hi), w, n, lo, hi)
<1> DEFINE w == Dragged(start, mouse, p)
<1>1. w \in Int
  BY DEF Dragged
<1> HIDE DEF w
<1>2. Inside(Fenced(w, n, lo, hi), n, lo, hi)
  BY <1>1, SMT DEF Inside, Fenced
<1>3. Nearest(Fenced(w, n, lo, hi), w, n, lo, hi)
  BY <1>1, SMT DEF Nearest, Inside, Distance, Fenced
<1>4. QED
  BY <1>2, <1>3 DEF w

\* resize prefers not to move the window's top left corner (main.cpp line 695): it
\* stays if the window fits there, and moves no further than it must.
THEOREM CornerStays ==
  ASSUME NEW at \in Int, NEW n \in Nat, NEW lo \in Int, NEW hi \in Int
  PROVE  /\ Inside(at, n, lo, hi) => Resized(at, n, lo, hi) = at
         /\ n <= hi - lo => /\ Inside(Resized(at, n, lo, hi), n, lo, hi)
                            /\ Nearest(Resized(at, n, lo, hi), at, n, lo, hi)
<1>1. Inside(at, n, lo, hi) => Resized(at, n, lo, hi) = at
  BY SMT DEF Inside, Resized, Shift
<1>2. ASSUME n <= hi - lo
      PROVE  Inside(Resized(at, n, lo, hi), n, lo, hi)
  BY <1>2, SMT DEF Inside, Resized, Shift
<1>3. ASSUME n <= hi - lo
      PROVE  Nearest(Resized(at, n, lo, hi), at, n, lo, hi)
  BY <1>3, SMT DEF Nearest, Inside, Distance, Resized, Shift
<1>4. QED
  BY <1>1, <1>2, <1>3

\* The key window opens with its middle on the cursor, to a pixel, unless it would
\* stick out.
THEOREM CursorInTheMiddle ==
  ASSUME NEW at \in Int, NEW n \in Nat, NEW cursor \in Int, NEW lo \in Int, NEW hi \in Int,
         n <= hi - lo
  PROVE  LET x == MovedToCursor(at, n, cursor, lo, hi) IN
         /\ Inside(x, n, lo, hi)
         /\ x \in {lo, hi - n} \/ Distance(2 * x + n, 2 * cursor) <= 1
<1> DEFINE half == Half(at + (at + n))
<1>1. half \in Int /\ Distance(2 * half, at + (at + n)) <= 1
  BY SMT DEF Half, Distance
<1>2. MovedToCursor(at, n, cursor, lo, hi) = Fenced(at + (cursor - half), n, lo, hi)
  BY <1>1, SMT DEF half, MovedToCursor, CursorShift, Fenced
<1> HIDE DEF half
<1>3. Inside(Fenced(at + (cursor - half), n, lo, hi), n, lo, hi)
  BY <1>1, SMT DEF Inside, Fenced
<1>4. \/ Fenced(at + (cursor - half), n, lo, hi) \in {lo, hi - n}
      \/ Fenced(at + (cursor - half), n, lo, hi) = at + (cursor - half)
  BY <1>1, SMT DEF Fenced
<1>5. ASSUME NEW x \in Int, x = at + (cursor - half)
      PROVE  Distance(2 * x + n, 2 * cursor) <= 1
  BY <1>1, <1>5, SMT DEF Distance
<1>6. at + (cursor - half) \in Int
  BY <1>1
<1>7. QED
  BY <1>2, <1>3, <1>4, <1>5, <1>6
=============================================================================
