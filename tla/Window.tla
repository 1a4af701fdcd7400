------------------------------- MODULE Window -------------------------------
(***************************************************************************)
(* The base class of both windows (src/source/src/utils/window.hpp): how   *)
(* create hands the object over to the window procedure through the static *)
(* "storage", which semaphore_create protects, how the window is bound to  *)
(* the object, and how it leaves it.  Every window of the program is       *)
(* created and destroyed by the main thread; other threads read hwnd.      *)
(*                                                                         *)
(* The operators are parts of the actions of Program, which says when they *)
(* happen.                                                                 *)
(***************************************************************************)
CONSTANTS
  Windows,  \* the objects of classes derived from window
  Handles   \* window handles the system gives, and gives again

VARIABLES
  hwnd,             \* __hwnd of each object
  semaphore_create, \* 1 if it can be acquired
  storage,          \* the object being created
  creating,         \* the object create is at work for, and how far
  userdata          \* external: GWLP_USERDATA of each of the system's windows

windowing == <<hwnd, semaphore_create, storage, creating, userdata>>

ASSUME WindowsAssumption ==
  "none" \notin Windows /\ {"null", "gone"} \intersect (Windows \union Handles) = {}

Points == {"none", "entered", "bound"}

WindowTypeOK ==
  /\ hwnd \in [Windows -> Handles \union {"null"}]
  /\ semaphore_create \in {0, 1}
  /\ storage \in Windows \union {"null"}
  /\ creating \in [window : Windows \union {"none"}, at : Points]
  /\ userdata \in [Handles -> Windows \union {"null", "gone"}]

NotCreating == [window |-> "none", at |-> "none"]
Creating(w, at) == creating = [window |-> w, at |-> at]

WindowInit ==
  /\ hwnd = [w \in Windows |-> "null"]
  /\ semaphore_create = 1
  /\ storage = "null"
  /\ creating = NotCreating
  /\ userdata = [h \in Handles |-> "gone"]

\* create: a window the object still has is destroyed first; then the semaphore is
\* acquired, storage is set and the class registered, if it is not yet.
Enter(w) ==
  /\ creating = NotCreating /\ semaphore_create = 1
  /\ semaphore_create' = 0
  /\ storage' = w
  /\ creating' = [window |-> w, at |-> "entered"]
  /\ hwnd' = [hwnd EXCEPT ![w] = "null"]
  /\ userdata' = [h \in Handles |-> IF h = hwnd[w] THEN "gone" ELSE userdata[h]]

\* CreateWindowExW fails before it has sent a message: storage is left as it is.
Refused(w) ==
  /\ Creating(w, "entered")
  /\ semaphore_create' = 1
  /\ creating' = NotCreating
  /\ UNCHANGED <<hwnd, storage, userdata>>

\* The first message of a window finds no GWLP_USERDATA and takes the stored object.
Released_Not(s) == s
Released(s) == 1

FirstMessage(w) ==
  /\ Creating(w, "entered")
  /\ \E h \in Handles :
       /\ userdata[h] = "gone"
       /\ userdata' = [userdata EXCEPT ![h] = storage]
       /\ hwnd' = [hwnd EXCEPT ![storage] = h]
  /\ storage' = "null"
  /\ semaphore_create' = Released(semaphore_create)
  /\ creating' = [creating EXCEPT !.at = "bound"]

\* WM_CREATE was answered with success.
Created(w) ==
  /\ Creating(w, "bound")
  /\ creating' = NotCreating
  /\ UNCHANGED <<hwnd, semaphore_create, storage, userdata>>

\* DestroyWindow, up to WM_NCDESTROY.
Gone(ws) ==
  /\ hwnd' = [w \in Windows |-> IF w \in ws THEN "null" ELSE hwnd[w]]
  /\ userdata' = [h \in Handles |-> IF userdata[h] \in ws THEN "gone" ELSE userdata[h]]
  /\ UNCHANGED <<semaphore_create, storage, creating>>

\* WM_CREATE was answered with failure: the system destroys the window and create,
\* which gets no handle, releases the semaphore that the first message had released.
\* (A binary_semaphore keeps no more than one.)
Declined(w) ==
  /\ Creating(w, "bound")
  /\ hwnd' = [hwnd EXCEPT ![w] = "null"]
  /\ userdata' = [h \in Handles |-> IF userdata[h] = w THEN "gone" ELSE userdata[h]]
  /\ semaphore_create' = 1
  /\ creating' = NotCreating
  /\ UNCHANGED storage
=============================================================================
