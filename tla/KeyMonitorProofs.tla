-------------------------- MODULE KeyMonitorProofs --------------------------
(***************************************************************************)
(* Replacing the monitor is safe for any keys, addresses and kinds: only    *)
(* the monitor in use reports, and none is destroyed with a thread inside.  *)
(***************************************************************************)
EXTENDS KeyMonitor, FiniteSetTheorems, TLAPS

\* Which monitors exist at each point of a switch, and who may report.
Places ==
  /\ next \in live
  /\ pc \in {"idle", "made", "oldReset", "joining", "joined"}
  /\ pc = "idle" => live = {implement} /\ implement = next /\ callback[implement]
  /\ pc \in {"made", "oldReset"} => next # implement /\ live \subseteq {implement, next}
  /\ pc = "joining" => implement = next
  /\ pc = "joined" => implement = next /\ live = {implement}

Reporter ==
  \A a \in Addrs : callback[a] => a \in live /\ a = implement /\ pc \in {"idle", "made"}

\* A monitor whose threads have returned rests, and so does one that is gone.
AtRest ==
  \A a \in Addrs : (a \notin live \/ ended[a]) => Resting(a) /\ inbox[a] = {} /\ ~hooked[a]

Shape ==
  /\ shown \in SUBSET Keyboard
  /\ playing \in SUBSET shown
  /\ live \subseteq Addrs
  /\ kind \in [Addrs -> AllKinds]
  /\ callback \in [Addrs -> BOOLEAN]
  /\ calls \in [Addrs -> SUBSET Event]
  /\ left \in [Addrs -> SUBSET Items]
  /\ mouseDue \in [Addrs -> BOOLEAN]
  /\ hooked \in [Addrs -> BOOLEAN]
  /\ inbox \in [Addrs -> SUBSET Event]
  /\ ended \in [Addrs -> BOOLEAN]

\* An item is reported as a key.
LEMMA ItemKey == \A x \in Items : KeyOf(x) \in Keys
  BY CodesAssumption DEF Items, Listed, KeyOf, Keys

\* A key is an item reported as itself.
LEMMA KeyItem == \A k \in Keys : k \notin Codes /\ KeyOf(k) = k
  BY CodesAssumption DEF KeyOf

IInv == Shape /\ Places /\ Reporter /\ AtRest

\* The inductive invariant is what the two properties need.
LEMMA IInvImplies == IInv => OneReporter /\ NoCallFromDestroyed
  BY DEF IInv, Shape, Places, Reporter, AtRest, OneReporter, NoCallFromDestroyed

\* The first monitor exists, in the state in which a switch begins.
LEMMA InitIInv == Init => IInv
  BY AddrsAssumption DEF Init, AllKinds, IInv, Shape, Places, Reporter, AtRest, Resting, Event, Keys

\* User input only fills the inboxes of installed hooks.
LEMMA UserStep == IInv /\ User => IInv'
<1> SUFFICES ASSUME IInv, NEW k \in Keys, NEW d \in BOOLEAN, Message(k, d),
                    UNCHANGED <<is_down, calls, poll, hooked, ended, manager, game>>
             PROVE  IInv'
  BY DEF User, Press, Release, Repeat, environment
<1>1. [key |-> k, down |-> d] \in Event
  BY DEF Event
<1>2. inbox' \in [Addrs -> SUBSET Event]
  BY <1>1 DEF Message
<1>3. \A a \in Addrs : ~hooked[a] => inbox'[a] = {}
  BY DEF Message
<1>4. Shape' /\ Places' /\ Reporter'
  BY <1>2 DEF IInv, Shape, Places, Reporter, poll, manager, game
<1>5. AtRest'
  BY <1>3 DEF IInv, Shape, AtRest, Resting, poll, manager
<1> QED BY <1>4, <1>5 DEF IInv

\* Neither does the game's memory touch a monitor.
LEMMA GameStep == IInv /\ Game => IInv'
  BY DEF Game, GameShows, IInv, Shape, Places, Reporter, AtRest, Resting, threads,
         poll, manager

\* Finding a change adds an event to the calls of its own monitor only.
LEMMA FoundChange ==
  ASSUME Shape, NEW b \in Addrs, NEW k \in Keys, NEW d \in BOOLEAN,
         OnLowLevelKey(b, k, d) \/ UNCHANGED <<is_down, calls>>
  PROVE  /\ calls' \in [Addrs -> SUBSET Event]
         /\ \A a \in Addrs : a # b => calls'[a] = calls[a]
<1>1. [key |-> k, down |-> d] \in Event
  BY DEF Event
<1> QED BY <1>1 DEF OnLowLevelKey, Shape

\* A monitor thread works only in a monitor that lives and has not ended.
LEMMA MonitorStepIInv == ASSUME IInv, NEW b \in Addrs, MonitorStep(b) PROVE IInv'
<1> USE DEF environment, game
<1>1. CASE BeginRound(b)
  <2>1. Reads(b).items \in SUBSET Items
    BY <1>1 DEF BeginRound, Reads, AllKinds, Keys, Items, IInv, Shape
  <2> QED BY <1>1, <2>1
    DEF BeginRound, IInv, Shape, Places, Reporter, AtRest, Resting, manager
<1>2. CASE ReadMouse(b)
  BY <1>2 DEF ReadMouse, IInv, Shape, Places, Reporter, AtRest, Resting, Keys, Items, manager
<1>3. CASE MouseFails(b)
  BY <1>3 DEF MouseFails, IInv, Shape, Places, Reporter, AtRest, Resting, manager
<1>4. ASSUME NEW x \in left[b], Visit(b, x) PROVE IInv'
  <2>1. calls' \in [Addrs -> SUBSET Event] /\ \A a \in Addrs : a # b => calls'[a] = calls[a]
    <3> DEFINE d == x \in (IF kind[b] = "async" THEN held ELSE shot[b])
    <3>1. OnLowLevelKey(b, KeyOf(x), d) /\ d \in BOOLEAN
      BY <1>4 DEF Visit
    <3>2. KeyOf(x) \in Keys
      BY ItemKey DEF IInv, Shape
    <3> HIDE DEF d
    <3> QED BY <3>1, <3>2, FoundChange DEF IInv
  <2>2. b \in live /\ ~ended[b]
    BY <1>4 DEF Visit, IInv, AtRest, Resting
  <2> QED BY <1>4, <2>1, <2>2
    DEF Visit, IInv, Shape, Places, Reporter, AtRest, Resting, manager
<1>5. ASSUME NEW m \in inbox[b], HookCall(b, m) PROVE IInv'
  <2>1. calls' \in [Addrs -> SUBSET Event] /\ \A a \in Addrs : a # b => calls'[a] = calls[a]
    <3>1. m.key \in Keys /\ m.down \in BOOLEAN
      BY DEF Event, IInv, Shape
    <3>2. OnLowLevelKey(b, m.key, m.down) \/ UNCHANGED <<is_down, calls>>
      BY <1>5 DEF HookCall
    <3> QED BY <3>1, <3>2, FoundChange DEF IInv
  <2>2. b \in live /\ ~ended[b]
    BY <1>5 DEF HookCall, IInv, AtRest
  <2> QED BY <1>5, <2>1, <2>2
    DEF HookCall, IInv, Shape, Places, Reporter, AtRest, Resting, poll, manager
<1>6. ASSUME NEW e \in calls[b], Deliver(b, e) PROVE IInv'
  BY <1>6 DEF Deliver, IInv, Shape, Places, Reporter, AtRest, Resting, poll, manager
<1>7. CASE InstallHook(b)
  BY <1>7 DEF InstallHook, IInv, Shape, Places, Reporter, AtRest, Resting, poll, manager
<1>8. CASE End(b)
  BY <1>8 DEF End, IInv, Shape, Places, Reporter, AtRest, Resting, poll, manager
<1> QED BY <1>1, <1>2, <1>3, <1>4, <1>5, <1>6, <1>7, <1>8 DEF MonitorStep

\* A new monitor takes an address whose previous monitor is gone and at rest.
LEMMA MakeStep == ASSUME IInv, NEW t \in Kinds, NEW b \in Addrs, Make(t, b) PROVE IInv'
<1>1. shown' \in SUBSET Keyboard /\ playing' \in SUBSET shown'
  BY DEF Make, GameShows, IInv, Shape
<1> QED BY <1>1, KindsAssumption DEF Make, IInv, Shape, Places, Reporter, AtRest, Resting, poll

\* The switch clears the old callback before it joins, and sets the new one after.
LEMMA SwitchStep == IInv /\ Switching => IInv'
<1> SUFFICES ASSUME IInv, Switching PROVE IInv'
  OBVIOUS
<1> USE DEF environment, game
<1>1. CASE ResetOld
  BY <1>1 DEF ResetOld, AfterReset, IInv, Shape, Places, Reporter, AtRest, Resting,
              threads, poll
<1>2. CASE Assign
  BY <1>2 DEF Assign, IInv, Shape, Places, Reporter, AtRest, Resting, threads, poll
<1>3. CASE Join
  <2>1. \A a \in Addrs \ {implement} : Resting(a) /\ inbox[a] = {} /\ ~hooked[a]
    BY <1>3 DEF Join, Joinable, IInv, Shape, AtRest
  <2>2. AtRest'
    BY <1>3, <2>1 DEF Join, IInv, Places, AtRest, Resting, threads, poll
  <2> QED BY <1>3, <2>2 DEF Join, IInv, Shape, Places, Reporter, threads, poll
<1>4. CASE SetCallback
  BY <1>4 DEF SetCallback, IInv, Shape, Places, Reporter, AtRest, Resting, threads, poll
<1> QED BY <1>1, <1>2, <1>3, <1>4 DEF Switching

\* The invariant is inductive.
LEMMA NextIInv == IInv /\ [Next]_vars => IInv'
<1> SUFFICES ASSUME IInv, [Next]_vars PROVE IInv'
  OBVIOUS
<1>1. CASE UNCHANGED vars
  BY <1>1 DEF IInv, Shape, Places, Reporter, AtRest, Resting, vars, threads, poll, manager,
              environment, game
<1> QED BY <1>1, UserStep, GameStep, MonitorStepIInv, MakeStep, SwitchStep DEF Next

\* It holds in every reachable state.
LEMMA Invariance == Spec => []IInv
  BY InitIInv, NextIInv, PTL DEF Spec

\* Two monitors never both report, outside a switch one does (key_monitor::set_implement),
\* and no thread runs inside a monitor that has been destroyed: the destructors join
\* whatever the threads were doing.  For any number of keys, addresses and kinds.
THEOREM ReportsAreExclusive == Spec => []ReporterIsAlone
<1>1. IInv => ReporterIsAlone
  BY IInvImplies DEF ReporterIsAlone
<1> QED BY <1>1, Invariance, PTL
-----------------------------------------------------------------------------
(* Types *)

\* A hook's inbox has at most one message: the inbox of every hook that is installed is
\* filled at once.
Pending == \A a \in Addrs : Cardinality(inbox[a]) <= 1

\* Two changes found by threads of one device are never under way together.
OnePerThread ==
  \A a \in Addrs : \A e, f \in calls[a] : Device(e.key) = Device(f.key) => e = f

\* What remains of the type invariant beside Shape and Places.
Data ==
  /\ held \in SUBSET Keys
  /\ presses \in [Keys -> 0 .. MaxPresses]
  /\ plays \in [Keys -> 0 .. MaxPlays]
  /\ is_down \in [Addrs -> SUBSET Keys]
  /\ shot \in [Addrs -> SUBSET (Keys \union Codes)]
  /\ implement \in Addrs \union {"none"}
  /\ next \in Addrs
  /\ switches \in 0 .. MaxSwitches
  /\ down \in SUBSET Keys
  /\ count \in [Keys -> Nat]

LEMMA TypeParts == TypeOK <=> Shape /\ pc \in {"idle", "made", "oldReset", "joining", "joined"}
                                /\ Pending /\ OnePerThread /\ Data
  BY DEF TypeOK, Shape, Pending, OnePerThread, Data

Typed == Pending /\ OnePerThread /\ Data

LEMMA SetsOfOne ==
  /\ Cardinality({}) <= 1
  /\ \A x : Cardinality({x}) <= 1
  BY FS_EmptySet, FS_Singleton

LEMMA InitTyped == Init => Typed
<1> SUFFICES ASSUME Init PROVE Typed
  OBVIOUS
<1>1. Pending
  BY SetsOfOne DEF Init, Pending
<1>2. OnePerThread
  BY DEF Init, OnePerThread
<1>3. Data
  <2>1. next \in Addrs
    BY AddrsAssumption DEF Init
  <2> QED BY <2>1, BoundsAssumption, SMT DEF Init, Data, Keys
<1> QED BY <1>1, <1>2, <1>3 DEF Typed

\* A message of the system.
LEMMA UserTyped == IInv /\ Typed /\ User => Typed'
<1> SUFFICES ASSUME IInv, Typed, User PROVE Typed'
  OBVIOUS
<1>1. PICK k \in Keys : Press(k) \/ Release(k) \/ Repeat(k)
  BY DEF User
<1>2. PICK d \in BOOLEAN : Message(k, d)
  BY <1>1 DEF Press, Release, Repeat
<1>3. Pending'
  BY <1>2, SetsOfOne DEF Message, Pending
<1>4. OnePerThread'
  BY <1>1 DEF Press, Release, Repeat, Typed, OnePerThread
<1>5. held' \in SUBSET Keys /\ presses' \in [Keys -> 0 .. MaxPresses]
  <2>1. CASE Press(k)
    <3>1. presses[k] + 1 \in 0 .. MaxPresses
      BY <2>1, BoundsAssumption DEF Press, Typed, Data
    <3> QED BY <2>1, <3>1 DEF Press, Typed, Data
  <2>2. CASE Release(k)
    BY <2>2 DEF Release, Typed, Data
  <2>3. CASE Repeat(k)
    BY <2>3 DEF Repeat, Typed, Data, environment
  <2> QED BY <1>1, <2>1, <2>2, <2>3
<1>6. Data'
  BY <1>1, <1>5 DEF Press, Release, Repeat, Typed, Data, poll, manager, receiver, game, environment
<1> QED BY <1>3, <1>4, <1>6 DEF Typed

LEMMA GameTyped == Typed /\ Game => Typed'
<1> SUFFICES ASSUME Typed, Game PROVE Typed'
  OBVIOUS
<1>1. Pending' /\ OnePerThread'
  BY DEF Game, Typed, Pending, OnePerThread, threads
<1>2. plays' \in [Keys -> 0 .. MaxPlays]
  <2>1. ASSUME NEW k \in Keys PROVE plays'[k] \in 0 .. MaxPlays
    <3>1. plays[k] \in 0 .. MaxPlays /\ plays'[k] <= MaxPlays
          /\ plays'[k] = plays[k] + IF k \in playing' \ playing THEN 1 ELSE 0
      BY DEF Game, Typed, Data
    <3> QED BY <3>1, BoundsAssumption
  <2> QED BY <2>1 DEF Game
<1>3. Data'
  BY <1>2 DEF Game, Typed, Data, threads, poll, manager, receiver
<1> QED BY <1>1, <1>3 DEF Typed

\* A found change is the only one of its thread, whose previous call is over.
LEMMA FoundTyped ==
  ASSUME Shape, Typed, NEW b \in Addrs, NEW k \in Keys, NEW d \in BOOLEAN,
         OnLowLevelKey(b, k, d) \/ UNCHANGED <<is_down, calls>>,
         \A e \in calls[b] : Device(e.key) # Device(k)
  PROVE  is_down' \in [Addrs -> SUBSET Keys] /\ OnePerThread'
<1>1. CASE OnLowLevelKey(b, k, d) /\ Changed(b, k, d)
  <2>1. is_down' \in [Addrs -> SUBSET Keys]
    BY <1>1 DEF OnLowLevelKey, Typed, Data
  <2>2. \A a \in Addrs : calls'[a] = IF a = b THEN calls[b] \union {[key |-> k, down |-> d]} ELSE calls[a]
    BY <1>1 DEF OnLowLevelKey, Shape
  <2>3. OnePerThread'
    BY <2>2 DEF OnePerThread, Typed
  <2> QED BY <2>1, <2>3
<1>2. CASE UNCHANGED <<is_down, calls>> \/ ~Changed(b, k, d)
  BY <1>2 DEF OnLowLevelKey, Typed, Data, OnePerThread
<1> QED BY <1>1, <1>2

LEMMA MonitorTyped == ASSUME IInv, Typed, NEW b \in Addrs, MonitorStep(b) PROVE Typed'
<1>1. CASE BeginRound(b)
  <2>1. Reads(b).downs \in SUBSET (Keys \union Codes)
    BY <1>1 DEF BeginRound, Reads, AllKinds, IInv, Shape, Typed, Data, Keys
  <2> QED BY <1>1, <2>1 DEF BeginRound, Typed, Pending, OnePerThread, Data, environment, game, manager, receiver
<1>2. CASE ReadMouse(b)
  BY <1>2 DEF ReadMouse, Typed, Pending, OnePerThread, Data, environment, game, manager, receiver
<1>3. CASE MouseFails(b)
  BY <1>3 DEF MouseFails, Typed, Pending, OnePerThread, Data, environment, game, manager, receiver
<1>4. ASSUME NEW x \in left[b], Visit(b, x) PROVE Typed'
  <2>1. is_down' \in [Addrs -> SUBSET Keys] /\ OnePerThread'
    <3> DEFINE d == x \in (IF kind[b] = "async" THEN held ELSE shot[b])
    <3>1. OnLowLevelKey(b, KeyOf(x), d) /\ d \in BOOLEAN /\ calls[b] = {}
      BY <1>4 DEF Visit
    <3>2. KeyOf(x) \in Keys
      BY ItemKey DEF IInv, Shape
    <3> HIDE DEF d
    <3> QED BY <3>1, <3>2, FoundTyped DEF IInv
  <2> QED BY <1>4, <2>1 DEF Visit, Typed, Pending, Data, environment, game, manager, receiver
<1>5. ASSUME NEW m \in inbox[b], HookCall(b, m) PROVE Typed'
  <2>1. is_down' \in [Addrs -> SUBSET Keys] /\ OnePerThread'
    <3>1. m.key \in Keys /\ m.down \in BOOLEAN
      BY DEF Event, IInv, Shape
    <3>2. /\ OnLowLevelKey(b, m.key, m.down) \/ UNCHANGED <<is_down, calls>>
          /\ \A e \in calls[b] : Device(e.key) # Device(m.key)
      BY <1>5 DEF HookCall
    <3> QED BY <3>1, <3>2, FoundTyped DEF IInv
  <2>2. Pending'
    BY <1>5, SetsOfOne DEF HookCall, Typed, Pending, IInv, Shape
  <2> QED BY <1>5, <2>1, <2>2 DEF HookCall, Typed, Data, poll, environment, game, manager, receiver
<1>6. ASSUME NEW e \in calls[b], Deliver(b, e) PROVE Typed'
  <2>1. Pending' /\ OnePerThread'
    BY <1>6 DEF Deliver, Typed, Pending, OnePerThread, IInv, Shape
  <2>2. down' \in SUBSET Keys /\ count' \in [Keys -> Nat]
    <3>1. e.key \in Keys /\ e.down \in BOOLEAN
      BY DEF Event, IInv, Shape
    <3> QED BY <1>6, <3>1 DEF Deliver, Counted, Typed, Data, receiver
  <2> QED BY <1>6, <2>1, <2>2 DEF Deliver, Typed, Data, poll, environment, game, manager
<1>7. CASE InstallHook(b)
  BY <1>7 DEF InstallHook, Typed, Pending, OnePerThread, Data, poll, environment, game, manager, receiver
<1>8. CASE End(b)
  <2>1. Pending'
    BY <1>8, SetsOfOne DEF End, Typed, Pending, IInv, Shape
  <2> QED BY <1>8, <2>1 DEF End, Typed, OnePerThread, Data, poll, environment, game, manager, receiver
<1> QED BY <1>1, <1>2, <1>3, <1>4, <1>5, <1>6, <1>7, <1>8 DEF MonitorStep

LEMMA MakeTyped == ASSUME Typed, NEW t \in Kinds, NEW b \in Addrs, Make(t, b) PROVE Typed'
<1>1. Pending' /\ OnePerThread'
  BY DEF Make, Typed, Pending, OnePerThread
<1>2. Data'
  BY BoundsAssumption DEF Make, Typed, Data, poll, environment, game, receiver
<1> QED BY <1>1, <1>2 DEF Typed

LEMMA SwitchTyped == Typed /\ Switching => Typed'
  BY DEF Switching, ResetOld, Assign, Join, SetCallback, Typed, Pending, OnePerThread, Data,
         threads, poll, environment, game, receiver

LEMMA TypedInvariance == Spec => [](IInv /\ Typed)
<1>1. IInv /\ Typed /\ [Next]_vars => Typed'
  <2> SUFFICES ASSUME IInv, Typed, [Next]_vars PROVE Typed'
    OBVIOUS
  <2>1. CASE UNCHANGED vars
    BY <2>1 DEF Typed, Pending, OnePerThread, Data, vars, threads, poll, environment, game, manager, receiver
  <2> QED BY <2>1, UserTyped, GameTyped, MonitorTyped, MakeTyped, SwitchTyped DEF Next
<1> QED BY <1>1, InitTyped, Invariance, PTL DEF Spec

\* Every variable keeps its type; a hook's thread is called for one message at a time, and no
\* thread finds a change while its previous one is under way.
THEOREM Typing == Spec => []TypeOK
<1>1. IInv /\ Typed => TypeOK
  BY TypeParts DEF IInv, Places, Typed
<1> QED BY <1>1, TypedInvariance, PTL
-----------------------------------------------------------------------------
(* Presses counted *)

\* A key is counted when the monitor in use finds it down, so a monitor still owes the
\* receiver a key that its threads have found, have seen and will find, or will see
\* later because its source has it down.
Truth(a) == IF kind[a] = "memory" THEN playing ELSE held

Found(a, k) == [key |-> k, down |-> TRUE] \in calls[a]

SeenDown(a, k) ==
  \/ kind[a] # "async" /\ \E x \in left[a] : KeyOf(x) = k /\ x \in shot[a]
  \/ [key |-> k, down |-> TRUE] \in inbox[a]

ReadUp(a, k) == kind[a] # "async" /\ \E x \in left[a] : KeyOf(x) = k /\ x \notin shot[a]

SeenUp(a, k) ==
  \/ ReadUp(a, k)
  \/ [key |-> k, down |-> FALSE] \in inbox[a]

Rise(a, k) == SeenDown(a, k) /\ k \notin is_down[a]
Later(a, k) == k \in Truth(a) /\ (SeenUp(a, k) \/ (~SeenDown(a, k) /\ k \notin is_down[a]))

Owes(a, k) == Found(a, k) \/ Rise(a, k) \/ Later(a, k)

\* Delivering what was found settles the debt: the key is marked down and was not read up.
CallsMarked == \A a \in Addrs, k \in OwnCodes : Found(a, k) => k \in is_down[a] /\ ~ReadUp(a, k)

InboxFresh ==
  \A a \in Addrs, k \in Keys, d \in BOOLEAN : [key |-> k, down |-> d] \in inbox[a] => (d <=> k \in held)

KindsApart ==
  \A a \in Addrs :
    /\ kind[a] = "hook" => left[a] = {}
    /\ kind[a] # "hook" => inbox[a] = {} /\ ~hooked[a]
    /\ mouseDue[a] => kind[a] = "dinput"
    /\ kind[a] # "dinput" => left[a] \subseteq Keys

\* The items of one key that are left to visit were read alike.
Agree ==
  \A a \in Addrs, k \in OwnCodes : \A x, y \in left[a] :
    kind[a] # "async" /\ KeyOf(x) = k /\ KeyOf(y) = k => (x \in shot[a] <=> y \in shot[a])

Sound == CallsMarked /\ InboxFresh /\ KindsApart /\ Agree

\* What has been counted and is owed is within the bound.  While the old monitor still
\* reports, the switch under way is left for what the new one will owe.
One(b) == IF b THEN 1 ELSE 0
Bound(k) == presses[k] + plays[k] + switches
OldReports == pc = "made" /\ implement # "none"
Payer == IF OldReports THEN implement ELSE next
Spent(k) == count[k] + One(Owes(Payer, k)) + One(OldReports)
Budget == \A k \in OwnCodes : Spent(k) <= Bound(k)

Natural ==
  /\ switches \in Nat
  /\ \A k \in Keys : count[k] \in Nat /\ presses[k] \in Nat /\ plays[k] \in Nat

LEMMA TypedNatural == Typed => Natural
  BY BoundsAssumption DEF Typed, Data, Natural

\* A key with its own codes is a key.
LEMMA OwnKeys == OwnCodes \subseteq Keys
  BY DEF OwnCodes

\* What a monitor owes depends on its own state, the keys and the game only.
LEMMA OwesSame ==
  ASSUME NEW a, NEW k, kind'[a] = kind[a], calls'[a] = calls[a], is_down'[a] = is_down[a],
         left'[a] = left[a], shot'[a] = shot[a], inbox'[a] = inbox[a], held' = held, playing' = playing
  PROVE  Owes(a, k)' <=> Owes(a, k)
<1>1. Found(a, k)' <=> Found(a, k)
  BY DEF Found
<1>2. (SeenDown(a, k)' <=> SeenDown(a, k)) /\ (SeenUp(a, k)' <=> SeenUp(a, k)) /\ Truth(a)' = Truth(a)
  BY DEF SeenDown, SeenUp, ReadUp, Truth
<1>3. (Rise(a, k)' <=> Rise(a, k)) /\ (Later(a, k)' <=> Later(a, k))
  BY <1>2 DEF Rise, Later
<1> QED BY <1>1, <1>3 DEF Owes

\* Nobody owes a key that it did not owe before.
NoMore == \A a \in Addrs, k \in OwnCodes : Owes(a, k)' => Owes(a, k)

\* A step of one monitor leaves the others what they owe.
LEMMA NoMoreByOne ==
  ASSUME NEW b \in Addrs, kind' = kind, held' = held, playing' = playing,
         \A a \in Addrs : a # b => /\ calls'[a] = calls[a] /\ is_down'[a] = is_down[a]
                                   /\ left'[a] = left[a] /\ shot'[a] = shot[a] /\ inbox'[a] = inbox[a],
         \A k \in OwnCodes : Owes(b, k)' => Owes(b, k)
  PROVE  NoMore
<1> SUFFICES ASSUME NEW a \in Addrs, NEW k \in OwnCodes, Owes(a, k)' PROVE Owes(a, k)
  BY DEF NoMore
<1>1. CASE a = b
  BY <1>1
<1>2. CASE a # b
  BY <1>2, OwesSame
<1> QED BY <1>1, <1>2

\* It leaves them sound, too.
LEMMA SoundByOne ==
  ASSUME Sound, NEW b \in Addrs, UNCHANGED <<kind, held>>,
         \A a \in Addrs : a # b => /\ calls'[a] = calls[a] /\ is_down'[a] = is_down[a]
                                   /\ left'[a] = left[a] /\ shot'[a] = shot[a] /\ inbox'[a] = inbox[a]
                                   /\ hooked'[a] = hooked[a] /\ mouseDue'[a] = mouseDue[a],
         \A k \in OwnCodes : Found(b, k)' => k \in is_down'[b] /\ ~ReadUp(b, k)',
         inbox'[b] \subseteq inbox[b],
         kind[b] = "hook" => left'[b] = {},
         kind[b] # "hook" => inbox'[b] = {} /\ ~hooked'[b],
         mouseDue'[b] => kind[b] = "dinput",
         kind[b] # "dinput" => left'[b] \subseteq Keys,
         \A k \in OwnCodes, x, y \in left'[b] :
           kind[b] # "async" /\ KeyOf(x) = k /\ KeyOf(y) = k => (x \in shot'[b] <=> y \in shot'[b])
  PROVE  Sound'
<1>1. CallsMarked'
  <2> SUFFICES ASSUME NEW a \in Addrs, NEW k \in OwnCodes, Found(a, k)'
               PROVE  k \in is_down'[a] /\ ~ReadUp(a, k)'
    BY DEF CallsMarked, OwnCodes
  <2>1. CASE a # b
    BY <2>1 DEF Found, SeenUp, ReadUp, Sound, CallsMarked
  <2> QED BY <2>1
<1>2. InboxFresh'
  <2> SUFFICES ASSUME NEW a \in Addrs, NEW k \in Keys, NEW d \in BOOLEAN, [key |-> k, down |-> d] \in inbox'[a]
               PROVE  d <=> k \in held
    BY DEF InboxFresh
  <2>1. [key |-> k, down |-> d] \in inbox[a]
    OBVIOUS
  <2> QED BY <2>1 DEF Sound, InboxFresh
<1>3. KindsApart'
  BY DEF Sound, KindsApart
<1>4. Agree'
  <2> SUFFICES ASSUME NEW a \in Addrs, NEW k \in OwnCodes, NEW x \in left'[a], NEW y \in left'[a],
                      kind[a] # "async", KeyOf(x) = k, KeyOf(y) = k
               PROVE  x \in shot'[a] <=> y \in shot'[a]
    BY DEF Agree, OwnCodes, KeyOf
  <2>1. CASE a # b
    BY <2>1 DEF Sound, Agree
  <2> QED BY <2>1
<1> QED BY <1>1, <1>2, <1>3, <1>4 DEF Sound

\* A visit of b finds the key of x in the state d, and the thread has no call under way.
LEMMA VisitOwes ==
  ASSUME Shape, Typed, Sound, NEW b \in Addrs, NEW x \in left[b], Visit(b, x)
  PROVE  NoMore /\ Sound'
<1> DEFINE d == x \in (IF kind[b] = "async" THEN held ELSE shot[b])
<1>1. PICK k \in Keys : k = KeyOf(x)
  BY ItemKey DEF Shape
<1>2. OnLowLevelKey(b, k, d) /\ d \in BOOLEAN /\ calls[b] = {}
  BY <1>1 DEF Visit
<1>3. UNCHANGED <<held, playing, kind, inbox, hooked, mouseDue>>
  BY DEF Visit, environment, game, manager
<1>4. left'[b] = left[b] \ {x} /\ shot'[b] = shot[b] \ {x}
      /\ \A a \in Addrs : a # b => left'[a] = left[a] /\ shot'[a] = shot[a]
  BY DEF Visit, Shape, Typed, Data
<1>5. /\ is_down'[b] = IF d THEN is_down[b] \union {k} ELSE is_down[b] \ {k}
      /\ calls'[b] = IF d # (k \in is_down[b]) THEN {[key |-> k, down |-> d]} ELSE {}
      /\ \A a \in Addrs : a # b => is_down'[a] = is_down[a] /\ calls'[a] = calls[a]
  <2>1. is_down \in [Addrs -> SUBSET Keys] /\ calls \in [Addrs -> SUBSET Event]
    BY DEF Shape, Typed, Data
  <2>2. d # (k \in is_down[b]) <=> Changed(b, k, d)
    BY DEF Changed
  <2> HIDE DEF d
  <2>3. CASE Changed(b, k, d)
    BY <1>2, <2>1, <2>2, <2>3 DEF OnLowLevelKey
  <2>4. CASE ~Changed(b, k, d)
    <3>1. is_down' = is_down /\ calls' = calls
      BY <1>2, <2>4 DEF OnLowLevelKey
    <3>2. d <=> k \in is_down[b]
      BY <1>2, <2>2, <2>4
    <3> QED BY <1>2, <2>1, <3>1, <3>2
  <2> QED BY <2>3, <2>4
<1>6. kind[b] # "hook" /\ inbox[b] = {} /\ Truth(b)' = Truth(b)
  BY <1>3 DEF Sound, KindsApart, Truth
<1>7. (kind[b] # "async" /\ (d <=> x \in shot[b])) \/ (kind[b] = "async" /\ k = x /\ Truth(b) = held /\ (d <=> k \in held))
  <2>1. CASE kind[b] = "async"
    <3>1. x \in Keys
      BY <2>1 DEF Sound, KindsApart
    <3> QED BY <1>1, <2>1, <3>1, KeyItem DEF Truth
  <2>2. CASE kind[b] # "async"
    BY <2>2
  <2> QED BY <2>1, <2>2
<1> HIDE DEF d
<1>8. ASSUME NEW j \in OwnCodes, kind[b] # "async", d <=> x \in shot[b], j = k
      PROVE  IF d THEN SeenDown(b, j) /\ ~SeenUp(b, j)' ELSE SeenUp(b, j) /\ ~SeenDown(b, j)'
  <2>1. \A y \in left[b] : KeyOf(y) = j => (y \in shot[b] <=> d)
    BY <1>1, <1>8 DEF Sound, Agree
  <2>2. \A y : y \in left'[b] => y \in left[b] /\ (y \in shot'[b] <=> y \in shot[b])
    BY <1>4
  <2>3. d => SeenDown(b, j)
    BY <1>1, <1>8 DEF SeenDown
  <2>4. ~d => SeenUp(b, j)
    BY <1>1, <1>8 DEF SeenUp, ReadUp
  <2>5. d => ~SeenUp(b, j)'
    BY <1>3, <1>6, <2>1, <2>2 DEF SeenUp, ReadUp
  <2>6. ~d => ~SeenDown(b, j)'
    BY <1>3, <1>6, <2>1, <2>2 DEF SeenDown
  <2> QED BY <2>3, <2>4, <2>5, <2>6
<1>9. ASSUME NEW j \in OwnCodes PROVE Owes(b, j)' => Owes(b, j)
  <2>0. Found(b, k)' <=> d /\ k \notin is_down[b]
    BY <1>2, <1>5 DEF Found
  <2>1. CASE j # k
    <3>1. ~Found(b, j)' /\ ~Found(b, j)
      BY <1>2, <1>5, <2>1 DEF Found
    <3>2. \A y : KeyOf(y) = j => (y \in left'[b] <=> y \in left[b]) /\ (y \in shot'[b] <=> y \in shot[b])
      BY <1>1, <1>4, <2>1
    <3>3. (SeenDown(b, j)' <=> SeenDown(b, j)) /\ (SeenUp(b, j)' <=> SeenUp(b, j))
      BY <1>3, <3>2 DEF SeenDown, SeenUp, ReadUp
    <3>4. j \in is_down'[b] <=> j \in is_down[b]
      BY <1>5, <2>1
    <3> QED BY <1>6, <3>1, <3>3, <3>4 DEF Owes, Rise, Later
  <2>2. CASE j = k /\ kind[b] # "async" /\ (d <=> x \in shot[b])
    <3>1. IF d THEN SeenDown(b, j) /\ ~SeenUp(b, j)' ELSE SeenUp(b, j) /\ ~SeenDown(b, j)'
      BY <1>8, <2>2
    <3>2. Found(b, j)' <=> d /\ j \notin is_down[b]
      BY <2>0, <2>2
    <3>3. j \in is_down'[b] <=> d
      BY <1>5, <2>2
    <3> QED BY <1>2, <1>6, <3>1, <3>2, <3>3 DEF Owes, Rise, Later
  <2>3. CASE j = k /\ kind[b] = "async" /\ Truth(b) = held /\ (d <=> k \in held)
    <3>1. ~SeenDown(b, j) /\ ~SeenUp(b, j) /\ ~SeenDown(b, j)' /\ ~SeenUp(b, j)'
      BY <1>3, <1>6, <2>3 DEF SeenDown, SeenUp, ReadUp
    <3>2. Found(b, j)' <=> d /\ j \notin is_down[b]
      BY <2>0, <2>3
    <3>3. j \in is_down'[b] <=> d
      BY <1>5, <2>3
    <3> QED BY <1>2, <1>6, <2>3, <3>1, <3>2, <3>3 DEF Owes, Rise, Later
  <2> QED BY <1>7, <2>1, <2>2, <2>3
<1>10. NoMore
  BY <1>3, <1>4, <1>5, <1>9, NoMoreByOne
<1>11. ASSUME NEW j \in OwnCodes, Found(b, j)' PROVE j \in is_down'[b] /\ ~ReadUp(b, j)'
  <2>1. j = k /\ d /\ j \in is_down'[b]
    BY <1>2, <1>5, <1>11 DEF Found
  <2>2. CASE kind[b] # "async" /\ (d <=> x \in shot[b])
    BY <1>8, <2>1, <2>2 DEF SeenUp
  <2>3. CASE kind[b] = "async"
    BY <1>3, <1>6, <2>1, <2>3 DEF SeenUp, ReadUp
  <2> QED BY <1>7, <2>1, <2>2, <2>3
<1>12. ASSUME NEW j \in OwnCodes, NEW y \in left'[b], NEW z \in left'[b], kind[b] # "async", KeyOf(y) = j, KeyOf(z) = j
       PROVE  y \in shot'[b] <=> z \in shot'[b]
  BY <1>4, <1>12 DEF Sound, Agree
<1>13. Sound'
  <2>1. /\ kind[b] # "hook" => inbox'[b] = {} /\ ~hooked'[b]
        /\ mouseDue'[b] => kind[b] = "dinput"
        /\ kind[b] # "dinput" => left'[b] \subseteq Keys
    BY <1>3, <1>4 DEF Sound, KindsApart
  <2> QED BY <1>3, <1>4, <1>5, <1>6, <1>11, <1>12, <2>1, SoundByOne
<1> QED BY <1>10, <1>13

\* The hook's thread is called for the message m, or passes over its button.
LEMMA HookOwes ==
  ASSUME Shape, Typed, Sound, NEW b \in Addrs, NEW m \in inbox[b], HookCall(b, m)
  PROVE  NoMore /\ Sound'
<1>1. PICK k \in Keys, d \in BOOLEAN : m = [key |-> k, down |-> d]
  BY DEF Event, Shape
<1>2. d <=> k \in held
  BY <1>1 DEF Sound, InboxFresh
<1>3. UNCHANGED <<held, playing, kind, shot, left, hooked, mouseDue>>
  BY DEF HookCall, environment, game, manager, poll
<1>4. inbox'[b] = {} /\ \A a \in Addrs : a # b => inbox'[a] = inbox[a]
  BY DEF HookCall, Shape
<1>5. /\ \/ /\ is_down'[b] = IF d THEN is_down[b] \union {k} ELSE is_down[b] \ {k}
            /\ calls'[b] = IF d # (k \in is_down[b]) THEN calls[b] \union {m} ELSE calls[b]
         \/ is_down'[b] = is_down[b] /\ calls'[b] = calls[b]
      /\ \A a \in Addrs : a # b => is_down'[a] = is_down[a] /\ calls'[a] = calls[a]
  <2>1. CASE UNCHANGED <<is_down, calls>>
    BY <2>1
  <2>2. CASE OnLowLevelKey(b, k, d)
    BY <1>1, <2>2 DEF OnLowLevelKey, Changed, Shape, Typed, Data
  <2> QED BY <1>1, <2>1, <2>2 DEF HookCall
<1>6. kind[b] = "hook" /\ left[b] = {} /\ left'[b] = {} /\ Truth(b) = held /\ Truth(b)' = held
  BY <1>3 DEF Sound, KindsApart, Truth
<1>7. ASSUME NEW j \in OwnCodes
      PROVE  /\ ~SeenDown(b, j)' /\ ~SeenUp(b, j)'
             /\ SeenDown(b, j) => j \in held
             /\ SeenUp(b, j) => j \notin held
             /\ j = k => (SeenDown(b, j) <=> d) /\ (SeenUp(b, j) <=> ~d)
  BY <1>1, <1>2, <1>4, <1>6, OwnKeys DEF SeenDown, SeenUp, ReadUp, Sound, InboxFresh
<1>8. ASSUME NEW j \in OwnCodes, ~(j = k /\ d /\ k \notin is_down[b])
      PROVE  Found(b, j)' => Found(b, j)
  BY <1>1, <1>5, <1>8 DEF Found
<1>9. ASSUME NEW j \in OwnCodes PROVE Owes(b, j)' => Owes(b, j)
  <2>1. ~Rise(b, j)' /\ (Later(b, j)' <=> j \in held /\ j \notin is_down'[b])
    BY <1>6, <1>7 DEF Rise, Later
  <2>2. j \in held /\ j \notin is_down[b] => Owes(b, j)
    BY <1>6 DEF Owes, Rise, Later
  <2>3. CASE j = k /\ d /\ k \notin is_down[b]
    BY <1>2, <2>2, <2>3
  <2>4. CASE ~(j = k /\ d /\ k \notin is_down[b])
    <3>1. j \in held /\ j \notin is_down'[b] => j \notin is_down[b]
      BY <1>2, <1>5
    <3> QED BY <1>8, <2>1, <2>2, <2>4, <3>1 DEF Owes
  <2> QED BY <2>3, <2>4
<1>10. NoMore
  BY <1>3, <1>4, <1>5, <1>9, NoMoreByOne
<1>11. ASSUME NEW j \in OwnCodes, Found(b, j)' PROVE j \in is_down'[b] /\ ~ReadUp(b, j)'
  <2>1. CASE j = k /\ d /\ k \notin is_down[b]
    <3>1. j \in is_down'[b] \/ calls'[b] = calls[b]
      BY <1>5, <2>1
    <3>2. calls'[b] = calls[b] => Found(b, j)
      BY <1>11 DEF Found
    <3> QED BY <1>6, <2>1, <3>1, <3>2 DEF Sound, CallsMarked, ReadUp
  <2>2. CASE ~(j = k /\ d /\ k \notin is_down[b])
    <3>1. Found(b, j)
      BY <1>8, <1>11, <2>2
    <3>2. j = k => d
      <4>1. \A e \in calls[b] : Device(e.key) # Device(k)
        BY <1>1 DEF HookCall
      <4>2. j # k
        BY <3>1, <4>1 DEF Found
      <4> QED BY <4>2
    <3>3. j \in is_down[b]
      BY <3>1 DEF Sound, CallsMarked
    <3> QED BY <1>5, <1>6, <3>2, <3>3 DEF ReadUp
  <2> QED BY <2>1, <2>2
<1>12. Sound'
  <2>1. mouseDue'[b] => kind[b] = "dinput"
    BY <1>3 DEF Sound, KindsApart
  <2> QED BY <1>3, <1>4, <1>5, <1>6, <1>11, <2>1, SoundByOne
<1> QED BY <1>10, <1>12

\* A read sees as down what its source has down.
LEMMA ReadOwes ==
  ASSUME Shape, Typed, Sound, NEW b \in Addrs, BeginRound(b) \/ ReadMouse(b)
  PROVE  NoMore /\ Sound'
<1>1. UNCHANGED <<held, shown, playing, kind, is_down, calls, inbox, hooked>>
  BY DEF BeginRound, ReadMouse, environment, game, manager
<1>2. kind[b] # "hook" /\ left[b] = {} /\ calls[b] = {} /\ inbox[b] = {} /\ Truth(b)' = Truth(b)
  BY <1>1 DEF BeginRound, ReadMouse, Resting, Sound, KindsApart, Truth
<1>3. \/ kind[b] = "async" /\ left'[b] = Keys
      \/ kind[b] = "dinput" /\ left'[b] = Listed /\ shot'[b] = {c \in Codes : ByteOf[c] \in held}
      \/ kind[b] = "dinput" /\ left'[b] = Mouse /\ shot'[b] = held
      \/ kind[b] = "memory" /\ left'[b] \subseteq Keys /\ shot'[b] = playing
  <2>1. CASE BeginRound(b)
    <3>1. left'[b] = Reads(b).items /\ shot'[b] = Reads(b).downs
      BY <2>1 DEF BeginRound, Shape, Typed, Data
    <3>2. kind[b] \in {"async", "dinput", "memory"}
      BY <1>2 DEF Shape, AllKinds
    <3>3. shown \subseteq Keys
      BY DEF Shape, Keys
    <3> QED BY <3>1, <3>2, <3>3 DEF Reads
  <2>2. CASE ReadMouse(b)
    BY <2>2 DEF ReadMouse, Sound, KindsApart, Shape, Typed, Data
  <2> QED BY <2>1, <2>2
<1>4. ASSUME NEW k \in OwnCodes, NEW x \in left'[b], kind[b] # "async", KeyOf(x) = k
      PROVE  (x \in shot'[b] <=> k \in Truth(b))
  <2>1. CASE left'[b] = Listed /\ shot'[b] = {c \in Codes : ByteOf[c] \in held} /\ kind[b] = "dinput"
    <3>1. x \in Codes /\ Converted[x] = k
      BY <1>4, <2>1 DEF Listed, KeyOf
    <3>2. ByteOf[x] = k
      BY <3>1 DEF OwnCodes
    <3> QED BY <2>1, <3>1, <3>2 DEF Truth
  <2>2. CASE left'[b] \subseteq Keys
    <3>1. x = k
      BY <1>4, <2>2, KeyItem
    <3>2. shot'[b] = Truth(b) \/ left'[b] = Listed
      BY <1>3, <1>4 DEF Truth
    <3>3. left'[b] # Listed
      <4>1. SUFFICES ASSUME left'[b] = Listed PROVE FALSE
        OBVIOUS
      <4>2. x \in Codes /\ x \in Keys
        BY <2>2, <4>1 DEF Listed
      <4> QED BY <4>2, KeyItem
    <3> QED BY <3>1, <3>2, <3>3
  <2> QED BY <1>3, <1>4, <2>1, <2>2 DEF Keys
<1>5. ASSUME NEW k \in OwnCodes PROVE Owes(b, k)' => Owes(b, k)
  <2>1. ~Found(b, k) /\ ~Found(b, k)' /\ ~SeenDown(b, k) /\ ~SeenUp(b, k)
    BY <1>1, <1>2 DEF Found, SeenDown, SeenUp, ReadUp
  <2>2. (SeenDown(b, k)' => k \in Truth(b)) /\ (SeenUp(b, k)' => k \notin Truth(b))
    BY <1>1, <1>2, <1>4 DEF SeenDown, SeenUp, ReadUp
  <2> QED BY <1>1, <1>2, <2>1, <2>2 DEF Owes, Rise, Later
<1>6. \A a \in Addrs : a # b => left'[a] = left[a] /\ shot'[a] = shot[a] /\ mouseDue'[a] = mouseDue[a]
  BY DEF BeginRound, ReadMouse, Shape, Typed, Data
<1>7. NoMore
  BY <1>1, <1>5, <1>6, NoMoreByOne
<1>8. mouseDue'[b] => kind[b] = "dinput"
  BY DEF BeginRound, ReadMouse, Shape
<1>9. Sound'
  <2>1. \A k \in OwnCodes : ~Found(b, k)'
    BY <1>1, <1>2 DEF Found
  <2>2. kind[b] # "dinput" => left'[b] \subseteq Keys
    BY <1>3
  <2>3. kind[b] # "hook" => inbox'[b] = {} /\ ~hooked'[b]
    BY <1>1 DEF Sound, KindsApart
  <2>4. \A k \in OwnCodes : \A x, y \in left'[b] :
          kind[b] # "async" /\ KeyOf(x) = k /\ KeyOf(y) = k => (x \in shot'[b] <=> y \in shot'[b])
    BY <1>4
  <2> QED BY <1>1, <1>2, <1>6, <1>8, <2>1, <2>2, <2>3, <2>4, SoundByOne
<1> QED BY <1>7, <1>9

\* The other steps of a monitor's threads but the delivery find and see nothing.
LEMMA RestOwes ==
  ASSUME Shape, Typed, Sound, NEW b \in Addrs, MouseFails(b) \/ InstallHook(b) \/ End(b)
  PROVE  NoMore /\ Sound'
<1>1. UNCHANGED <<held, playing, kind, is_down, calls, left, shot>>
  BY DEF MouseFails, InstallHook, End, environment, game, manager, poll
<1>2. /\ inbox'[b] \in {inbox[b], {}} /\ (mouseDue'[b] => mouseDue[b])
      /\ hooked'[b] => hooked[b] \/ kind[b] = "hook"
      /\ \A a \in Addrs : a # b => inbox'[a] = inbox[a] /\ mouseDue'[a] = mouseDue[a] /\ hooked'[a] = hooked[a]
  <2>1. CASE MouseFails(b)
    BY <2>1 DEF MouseFails, Shape
  <2>2. CASE InstallHook(b)
    BY <2>2 DEF InstallHook, Shape, poll
  <2>3. CASE End(b)
    BY <2>3 DEF End, Shape, poll
  <2> QED BY <2>1, <2>2, <2>3
<1>3. ASSUME NEW k \in OwnCodes PROVE Owes(b, k)' => Owes(b, k)
  <2>1. (Found(b, k)' <=> Found(b, k)) /\ Truth(b)' = Truth(b)
    BY <1>1 DEF Found, Truth
  <2>2. (SeenDown(b, k)' => SeenDown(b, k)) /\ (SeenUp(b, k)' => SeenUp(b, k))
    BY <1>1, <1>2 DEF SeenDown, SeenUp, ReadUp
  <2> QED BY <1>1, <2>1, <2>2 DEF Owes, Rise, Later
<1>4. NoMore
  BY <1>1, <1>2, <1>3, NoMoreByOne
<1>5. Sound'
  <2>1. ASSUME NEW k \in OwnCodes, Found(b, k)' PROVE k \in is_down'[b] /\ ~ReadUp(b, k)'
    BY <1>1, <1>2, <2>1 DEF Found, SeenUp, ReadUp, Sound, CallsMarked
  <2>2. inbox'[b] \subseteq inbox[b]
    BY <1>2
  <2>3. /\ kind[b] = "hook" => left'[b] = {}
        /\ kind[b] # "hook" => inbox'[b] = {} /\ ~hooked'[b]
        /\ mouseDue'[b] => kind[b] = "dinput"
        /\ kind[b] # "dinput" => left'[b] \subseteq Keys
    BY <1>1, <1>2 DEF Sound, KindsApart
  <2>4. \A k \in OwnCodes : \A x, y \in left'[b] :
          kind[b] # "async" /\ KeyOf(x) = k /\ KeyOf(y) = k => (x \in shot'[b] <=> y \in shot'[b])
    BY <1>1 DEF Sound, Agree
  <2> QED BY <1>1, <1>2, <2>1, <2>2, <2>3, <2>4, SoundByOne
<1> QED BY <1>4, <1>5

\* A delivery settles what was found.
LEMMA DeliverOwes ==
  ASSUME Shape, Typed, Sound, NEW b \in Addrs, NEW e \in calls[b], Deliver(b, e)
  PROVE  /\ NoMore /\ Sound'
         /\ \A k \in OwnCodes :
              \/ count'[k] = count[k]
              \/ callback[b] /\ count'[k] = count[k] + 1 /\ Owes(b, k) /\ ~Owes(b, k)'
<1>1. UNCHANGED <<held, playing, kind, is_down, inbox, left, shot, mouseDue, hooked>>
  BY DEF Deliver, environment, game, manager, poll
<1>2. calls'[b] = calls[b] \ {e} /\ \A a \in Addrs : a # b => calls'[a] = calls[a]
  BY DEF Deliver, Shape
<1>3. count' = count \/ (callback[b] /\ e.down /\ count' = [count EXCEPT ![e.key] = @ + 1])
  BY DEF Deliver, Counted, receiver
<1>4. ASSUME NEW k \in OwnCodes
      PROVE  /\ Found(b, k)' => Found(b, k)
             /\ (SeenDown(b, k)' <=> SeenDown(b, k)) /\ (SeenUp(b, k)' <=> SeenUp(b, k)) /\ Truth(b)' = Truth(b)
             /\ (Rise(b, k)' <=> Rise(b, k)) /\ (Later(b, k)' <=> Later(b, k))
             /\ e = [key |-> k, down |-> TRUE] => Found(b, k) /\ ~Found(b, k)'
  <2>1. (SeenDown(b, k)' <=> SeenDown(b, k)) /\ (SeenUp(b, k)' <=> SeenUp(b, k)) /\ Truth(b)' = Truth(b)
    BY <1>1 DEF SeenDown, SeenUp, ReadUp, Truth
  <2>2. (Rise(b, k)' <=> Rise(b, k)) /\ (Later(b, k)' <=> Later(b, k))
    BY <1>1, <2>1 DEF Rise, Later
  <2> QED BY <1>2, <2>1, <2>2 DEF Found
<1>5. NoMore
  BY <1>1, <1>2, <1>4, NoMoreByOne DEF Owes
<1>6. Sound'
  <2>1. ASSUME NEW k \in OwnCodes, Found(b, k)' PROVE k \in is_down'[b] /\ ~ReadUp(b, k)'
    BY <1>1, <1>4, <2>1 DEF Sound, CallsMarked, ReadUp
  <2>2. /\ kind[b] = "hook" => left'[b] = {}
        /\ kind[b] # "hook" => inbox'[b] = {} /\ ~hooked'[b]
        /\ mouseDue'[b] => kind[b] = "dinput"
        /\ kind[b] # "dinput" => left'[b] \subseteq Keys
    BY <1>1 DEF Sound, KindsApart
  <2>3. \A k \in OwnCodes : \A x, y \in left'[b] :
          kind[b] # "async" /\ KeyOf(x) = k /\ KeyOf(y) = k => (x \in shot'[b] <=> y \in shot'[b])
    BY <1>1 DEF Sound, Agree
  <2> QED BY <1>1, <1>2, <2>1, <2>2, <2>3, SoundByOne
<1>7. ASSUME NEW k \in OwnCodes
      PROVE  \/ count'[k] = count[k]
             \/ callback[b] /\ count'[k] = count[k] + 1 /\ Owes(b, k) /\ ~Owes(b, k)'
  <2>1. count \in [Keys -> Nat] /\ k \in Keys
    BY OwnKeys DEF Typed, Data
  <2>2. CASE count' = count
    BY <2>2
  <2>3. CASE callback[b] /\ e.down /\ count' = [count EXCEPT ![e.key] = @ + 1]
    <3>1. count'[k] = IF k = e.key THEN count[k] + 1 ELSE count[k]
      BY <2>1, <2>3
    <3>2. CASE k = e.key
      <4>1. e = [key |-> k, down |-> TRUE]
        BY <2>3, <3>2 DEF Event, Shape
      <4>2. Found(b, k) /\ ~Found(b, k)'
        BY <1>4, <4>1
      <4>3. k \in is_down[b] /\ ~ReadUp(b, k)
        BY <4>2 DEF Sound, CallsMarked
      <4>4. SeenUp(b, k) => k \notin Truth(b)
        BY <2>1, <4>3 DEF SeenUp, Sound, InboxFresh, KindsApart, Truth
      <4>5. ~Rise(b, k) /\ ~Later(b, k)
        BY <4>3, <4>4 DEF Rise, Later
      <4> QED BY <1>4, <2>3, <3>1, <3>2, <4>2, <4>5 DEF Owes
    <3>3. CASE k # e.key
      BY <3>1, <3>3
    <3> QED BY <3>2, <3>3
  <2> QED BY <1>3, <2>2, <2>3
<1> QED BY <1>5, <1>6, <1>7

\* A press makes the monitors owe its key; a release or a repeated message, nothing.
LEMMA UserOwes ==
  ASSUME Shape, Typed, Sound, NEW j \in Keys, Press(j) \/ Release(j) \/ Repeat(j)
  PROVE  /\ Sound'
         /\ \A a \in Addrs, k \in OwnCodes : Owes(a, k)' => Owes(a, k) \/ (k = j /\ Press(j))
<1>1. PICK d \in BOOLEAN :
        /\ Message(j, d)
        /\ d <=> j \in held'
        /\ \A k : k # j => (k \in held' <=> k \in held)
        /\ j \in held' => j \in held \/ Press(j)
  <2>1. CASE Press(j)
    BY <2>1 DEF Press
  <2>2. CASE Release(j)
    BY <2>2 DEF Release
  <2>3. CASE Repeat(j)
    BY <2>3 DEF Repeat, environment
  <2> QED BY <2>1, <2>2, <2>3
<1>2. UNCHANGED <<is_down, calls, left, shot, mouseDue, hooked, kind, playing>>
  BY DEF Press, Release, Repeat, environment, game, poll, manager
<1>3. ASSUME NEW a \in Addrs
      PROVE  inbox[a] = {} /\ inbox'[a] = IF hooked[a] THEN {[key |-> j, down |-> d]} ELSE {}
  BY <1>1 DEF Message
<1>4. ASSUME NEW a \in Addrs, NEW k \in OwnCodes
      PROVE  /\ Found(a, k)' <=> Found(a, k)
             /\ \/ /\ (SeenDown(a, k)' <=> SeenDown(a, k)) /\ (SeenUp(a, k)' <=> SeenUp(a, k))
                   /\ kind[a] # "hook" \/ k # j \/ ~hooked[a]
                \/ /\ kind[a] = "hook" /\ k = j
                   /\ (SeenDown(a, k)' <=> d) /\ (SeenUp(a, k)' <=> ~d) /\ ~SeenDown(a, k) /\ ~SeenUp(a, k)
  <2>1. Found(a, k)' <=> Found(a, k)
    BY <1>2 DEF Found
  <2>2. CASE k # j \/ ~hooked[a]
    <3>1. \A c \in BOOLEAN : [key |-> k, down |-> c] \notin inbox'[a] /\ [key |-> k, down |-> c] \notin inbox[a]
      BY <1>3, <2>2
    <3> QED BY <1>2, <2>1, <2>2, <3>1 DEF SeenDown, SeenUp, ReadUp
  <2>3. CASE k = j /\ hooked[a]
    <3>1. kind[a] = "hook" /\ left[a] = {}
      BY <2>3 DEF Sound, KindsApart
    <3>2. \A c \in BOOLEAN : [key |-> k, down |-> c] \in inbox'[a] <=> (c <=> d)
      BY <1>3, <2>3
    <3>3. \A c \in BOOLEAN : [key |-> k, down |-> c] \notin inbox[a]
      BY <1>3
    <3> QED BY <1>2, <2>1, <2>3, <3>1, <3>2, <3>3 DEF SeenDown, SeenUp, ReadUp
  <2> QED BY <2>2, <2>3
<1>5. ASSUME NEW a \in Addrs, NEW k \in OwnCodes
      PROVE  Owes(a, k)' => Owes(a, k) \/ (k = j /\ Press(j))
  <2>1. k \in Truth(a)' => k \in Truth(a) \/ (k = j /\ Press(j))
    BY <1>1, <1>2 DEF Truth
  <2>2. kind[a] = "hook" /\ k = j => (k \in Truth(a)' <=> d) /\ Truth(a) = held
    BY <1>1, <1>2 DEF Truth
  <2> QED BY <1>1, <1>2, <1>4, <2>1, <2>2 DEF Owes, Rise, Later
<1>6. CallsMarked'
  <2> SUFFICES ASSUME NEW a \in Addrs, NEW k \in OwnCodes, Found(a, k)' PROVE k \in is_down'[a] /\ ~ReadUp(a, k)'
    BY DEF CallsMarked, OwnCodes
  <2>1. Found(a, k) /\ (ReadUp(a, k)' <=> ReadUp(a, k))
    BY <1>2 DEF Found, ReadUp
  <2> QED BY <1>2, <2>1 DEF Sound, CallsMarked
<1>7. InboxFresh'
  <2> SUFFICES ASSUME NEW a \in Addrs, NEW k \in Keys, NEW c \in BOOLEAN, [key |-> k, down |-> c] \in inbox'[a]
               PROVE  c <=> k \in held'
    BY DEF InboxFresh
  <2>1. [key |-> k, down |-> c] = [key |-> j, down |-> d]
    BY <1>3
  <2>2. k = j /\ (c <=> d)
    BY <2>1
  <2> QED BY <1>1, <2>2
<1>8. KindsApart' /\ Agree'
  BY <1>2, <1>3 DEF Sound, KindsApart, Agree, OwnCodes, KeyOf
<1> QED BY <1>5, <1>6, <1>7, <1>8 DEF Sound

\* A change of the game makes the memory monitors owe what it shows newly down; the others
\* do not look.
LEMMA GameOwes ==
  ASSUME Sound, Game
  PROVE  /\ Sound'
         /\ \A a \in Addrs, k \in OwnCodes : Owes(a, k)' => Owes(a, k) \/ k \in playing' \ playing
<1>1. UNCHANGED <<held, calls, is_down, left, shot, inbox, hooked, mouseDue, kind>>
  BY DEF Game, threads, poll, manager
<1>2. Sound'
  BY <1>1 DEF Sound, CallsMarked, InboxFresh, KindsApart, Agree, Found, ReadUp, OwnCodes, KeyOf
<1>3. ASSUME NEW a \in Addrs, NEW k \in OwnCodes
      PROVE  Owes(a, k)' => Owes(a, k) \/ k \in playing' \ playing
  <2>1. /\ (Found(a, k)' <=> Found(a, k)) /\ (SeenDown(a, k)' <=> SeenDown(a, k))
        /\ (SeenUp(a, k)' <=> SeenUp(a, k)) /\ (Rise(a, k)' <=> Rise(a, k))
    BY <1>1 DEF Found, SeenDown, SeenUp, ReadUp, Rise
  <2>2. k \in Truth(a)' => k \in Truth(a) \/ k \in playing' \ playing
    BY <1>1 DEF Truth
  <2> QED BY <1>1, <2>1, <2>2 DEF Owes, Later
<1> QED BY <1>2, <1>3

\* The budget, on which every step draws no more than it brings.
Within == Sound /\ Budget

\* A step whose payer owes no more than the bound has grown stays within it.
LEMMA StaysWithin ==
  ASSUME Natural, Natural', Budget, UNCHANGED <<pc, implement, next, switches>>,
         \A k \in OwnCodes : count'[k] + One(Owes(Payer, k)') + presses[k] + plays[k]
                               <= count[k] + One(Owes(Payer, k)) + presses'[k] + plays'[k]
  PROVE  Budget'
<1> SUFFICES ASSUME NEW k \in OwnCodes PROVE Spent(k)' <= Bound(k)'
  BY DEF Budget, OwnCodes
<1>1. /\ count[k] \in Nat /\ presses[k] \in Nat /\ plays[k] \in Nat /\ switches \in Nat
      /\ count'[k] \in Nat /\ presses'[k] \in Nat /\ plays'[k] \in Nat
  BY OwnKeys DEF Natural
<1>2. One(Owes(Payer, k)) \in 0 .. 1 /\ One(Owes(Payer, k)') \in 0 .. 1 /\ One(OldReports) \in 0 .. 1
  BY DEF One
<1>3. Payer' = Payer /\ (OldReports' <=> OldReports)
  BY DEF Payer, OldReports
<1>4. One(Owes(Payer, k))' = One(Owes(Payer, k)') /\ One(OldReports)' = One(OldReports)
  BY <1>3 DEF One
<1>5. count[k] + One(Owes(Payer, k)) + One(OldReports) <= presses[k] + plays[k] + switches
  BY DEF Budget, Spent, Bound
<1>6. count'[k] + One(Owes(Payer, k))' + One(OldReports)' <= presses'[k] + plays'[k] + switches
  BY <1>1, <1>2, <1>4, <1>5
<1> QED BY <1>6 DEF Spent, Bound

\* Nobody owes more, and nothing is counted.
LEMMA NoMoreWithin ==
  ASSUME Natural, Typed, Budget, NoMore,
         UNCHANGED <<pc, implement, next, switches, count, presses, plays>>
  PROVE  Budget'
<1>1. Payer \in Addrs /\ Payer' = Payer
  BY DEF Typed, Data, Payer, OldReports
<1>2. ASSUME NEW k \in OwnCodes
      PROVE  count'[k] + One(Owes(Payer, k)') + presses[k] + plays[k]
               <= count[k] + One(Owes(Payer, k)) + presses'[k] + plays'[k]
  <2>1. Owes(Payer, k)' => Owes(Payer, k)
    BY <1>1 DEF NoMore
  <2>2. One(Owes(Payer, k)') <= One(Owes(Payer, k))
    BY <2>1 DEF One
  <2>3. One(Owes(Payer, k)) \in 0 .. 1 /\ One(Owes(Payer, k)') \in 0 .. 1
    BY DEF One
  <2> QED BY <2>2, <2>3, OwnKeys DEF Natural
<1>3. Natural'
  BY DEF Natural
<1> QED BY <1>2, <1>3, StaysWithin

LEMMA MonitorWithin ==
  ASSUME IInv, Typed, Typed', Within, NEW b \in Addrs, MonitorStep(b)
  PROVE  Within'
<1>1. Natural /\ Natural' /\ Shape /\ Sound /\ Budget
  BY TypedNatural, PTL DEF IInv, Within
<1>2. ASSUME NoMore, Sound', receiver' = receiver, manager' = manager, environment' = environment PROVE Within'
  <2>1. UNCHANGED <<pc, implement, next, switches, count, presses, plays>>
    BY <1>2 DEF receiver, manager, environment, game
  <2> QED BY <1>1, <1>2, <2>1, NoMoreWithin DEF Within
<1>3. CASE BeginRound(b) \/ ReadMouse(b)
  <2>1. NoMore /\ Sound'
    BY <1>1, <1>3, ReadOwes
  <2> QED BY <1>2, <1>3, <2>1 DEF BeginRound, ReadMouse
<1>4. CASE MouseFails(b) \/ InstallHook(b) \/ End(b)
  <2>1. NoMore /\ Sound'
    BY <1>1, <1>4, RestOwes
  <2> QED BY <1>2, <1>4, <2>1 DEF MouseFails, InstallHook, End
<1>5. ASSUME NEW x \in left[b], Visit(b, x) PROVE Within'
  <2>1. NoMore /\ Sound'
    BY <1>1, <1>5, VisitOwes
  <2> QED BY <1>2, <1>5, <2>1 DEF Visit
<1>6. ASSUME NEW m \in inbox[b], HookCall(b, m) PROVE Within'
  <2>1. NoMore /\ Sound'
    BY <1>1, <1>6, HookOwes
  <2> QED BY <1>2, <1>6, <2>1 DEF HookCall
<1>7. ASSUME NEW e \in calls[b], Deliver(b, e) PROVE Within'
  <2>1. NoMore /\ Sound'
    BY <1>1, <1>7, DeliverOwes
  <2>2. UNCHANGED <<pc, implement, next, switches, presses, plays>>
    BY <1>7 DEF Deliver, manager, environment, game
  <2>3. Payer \in Addrs /\ Payer' = Payer
    BY <2>2 DEF Typed, Data, Payer, OldReports
  <2>4. callback[b] => b = Payer
    BY AddrsAssumption DEF IInv, Reporter, Places, Payer, OldReports
  <2>5. ASSUME NEW k \in OwnCodes
        PROVE  count'[k] + One(Owes(Payer, k)') + presses[k] + plays[k]
                 <= count[k] + One(Owes(Payer, k)) + presses'[k] + plays'[k]
    <3>1. \/ count'[k] = count[k]
          \/ callback[b] /\ count'[k] = count[k] + 1 /\ Owes(b, k) /\ ~Owes(b, k)'
      BY <1>1, <1>7, DeliverOwes
    <3>2. Owes(Payer, k)' => Owes(Payer, k)
      BY <2>1, <2>3 DEF NoMore
    <3>3. count'[k] + One(Owes(Payer, k)') <= count[k] + One(Owes(Payer, k))
      <4>1. count[k] \in Nat
        BY <1>1, OwnKeys DEF Natural
      <4>2. CASE count'[k] = count[k]
        BY <3>2, <4>1, <4>2 DEF One
      <4>3. CASE callback[b] /\ count'[k] = count[k] + 1 /\ Owes(b, k) /\ ~Owes(b, k)'
        <5>1. Owes(Payer, k) /\ ~Owes(Payer, k)'
          BY <2>3, <2>4, <4>3
        <5> QED BY <4>1, <4>3, <5>1 DEF One
      <4> QED BY <3>1, <4>2, <4>3
    <3>4. One(Owes(Payer, k)) \in 0 .. 1 /\ One(Owes(Payer, k)') \in 0 .. 1
      BY DEF One
    <3> QED BY <1>1, <2>2, <3>3, <3>4, OwnKeys DEF Natural
  <2> QED BY <1>1, <2>1, <2>2, <2>5, StaysWithin DEF Within
<1> QED BY <1>3, <1>4, <1>5, <1>6, <1>7 DEF MonitorStep

LEMMA UserWithin == ASSUME IInv, Typed, Typed', Within, User PROVE Within'
<1>1. Natural /\ Natural' /\ Shape /\ Sound /\ Budget
  BY TypedNatural, PTL DEF IInv, Within
<1>2. PICK j \in Keys : Press(j) \/ Release(j) \/ Repeat(j)
  BY DEF User
<1>3. Sound' /\ \A a \in Addrs, k \in OwnCodes : Owes(a, k)' => Owes(a, k) \/ (k = j /\ Press(j))
  BY <1>1, <1>2, UserOwes
<1>4. UNCHANGED <<pc, implement, next, switches, count, plays>>
  BY <1>2 DEF Press, Release, Repeat, receiver, manager, environment, game
<1>5. \A k \in Keys : presses'[k] = IF k = j /\ Press(j) THEN presses[k] + 1 ELSE presses[k]
  <2>1. CASE Press(j)
    BY <2>1 DEF Press, Typed, Data
  <2>2. CASE ~Press(j)
    BY <1>2, <2>2 DEF Release, Repeat, environment
  <2> QED BY <2>1, <2>2
<1>6. Payer \in Addrs /\ Payer' = Payer
  BY <1>4 DEF Typed, Data, Payer, OldReports
<1>7. ASSUME NEW k \in OwnCodes
      PROVE  count'[k] + One(Owes(Payer, k)') + presses[k] + plays[k]
               <= count[k] + One(Owes(Payer, k)) + presses'[k] + plays'[k]
  <2>1. Owes(Payer, k)' => Owes(Payer, k) \/ (k = j /\ Press(j))
    BY <1>3, <1>6
  <2>2. presses'[k] = IF k = j /\ Press(j) THEN presses[k] + 1 ELSE presses[k]
    BY <1>5, OwnKeys
  <2>3. One(Owes(Payer, k)') + presses[k] <= One(Owes(Payer, k)) + presses'[k]
    BY <1>1, <2>1, <2>2, OwnKeys DEF One, Natural
  <2>4. One(Owes(Payer, k)) \in 0 .. 1 /\ One(Owes(Payer, k)') \in 0 .. 1
    BY DEF One
  <2> QED BY <1>1, <1>4, <2>3, <2>4, OwnKeys DEF Natural
<1> QED BY <1>1, <1>3, <1>4, <1>7, StaysWithin DEF Within

LEMMA GameWithin == ASSUME IInv, Typed, Typed', Within, Game PROVE Within'
<1>1. Natural /\ Natural' /\ Shape /\ Sound /\ Budget
  BY TypedNatural, PTL DEF IInv, Within
<1>2. Sound' /\ \A a \in Addrs, k \in OwnCodes : Owes(a, k)' => Owes(a, k) \/ k \in playing' \ playing
  BY <1>1, GameOwes
<1>3. UNCHANGED <<pc, implement, next, switches, count, presses>>
  BY DEF Game, receiver, manager
<1>4. \A k \in Keys : plays'[k] = plays[k] + IF k \in playing' \ playing THEN 1 ELSE 0
  BY DEF Game
<1>5. Payer \in Addrs /\ Payer' = Payer
  BY <1>3 DEF Typed, Data, Payer, OldReports
<1>6. ASSUME NEW k \in OwnCodes
      PROVE  count'[k] + One(Owes(Payer, k)') + presses[k] + plays[k]
               <= count[k] + One(Owes(Payer, k)) + presses'[k] + plays'[k]
  <2>1. Owes(Payer, k)' => Owes(Payer, k) \/ k \in playing' \ playing
    BY <1>2, <1>5
  <2>2. plays'[k] = plays[k] + IF k \in playing' \ playing THEN 1 ELSE 0
    BY <1>4, OwnKeys
  <2>3. One(Owes(Payer, k)') + plays[k] <= One(Owes(Payer, k)) + plays'[k]
    BY <1>1, <2>1, <2>2, OwnKeys DEF One, Natural
  <2>4. One(Owes(Payer, k)) \in 0 .. 1 /\ One(Owes(Payer, k)') \in 0 .. 1
    BY DEF One
  <2> QED BY <1>1, <1>3, <2>3, <2>4, OwnKeys DEF Natural
<1> QED BY <1>1, <1>2, <1>3, <1>6, StaysWithin DEF Within

\* The switch is paid when it begins, for what the new monitor will owe.
LEMMA MakeWithin ==
  ASSUME IInv, Typed, Typed', Within, NEW t \in Kinds, NEW b \in Addrs, Make(t, b)
  PROVE  Within'
<1>1. Natural /\ Natural' /\ Shape /\ Sound /\ Budget
  BY TypedNatural, PTL DEF IInv, Within
<1>2. /\ UNCHANGED <<held, presses, plays, calls, left, shot, mouseDue, hooked, inbox, implement, count>>
      /\ switches' = switches + 1 /\ next' = b /\ pc' = "made" /\ pc = "idle"
      /\ kind' = [kind EXCEPT ![b] = t] /\ is_down' = [is_down EXCEPT ![b] = {}]
  BY DEF Make, poll, receiver
<1>3. b \notin live /\ calls[b] = {} /\ left[b] = {} /\ ~mouseDue[b] /\ inbox[b] = {} /\ ~hooked[b]
  BY DEF Make, IInv, AtRest, Resting
<1>4. implement \in Addrs /\ implement # b /\ implement = next /\ implement # "none" /\ implement \in live
  BY <1>2, <1>3, AddrsAssumption DEF IInv, Places, Shape
<1>5. \A a \in Addrs : a # b => kind'[a] = kind[a] /\ is_down'[a] = is_down[a]
  BY <1>2 DEF Shape, Typed, Data
<1>6. Sound'
  <2>1. CallsMarked'
    <3> SUFFICES ASSUME NEW a \in Addrs, NEW k \in OwnCodes, Found(a, k)' PROVE k \in is_down'[a] /\ ~ReadUp(a, k)'
      BY DEF CallsMarked, OwnCodes
    <3>1. a # b
      BY <1>2, <1>3 DEF Found
    <3> QED BY <1>1, <1>2, <1>5, <3>1 DEF Found, ReadUp, Sound, CallsMarked
  <2>2. InboxFresh'
    BY <1>1, <1>2 DEF Sound, InboxFresh
  <2>3. KindsApart'
    BY <1>1, <1>2, <1>3, <1>5 DEF Sound, KindsApart
  <2>4. Agree'
    <3> SUFFICES ASSUME NEW a \in Addrs, NEW k \in OwnCodes, NEW x \in left'[a], NEW y \in left'[a],
                        kind'[a] # "async", KeyOf(x) = k, KeyOf(y) = k
                 PROVE  x \in shot'[a] <=> y \in shot'[a]
      BY DEF Agree, OwnCodes, KeyOf
    <3>1. a # b
      BY <1>2, <1>3
    <3> QED BY <1>1, <1>2, <1>5, <3>1 DEF Sound, Agree
  <2> QED BY <2>1, <2>2, <2>3, <2>4 DEF Sound
<1>7. Budget'
  <2> SUFFICES ASSUME NEW k \in OwnCodes PROVE Spent(k)' <= Bound(k)'
    BY DEF Budget, OwnCodes
  <2>1. Payer = implement /\ Payer' = implement /\ OldReports' /\ ~OldReports
    BY <1>2, <1>4 DEF Payer, OldReports
  <2>2. playing' = playing \/ kind[implement] # "memory"
    BY <1>4 DEF Make, Watched
  <2>3. Truth(implement)' = Truth(implement)
    BY <1>2, <1>4, <1>5, <2>2 DEF Truth
  <2>4. Owes(implement, k)' <=> Owes(implement, k)
    <3>1. /\ Found(implement, k)' <=> Found(implement, k)
          /\ SeenDown(implement, k)' <=> SeenDown(implement, k)
          /\ SeenUp(implement, k)' <=> SeenUp(implement, k)
      BY <1>2, <1>4, <1>5 DEF Found, SeenDown, SeenUp, ReadUp
    <3> QED BY <1>2, <1>4, <1>5, <2>3, <3>1 DEF Owes, Rise, Later
  <2>5. count[k] + One(Owes(implement, k)) <= presses[k] + plays[k] + switches
    <3>1. One(Owes(implement, k)) \in 0 .. 1 /\ One(OldReports) = 0
      BY <2>1 DEF One
    <3> QED BY <1>1, <2>1, <3>1, OwnKeys DEF Budget, Spent, Bound, Natural
  <2>6. One(Owes(Payer, k))' = One(Owes(implement, k)) /\ One(OldReports)' = 1
    BY <1>2, <2>1, <2>4 DEF One
  <2>7. One(Owes(implement, k)) \in 0 .. 1
    BY DEF One
  <2> QED BY <1>1, <1>2, <2>5, <2>6, <2>7, OwnKeys DEF Spent, Bound, Natural
<1> QED BY <1>6, <1>7 DEF Within

LEMMA SwitchWithin == ASSUME IInv, Typed, Typed', Within, Switching PROVE Within'
<1>1. Natural /\ Natural' /\ Shape /\ Sound /\ Budget
  BY TypedNatural, PTL DEF IInv, Within
<1>2. /\ UNCHANGED <<held, presses, plays, playing, calls, left, shot, mouseDue, hooked, inbox,
                     kind, next, switches, count>>
      /\ pc' # "made"
      /\ \A a \in Addrs : is_down'[a] = is_down[a] \/ (Join /\ a # implement)
  BY DEF Switching, ResetOld, Assign, Join, SetCallback, threads, environment, game, poll, receiver,
         Typed, Data
<1>3. ASSUME NEW a \in Addrs, Join, a # implement PROVE calls[a] = {}
  BY <1>3 DEF Join, Joinable, IInv, AtRest, Resting
<1>4. Join => next = implement
  BY DEF Join, IInv, Places
<1>5. Sound'
  <2>1. CallsMarked'
    <3> SUFFICES ASSUME NEW a \in Addrs, NEW k \in OwnCodes, Found(a, k)' PROVE k \in is_down'[a] /\ ~ReadUp(a, k)'
      BY DEF CallsMarked, OwnCodes
    <3>1. is_down'[a] = is_down[a]
      BY <1>2, <1>3 DEF Found
    <3> QED BY <1>1, <1>2, <3>1 DEF Found, ReadUp, Sound, CallsMarked
  <2>2. InboxFresh' /\ KindsApart' /\ Agree'
    BY <1>1, <1>2 DEF Sound, InboxFresh, KindsApart, Agree, OwnCodes, KeyOf
  <2> QED BY <2>1, <2>2 DEF Sound
<1>6. Budget'
  <2> SUFFICES ASSUME NEW k \in OwnCodes PROVE Spent(k)' <= Bound(k)'
    BY DEF Budget, OwnCodes
  <2>1. next \in Addrs /\ ~OldReports' /\ Payer' = next /\ is_down'[next] = is_down[next]
    BY <1>2, <1>4 DEF Typed, Data, OldReports, Payer
  <2>2. Owes(next, k)' <=> Owes(next, k)
    <3>1. /\ Found(next, k)' <=> Found(next, k)
          /\ SeenDown(next, k)' <=> SeenDown(next, k)
          /\ SeenUp(next, k)' <=> SeenUp(next, k)
          /\ Truth(next)' = Truth(next)
      BY <1>2 DEF Found, SeenDown, SeenUp, ReadUp, Truth
    <3> QED BY <1>2, <2>1, <3>1 DEF Owes, Rise, Later
  <2>3. One(Owes(Payer, k))' = One(Owes(next, k)) /\ One(OldReports)' = 0
    BY <1>2, <2>1, <2>2 DEF One
  <2>4. count[k] + One(Owes(next, k)) <= presses[k] + plays[k] + switches
    <3>1. One(Owes(Payer, k)) \in 0 .. 1 /\ One(Owes(next, k)) \in 0 .. 1
      BY DEF One
    <3>2. count[k] + One(Owes(Payer, k)) + One(OldReports) <= presses[k] + plays[k] + switches
      BY <1>1 DEF Budget, Spent, Bound
    <3>3. CASE OldReports
      BY <1>1, <3>1, <3>2, <3>3, OwnKeys DEF One, Natural
    <3>4. CASE ~OldReports
      <4>1. Payer = next /\ One(OldReports) = 0
        BY <3>4 DEF Payer, One
      <4> QED BY <1>1, <3>1, <3>2, <4>1, OwnKeys DEF Natural
    <3> QED BY <3>3, <3>4
  <2>5. One(Owes(next, k)) \in 0 .. 1
    BY DEF One
  <2> QED BY <1>1, <1>2, <2>3, <2>4, <2>5, OwnKeys DEF Spent, Bound, Natural
<1> QED BY <1>5, <1>6 DEF Within

LEMMA InitWithin == Init => Within
<1> SUFFICES ASSUME Init PROVE Within
  OBVIOUS
<1>1. Sound
  BY DEF Init, Sound, CallsMarked, InboxFresh, KindsApart, Agree, Found
<1>2. ASSUME NEW k \in OwnCodes PROVE Spent(k) <= Bound(k)
  <2>1. next \in Addrs /\ count[k] = 0 /\ presses[k] = One(k \in held) /\ plays[k] = 0 /\ switches = 0
    BY AddrsAssumption, OwnKeys DEF Init, One
  <2>2. ~OldReports /\ Payer = next
    BY DEF Init, OldReports, Payer
  <2>3. ~Found(next, k) /\ ~SeenDown(next, k) /\ Truth(next) = held
    BY <2>1 DEF Init, Found, SeenDown, Truth
  <2>4. Owes(next, k) => k \in held
    BY <2>3 DEF Owes, Rise, Later
  <2> QED BY <2>1, <2>2, <2>4 DEF Spent, Bound, One
<1> QED BY <1>1, <1>2 DEF Within, Budget

\* However presses, rounds, messages, changes of the game and switches interleave, a key
\* whose bytes are its own is counted at most once per press, per time the game shows it
\* newly down and per switch: _on_llkey_down tells only changes of its own monitor's
\* is_down, and set_implement takes the callback from the old monitor before it gives one
\* to the new one.  For any keys, conversion of indices, addresses, kinds and bounds.
THEOREM CountStaysBounded == Spec => []CountBounded
<1>1. IInv /\ Typed /\ Typed' /\ Within /\ [Next]_vars => Within'
  <2> SUFFICES ASSUME IInv, Typed, Typed', Within, [Next]_vars PROVE Within'
    OBVIOUS
  <2>1. CASE UNCHANGED vars
    <3>1. UNCHANGED <<held, presses, plays, playing, kind, is_down, calls, left, shot, mouseDue, hooked,
                      inbox, implement, next, pc, switches, count>>
      BY <2>1 DEF vars, environment, game, threads, poll, manager, receiver
    <3>2. Sound'
      BY <3>1 DEF Within, Sound, CallsMarked, InboxFresh, KindsApart, Agree, Found, ReadUp, OwnCodes, KeyOf
    <3>3. NoMore
      BY <3>1, OwesSame DEF NoMore
    <3> QED BY <3>1, <3>2, <3>3, TypedNatural, NoMoreWithin DEF Within
  <2> QED BY <2>1, UserWithin, GameWithin, MonitorWithin, MakeWithin, SwitchWithin DEF Next
<1>2. Typed /\ Within => CountBounded
  <2> SUFFICES ASSUME Typed, Within, NEW k \in OwnCodes PROVE count[k] <= presses[k] + plays[k] + switches
    BY DEF CountBounded
  <2>1. Natural /\ Budget
    BY TypedNatural DEF Within
  <2>2. One(Owes(Payer, k)) \in 0 .. 1 /\ One(OldReports) \in 0 .. 1
    BY DEF One
  <2> QED BY <2>1, <2>2, OwnKeys DEF Budget, Spent, Bound, Natural
<1>3. Spec => []Within
  BY <1>1, InitWithin, TypedInvariance, PTL DEF Spec
<1> QED BY <1>2, <1>3, TypedInvariance, PTL
=============================================================================
