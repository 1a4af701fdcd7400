-------------------------- MODULE HookThreadsProofs --------------------------
(***************************************************************************)
(* Proofs about HookThreads, for any addresses, thread ids and bounds: the *)
(* types, that no pointer leads to another hook, and that only a thread    *)
(* that was not at rest when it was unhooked can use a destroyed object.   *)
(***************************************************************************)
EXTENDS HookThreads, TLAPS

PastUnhook == {"unhooked", "erased", "dead"}

\* What holds of each hook: an entry in the map while it can be called, its own address
\* or nothing in its thread, and no more calls once it was removed at rest.
HookInv(h) ==
  /\ life[h] # "none" <=> pc[h] # "none"
  /\ pc[h] = "none" => tid[h] = "none"
  /\ pc[h] # "none" => tid[h] \in Tids /\ stage[h[1]] # "none"
  /\ life[h] = "started" => pc[h] = "waiting"
  /\ life[h] \in {"live", "unhooked"} => id2instance[h[2]][tid[h]] = h[1]
  /\ instance[h] \in {"null", h[1]}
  /\ pc[h] = "inside" => instance[h] = h[1]
  /\ life[h] \in PastUnhook /\ h \notin risky =>
       handle[h] /\ pc[h] \in {"looping", "ended"} /\ inbox[h] = "none" /\ ~installed[h]

MapInv(d, t) ==
  id2instance[d][t] \in Addrs =>
    /\ life[<<id2instance[d][t], d>>] \in {"live", "unhooked"}
    /\ tid[<<id2instance[d][t], d>>] = t

TidsDiffer == \A h, g \in Hooks : h # g /\ pc[h] # "none" => tid[h] # tid[g]

IInv ==
  /\ TypeOK
  /\ \A h \in Hooks : HookInv(h)
  /\ \A d \in Devices, t \in Tids : MapInv(d, t)
  /\ TidsDiffer
  /\ fault \subseteq risky

LEMMA HookParts ==
  ASSUME NEW h \in Hooks
  PROVE  h[1] \in Addrs /\ h[2] \in Devices /\ h = <<h[1], h[2]>>
BY DEF Hooks

LEMMA PairIsHook ==
  ASSUME NEW a \in Addrs, NEW d \in Devices
  PROVE  <<a, d>> \in Hooks /\ <<a, d>>[1] = a /\ <<a, d>>[2] = d
BY DEF Hooks

LEMMA InitInv == Init => IInv
<1> SUFFICES ASSUME Init PROVE IInv
  OBVIOUS
<1>1. TypeOK
  BY HooksAssumption DEF Init, TypeOK, Lives, Pcs
<1>2. \A h \in Hooks : HookInv(h)
  BY HookParts DEF Init, HookInv, PastUnhook
<1>3. \A d \in Devices, t \in Tids : MapInv(d, t)
  BY HooksAssumption DEF Init, MapInv
<1>4. TidsDiffer /\ fault \subseteq risky
  BY DEF Init, TidsDiffer
<1> QED
  BY <1>1, <1>2, <1>3, <1>4 DEF IInv

LEMMA TypingStep ==
  ASSUME TypeOK, \A h \in Hooks : HookInv(h), [Next]_vars
  PROVE  TypeOK'
<1> USE HooksAssumption DEF TypeOK, Lives, Pcs, monitors, objects, threads, system, keys
<1>1. ASSUME NEW a \in Addrs, Make(a) PROVE TypeOK'
  BY <1>1 DEF Make
<1>2. ASSUME NEW a \in Addrs, NEW d \in Devices, NEW t \in Tids, StartThread(a, d, t)
      PROVE  TypeOK'
  BY <1>2, PairIsHook DEF StartThread
<1>3. ASSUME NEW a \in Addrs, NEW d \in Devices, Register(a, d) PROVE TypeOK'
  <2>1. tid[<<a, d>>] \in Tids
    BY <1>3, PairIsHook DEF Register, HookInv
  <2>2. id2instance' \in [Devices -> [Tids -> Addrs \union {"absent", "null"}]]
    BY <1>3, <2>1 DEF Register
  <2>3. life' \in [Hooks -> Lives]
    BY <1>3, PairIsHook DEF Register
  <2> QED
    BY <1>3, <2>2, <2>3 DEF Register
<1>4. ASSUME NEW a \in Addrs, NEW d \in Devices, SetCallback(a, d) PROVE TypeOK'
  BY <1>4, PairIsHook DEF SetCallback
<1>5. ASSUME NEW new \in Addrs \union {"none"}, Replace(new) PROVE TypeOK'
  <2>1. stage' \in [Addrs -> {"none", "making", "live", "dying"}]
    BY <1>5 DEF Replace
  <2>2. listening' \in [Addrs -> BOOLEAN]
    BY <1>5 DEF Replace
  <2> QED
    BY <1>5, <2>1, <2>2 DEF Replace
<1>6. ASSUME NEW a \in Addrs, Listen(a) PROVE TypeOK'
  BY <1>6 DEF Listen
<1>7. ASSUME NEW a \in Addrs, NEW d \in Devices, Unhook(a, d) PROVE TypeOK'
  <2>1. installed' \in [Hooks -> BOOLEAN]
    BY <1>7, PairIsHook DEF Unhook, Removed
  <2>2. inbox' \in [Hooks -> {"none", "down", "up"}]
    <3>1. inbox' \in {inbox, [inbox EXCEPT ![<<a, d>>] = "none"]}
      BY <1>7 DEF Unhook
    <3> QED
      BY <3>1
  <2>4. risky' \in SUBSET Hooks
    BY <1>7, PairIsHook DEF Unhook
  <2>3. life' \in [Hooks -> Lives]
    BY <1>7, PairIsHook DEF Unhook
  <2> QED
    BY <1>7, <2>1, <2>2, <2>3, <2>4 DEF Unhook
<1>8. ASSUME NEW a \in Addrs, NEW d \in Devices, Erase(a, d) PROVE TypeOK'
  <2>1. tid[<<a, d>>] \in Tids
    BY <1>8, PairIsHook DEF Erase, HookInv
  <2>2. id2instance' \in [Devices -> [Tids -> Addrs \union {"absent", "null"}]]
    BY <1>8, <2>1 DEF Erase, Erased
  <2>3. life' \in [Hooks -> Lives]
    BY <1>8, PairIsHook DEF Erase
  <2> QED
    BY <1>8, <2>2, <2>3 DEF Erase
<1>9. ASSUME NEW a \in Addrs, NEW d \in Devices, DropMembers(a, d) PROVE TypeOK'
  BY <1>9, PairIsHook DEF DropMembers, Asked
<1>10. ASSUME NEW a \in Addrs, NEW d \in Devices, Join(a, d) PROVE TypeOK'
  <2>1. stage' \in [Addrs -> {"none", "making", "live", "dying"}]
    BY <1>10 DEF Join
  <2>2. is_down' \in [Addrs -> SUBSET Devices]
    BY <1>10 DEF Join
  <2>3. life' \in [Hooks -> Lives] /\ handle' \in [Hooks -> BOOLEAN] /\ pc' \in [Hooks -> Pcs]
    BY <1>10, PairIsHook DEF Join
  <2>4. /\ tid' \in [Hooks -> Tids \union {"none"}]
        /\ instance' \in [Hooks -> Addrs \union {"null"}]
        /\ quit' \in [Hooks -> BOOLEAN]
    BY <1>10, PairIsHook DEF Join
  <2>5. risky' \in SUBSET Hooks
    BY <1>10 DEF Join
  <2> QED
    BY <1>10, <2>1, <2>2, <2>3, <2>4, <2>5 DEF Join
<1>11. ASSUME NEW h \in Hooks, Install(h) PROVE TypeOK'
  <2>1. installed' \in [Hooks -> BOOLEAN] /\ pc' \in [Hooks -> Pcs] /\ fault' \in SUBSET Hooks
    <3>1. CASE life[h] = "dead"
      BY <1>11, <3>1 DEF Install
    <3>2. CASE life[h] # "dead"
      BY <1>11, <3>2 DEF Install
    <3> QED
      BY <3>1, <3>2
  <2> QED
    BY <1>11, <2>1 DEF Install
<1>12. ASSUME NEW h \in Hooks, StoreHandle(h) PROVE TypeOK'
  <2>1. handle' \in [Hooks -> BOOLEAN] /\ pc' \in [Hooks -> Pcs] /\ fault' \in SUBSET Hooks
    <3>1. CASE life[h] = "dead"
      BY <1>12, <3>1 DEF StoreHandle
    <3>2. CASE life[h] # "dead"
      BY <1>12, <3>2 DEF StoreHandle
    <3> QED
      BY <3>1, <3>2
  <2> QED
    BY <1>12, <2>1 DEF StoreHandle
<1>13. ASSUME NEW h \in Hooks, Call(h) PROVE TypeOK'
  <2>1. h[2] \in Devices /\ tid[h] \in Tids
    BY <1>13, HookParts DEF Call, HookInv
  <2> DEFINE a == Found(h)
  <2>2. a \in Addrs \union {"null"}
    BY <2>1 DEF Found
  <2>3. instance' \in [Hooks -> Addrs \union {"null"}]
    BY <1>13, <2>2 DEF Call
  <2>4. id2instance' \in [Devices -> [Tids -> Addrs \union {"absent", "null"}]]
    <3>1. id2instance' = [id2instance EXCEPT ![h[2]][tid[h]] =
                            IF instance[h] = "null" THEN a ELSE @]
      BY <1>13 DEF Call
    <3> HIDE DEF a
    <3> QED
      BY <2>1, <2>2, <3>1
  <2>5. is_down' \in [Addrs -> SUBSET Devices] /\ down' \in SUBSET Devices
    <3>1. CASE UNCHANGED keys
      BY <3>1
    <3>2. CASE a \in Addrs /\ OnLowLevelKey(a, h[2], inbox[h] = "down")
      <4> HIDE DEF a
      <4> QED
        BY <2>1, <3>2 DEF OnLowLevelKey
    <3> QED
      BY <1>13, <3>1, <3>2 DEF Call, Gone
  <2>6. pc' \in [Hooks -> Pcs] /\ inbox' \in [Hooks -> {"none", "down", "up"}]
        /\ fault' \in SUBSET Hooks
    BY <1>13 DEF Call
  <2> QED
    BY <1>13, <2>3, <2>4, <2>5, <2>6 DEF Call
<1>14. ASSUME NEW h \in Hooks, Leave(h) PROVE TypeOK'
  BY <1>14 DEF Leave
<1>15. ASSUME NEW h \in Hooks, End(h) PROVE TypeOK'
  BY <1>15 DEF End
<1>16. ASSUME NEW d \in Devices, Input(d) PROVE TypeOK'
  BY <1>16 DEF Input
<1>17. CASE UNCHANGED vars
  BY <1>17 DEF vars
<1> QED
  BY <1>1, <1>2, <1>3, <1>4, <1>5, <1>6, <1>7, <1>8, <1>9, <1>10, <1>11, <1>12, <1>13, <1>14,
     <1>15, <1>16, <1>17
     DEF Next, Construct, Destroy, Thread, Assign, SwitchAway

\* virtual_proc finds its own hook or none.
LEMMA CallFindsOwn ==
  ASSUME IInv, NEW h \in Hooks, pc[h] # "none"
  PROVE  /\ h[1] \in Addrs /\ h[2] \in Devices /\ tid[h] \in Tids
         /\ Found(h) \in {"null", h[1]}
<1> DEFINE a == id2instance[h[2]][tid[h]]
<1>1. h[1] \in Addrs /\ h[2] \in Devices /\ h = <<h[1], h[2]>> /\ tid[h] \in Tids
  BY HookParts DEF IInv, HookInv
<1>2. a \in Addrs \union {"absent", "null"}
  BY <1>1 DEF IInv, TypeOK
<1>3. ASSUME a \in Addrs PROVE a = h[1]
  <2>1. <<a, h[2]>> \in Hooks /\ tid[<<a, h[2]>>] = tid[h]
    BY <1>1, <1>3, PairIsHook DEF IInv, MapInv
  <2>2. h = <<a, h[2]>>
    BY <2>1 DEF IInv, TidsDiffer
  <2> QED
    BY <2>2, <1>1, <1>3, PairIsHook
<1> QED
  BY <1>1, <1>2, <1>3 DEF Found, IInv, HookInv

\* One step of one hook or of the main thread leaves the other hooks' facts alone.
LEMMA HookStep ==
  ASSUME IInv, TypeOK', [Next]_vars, NEW h \in Hooks
  PROVE  HookInv(h)'
<1> USE DEF monitors, objects, threads, system, keys
<1>0. TypeOK /\ HookInv(h) /\ TidsDiffer
  BY DEF IInv
<1> DEFINE k == <<h[1], h[2]>>
<1>k. h = k /\ h[1] \in Addrs /\ h[2] \in Devices
  BY HookParts
<1>1. ASSUME NEW a \in Addrs, Make(a) PROVE HookInv(h)'
  BY <1>0, <1>1, <1>k DEF Make, HookInv, TypeOK
<1>2. ASSUME NEW a \in Addrs, NEW d \in Devices, NEW t \in Tids, StartThread(a, d, t)
      PROVE  HookInv(h)'
  BY <1>0, <1>2, <1>k, PairIsHook DEF StartThread, HookInv, TypeOK, PastUnhook
<1>3. ASSUME NEW a \in Addrs, NEW d \in Devices, Register(a, d) PROVE HookInv(h)'
  <2> DEFINE g == <<a, d>>
  <2>1. g \in Hooks /\ g[1] = a /\ g[2] = d
    BY PairIsHook
  <2>2. pc[g] # "none" /\ tid[g] \in Tids /\ (h # g => tid[h] # tid[g])
    BY <1>0, <1>3, <2>1 DEF Register, IInv, HookInv, TidsDiffer
  <2>3. id2instance' = [id2instance EXCEPT ![d][tid[g]] = a]
    BY <1>3 DEF Register
  <2> HIDE DEF g
  <2>4. life' = [life EXCEPT ![g] = "live"] /\ UNCHANGED <<monitors, handle, callback, threads, system, risky>>
    BY <1>3 DEF Register, g
  <2> QED
    BY <1>0, <1>k, <2>1, <2>2, <2>3, <2>4 DEF HookInv, TypeOK, PastUnhook
<1>4. ASSUME NEW a \in Addrs, NEW d \in Devices, SetCallback(a, d) PROVE HookInv(h)'
  BY <1>0, <1>4 DEF SetCallback, HookInv
<1>5. ASSUME NEW new \in Addrs \union {"none"}, Replace(new) PROVE HookInv(h)'
  BY <1>0, <1>5, <1>k DEF Replace, HookInv, TypeOK
<1>6. ASSUME NEW a \in Addrs, Listen(a) PROVE HookInv(h)'
  BY <1>0, <1>6, <1>k DEF Listen, HookInv, TypeOK
<1>7. ASSUME NEW a \in Addrs, NEW d \in Devices, Unhook(a, d) PROVE HookInv(h)'
  <2> DEFINE g == <<a, d>>
  <2>1. g \in Hooks /\ g[1] = a /\ g[2] = d
    BY PairIsHook
  <2> HIDE DEF g
  <2>2. /\ life[g] = "live" /\ life' = [life EXCEPT ![g] = "unhooked"]
        /\ installed' = [installed EXCEPT ![g] = @ /\ ~handle[g]]
        /\ inbox' = inbox \/ inbox' = [inbox EXCEPT ![g] = "none"]
        /\ risky' = IF AtRest(g) THEN risky ELSE risky \union {g}
        /\ UNCHANGED <<monitors, handle, callback, id2instance, threads>>
    BY <1>7 DEF Unhook, Removed, g
  <2>3. CASE h = g
    <3>1. installed'[g] = (installed[g] /\ ~handle[g])
      BY <1>0, <2>1, <2>2 DEF TypeOK
    <3>2. AtRest(g) => inbox'[g] = "none"
      BY <1>0, <2>1, <2>2 DEF TypeOK, AtRest
    <3>3. ~AtRest(g) => g \in risky'
      BY <2>2
    <3>4. life'[g] = "unhooked"
      BY <1>0, <2>1, <2>2 DEF TypeOK
    <3> QED
      BY <1>0, <2>1, <2>2, <2>3, <3>1, <3>2, <3>3, <3>4 DEF HookInv, AtRest, PastUnhook
  <2>4. CASE h # g
    <3>1. inbox'[h] \in {inbox[h], "none"} /\ installed'[h] = installed[h] /\ life'[h] = life[h]
          /\ (h \in risky' <=> h \in risky)
      BY <1>0, <2>1, <2>2, <2>4 DEF TypeOK
    <3> QED
      BY <1>0, <2>2, <3>1 DEF HookInv
  <2> QED
    BY <2>3, <2>4
<1>8. ASSUME NEW a \in Addrs, NEW d \in Devices, Erase(a, d) PROVE HookInv(h)'
  <2> DEFINE g == <<a, d>>
  <2>1. g \in Hooks /\ g[1] = a /\ g[2] = d
    BY PairIsHook
  <2>2. pc[g] # "none" /\ tid[g] \in Tids /\ (h # g => tid[h] # tid[g])
    BY <1>0, <1>8, <2>1 DEF Erase, IInv, HookInv, TidsDiffer
  <2>3. id2instance' = [id2instance EXCEPT ![d][tid[g]] = "absent"]
    BY <1>8 DEF Erase, Erased
  <2> HIDE DEF g
  <2>4. /\ life[g] = "unhooked" /\ life' = [life EXCEPT ![g] = "erased"]
        /\ UNCHANGED <<monitors, handle, callback, threads, system, risky>>
    BY <1>8 DEF Erase, g
  <2> QED
    BY <1>0, <1>k, <2>1, <2>2, <2>3, <2>4 DEF HookInv, TypeOK, PastUnhook
<1>9. ASSUME NEW a \in Addrs, NEW d \in Devices, DropMembers(a, d) PROVE HookInv(h)'
  <2> DEFINE g == <<a, d>>
  <2>1. g \in Hooks
    BY PairIsHook
  <2> HIDE DEF g
  <2>2. /\ life[g] = "erased" /\ life' = [life EXCEPT ![g] = "dead"]
        /\ UNCHANGED <<monitors, handle, id2instance, pc, tid, instance, system, risky>>
    BY <1>9 DEF DropMembers, g
  <2> QED
    BY <1>0, <2>1, <2>2 DEF HookInv, TypeOK, PastUnhook
<1>10. ASSUME NEW a \in Addrs, NEW d \in Devices, Join(a, d) PROVE HookInv(h)'
  <2> DEFINE g == <<a, d>>
  <2>1. g \in Hooks /\ g[1] = a /\ g[2] = d
    BY PairIsHook
  <2>2. d = "keyboard" /\ h # g /\ h[1] = a => pc[h] = "none"
    BY <1>0, <1>10, <1>k, <2>1 DEF Join, Dying, HookInv, Devices
  <2> HIDE DEF g
  <2>3. /\ life' = [life EXCEPT ![g] = "none"] /\ pc' = [pc EXCEPT ![g] = "none"]
        /\ tid' = [tid EXCEPT ![g] = "none"] /\ instance' = [instance EXCEPT ![g] = "null"]
        /\ handle' = [handle EXCEPT ![g] = FALSE] /\ risky' = risky \ {g}
        /\ UNCHANGED <<id2instance, installed, inbox>>
        /\ stage' = IF d = "keyboard" THEN [stage EXCEPT ![a] = "none"] ELSE stage
    BY <1>10 DEF Join, Devices, g
  <2> QED
    BY <1>0, <1>k, <2>1, <2>2, <2>3 DEF HookInv, TypeOK, PastUnhook
<1>11. ASSUME NEW g \in Hooks, Install(g) PROVE HookInv(h)'
  BY <1>0, <1>11 DEF Install, Released, HookInv, TypeOK, PastUnhook
<1>12. ASSUME NEW g \in Hooks, StoreHandle(g) PROVE HookInv(h)'
  BY <1>0, <1>12 DEF StoreHandle, HookInv, TypeOK, PastUnhook
<1>13. ASSUME NEW g \in Hooks, Call(g) PROVE HookInv(h)'
  <2>1. g[1] \in Addrs /\ g[2] \in Devices /\ tid[g] \in Tids /\ Found(g) \in {"null", g[1]}
    BY <1>0, <1>13, CallFindsOwn DEF Call
  <2> DEFINE e == IF instance[g] = "null" THEN Found(g) ELSE id2instance[g[2]][tid[g]]
  <2>2. id2instance' = [id2instance EXCEPT ![g[2]][tid[g]] = e]
    BY <1>13 DEF Call
  <2>3. life[h] \in {"live", "unhooked"} =>
          id2instance'[h[2]][tid[h]] = id2instance[h[2]][tid[h]]
    <3>1. h[2] = g[2] /\ tid[h] = tid[g] /\ life[h] \in {"live", "unhooked"} =>
            e = id2instance[h[2]][tid[h]]
      BY <1>0, <1>k, HooksAssumption DEF Found, HookInv
    <3> HIDE DEF e
    <3> QED
      BY <1>0, <1>k, <2>1, <2>2, <3>1 DEF TypeOK
  <2>4. instance' = [instance EXCEPT ![g] = Found(g)] /\ UNCHANGED <<life, tid, stage, handle, installed, risky>>
    BY <1>13 DEF Call
  <2>5. /\ pc' = pc \/ (Found(g) \in Addrs /\ pc' = [pc EXCEPT ![g] = "inside"])
        /\ inbox' = inbox \/ inbox' = [inbox EXCEPT ![g] = "none"]
        /\ pc[g] = "looping" /\ inbox[g] # "none"
    BY <1>13 DEF Call, Gone
  <2>6. HookInv(h)!1' /\ HookInv(h)!2' /\ HookInv(h)!3' /\ HookInv(h)!4'
    BY <1>0, <2>4, <2>5 DEF HookInv, TypeOK
  <2>7. HookInv(h)!5'
    BY <1>0, <2>3, <2>4 DEF HookInv
  <2>8. HookInv(h)!6' /\ HookInv(h)!7'
    BY <1>0, <2>1, <2>4, <2>5, HooksAssumption DEF HookInv, TypeOK
  <2>9. HookInv(h)!8'
    BY <1>0, <2>4, <2>5 DEF HookInv, TypeOK, PastUnhook
  <2> QED
    BY <2>6, <2>7, <2>8, <2>9 DEF HookInv
<1>15. ASSUME NEW g \in Hooks, Leave(g) PROVE HookInv(h)'
  BY <1>0, <1>15 DEF Leave, HookInv, TypeOK, PastUnhook
<1>16. ASSUME NEW g \in Hooks, End(g) PROVE HookInv(h)'
  BY <1>0, <1>16 DEF End, HookInv, TypeOK, PastUnhook
<1>17. ASSUME NEW d \in Devices, Input(d) PROVE HookInv(h)'
  BY <1>0, <1>17 DEF Input, HookInv, TypeOK
<1>18. CASE UNCHANGED vars
  BY <1>0, <1>18 DEF vars, HookInv
<1> QED
  BY <1>1, <1>2, <1>3, <1>4, <1>5, <1>6, <1>7, <1>8, <1>9, <1>10, <1>11, <1>12, <1>13, <1>15,
     <1>16, <1>17, <1>18
     DEF Next, Construct, Destroy, Thread, Assign, SwitchAway
\* An entry of the map is made by its hook and taken out before the hook is gone.
LEMMA MapStep ==
  ASSUME IInv, TypeOK', [Next]_vars, NEW d \in Devices, NEW t \in Tids
  PROVE  MapInv(d, t)'
<1> USE DEF monitors, objects, threads, system, keys
<1>0. TypeOK /\ MapInv(d, t)
  BY DEF IInv
<1> DEFINE Own(g) == g \in Hooks /\ g[2] = d /\ tid[g] = t
<1>1. ASSUME id2instance'[d][t] = id2instance[d][t],
             \A g \in Hooks : life[g] \in {"live", "unhooked"} =>
               life'[g] \in {"live", "unhooked"} /\ tid'[g] = tid[g]
      PROVE  MapInv(d, t)'
  BY <1>0, <1>1, PairIsHook DEF MapInv
<1>2. ASSUME NEW a \in Addrs, NEW e \in Devices, NEW u \in Tids, StartThread(a, e, u)
      PROVE  MapInv(d, t)'
  BY <1>0, <1>1, <1>2, PairIsHook DEF StartThread, TypeOK
<1>3. ASSUME NEW a \in Addrs, NEW e \in Devices, Register(a, e) PROVE MapInv(d, t)'
  <2> DEFINE g == <<a, e>>
  <2>1. g \in Hooks /\ tid[g] \in Tids /\ life' = [life EXCEPT ![g] = "live"]
        /\ tid' = tid /\ id2instance' = [id2instance EXCEPT ![e][tid[g]] = a]
    BY <1>3, PairIsHook DEF Register, IInv, HookInv
  <2>2. CASE e = d /\ tid[g] = t
    BY <1>0, <2>1, <2>2 DEF MapInv, TypeOK
  <2>3. CASE ~(e = d /\ tid[g] = t)
    <3> HIDE DEF g
    <3> QED
      BY <1>0, <1>1, <2>1, <2>3 DEF TypeOK
  <2> QED
    BY <2>2, <2>3
<1>4. ASSUME NEW a \in Addrs, NEW e \in Devices, Unhook(a, e) PROVE MapInv(d, t)'
  BY <1>0, <1>1, <1>4, PairIsHook DEF Unhook, TypeOK
<1>5. ASSUME NEW a \in Addrs, NEW e \in Devices, Erase(a, e) PROVE MapInv(d, t)'
  <2> DEFINE g == <<a, e>>
  <2>1. g \in Hooks /\ tid[g] \in Tids /\ life' = [life EXCEPT ![g] = "erased"]
        /\ tid' = tid /\ id2instance' = [id2instance EXCEPT ![e][tid[g]] = "absent"]
    BY <1>5, PairIsHook DEF Erase, Erased, IInv, HookInv
  <2>2. CASE id2instance'[d][t] \notin Addrs
    BY <2>2 DEF MapInv
  <2>3. CASE id2instance'[d][t] \in Addrs
    <3> DEFINE k == <<id2instance[d][t], d>>
    <3>1. id2instance'[d][t] = id2instance[d][t] /\ ~(e = d /\ tid[g] = t)
      <4> HIDE DEF g
      <4> QED
        BY <1>0, <2>1, <2>3, HooksAssumption DEF TypeOK
    <3>2. k \in Hooks /\ life[k] \in {"live", "unhooked"} /\ tid[k] = t /\ k # g
      BY <1>0, <2>3, <3>1, PairIsHook DEF MapInv
    <3>3. life'[k] = life[k]
      <4> HIDE DEF g, k
      <4> QED
        BY <1>0, <2>1, <3>2 DEF TypeOK
    <3> QED
      BY <2>1, <3>1, <3>2, <3>3 DEF MapInv
  <2> QED
    BY <2>2, <2>3
<1>6. ASSUME NEW a \in Addrs, NEW e \in Devices, DropMembers(a, e) \/ Join(a, e)
      PROVE  MapInv(d, t)'
  <2> DEFINE g == <<a, e>>
  <2>1. /\ g \in Hooks /\ life[g] \in {"erased", "dead"} /\ id2instance' = id2instance
        /\ life' = [life EXCEPT ![g] = life'[g]] /\ tid' = [tid EXCEPT ![g] = tid'[g]]
    BY <1>0, <1>6, PairIsHook DEF DropMembers, Join, TypeOK
  <2> HIDE DEF g
  <2> QED
    BY <1>0, <1>1, <2>1 DEF TypeOK
<1>7. ASSUME NEW h \in Hooks, Call(h) PROVE MapInv(d, t)'
  <2>1. h[2] \in Devices /\ tid[h] \in Tids /\ life' = life /\ tid' = tid
    BY <1>7, CallFindsOwn DEF Call
  <2> DEFINE e == IF instance[h] = "null" THEN Found(h) ELSE id2instance[h[2]][tid[h]]
  <2>2. id2instance' = [id2instance EXCEPT ![h[2]][tid[h]] = e]
    BY <1>7 DEF Call
  <2>3. e \notin Addrs \/ e = id2instance[h[2]][tid[h]]
    BY HooksAssumption DEF Found
  <2> HIDE DEF e
  <2>4. id2instance'[d][t] \notin Addrs \/ id2instance'[d][t] = id2instance[d][t]
    BY <1>0, <2>1, <2>2, <2>3 DEF TypeOK
  <2> QED
    BY <1>0, <2>1, <2>4 DEF MapInv
<1>8. ASSUME UNCHANGED <<life, id2instance, tid>> PROVE MapInv(d, t)'
  BY <1>0, <1>8 DEF MapInv
<1> QED
  BY <1>2, <1>3, <1>4, <1>5, <1>6, <1>7, <1>8
     DEF Next, Construct, Destroy, Thread, Assign, SwitchAway, Make, Replace, Listen, SetCallback,
         Install, StoreHandle, Leave, End, Input, vars

\* A thread that starts gets an id that no other thread has.
LEMMA TidsStep == ASSUME IInv, TypeOK', [Next]_vars PROVE TidsDiffer'
<1> USE DEF monitors, objects, threads, system, keys
<1>0. TypeOK /\ TidsDiffer
  BY DEF IInv
<1>1. ASSUME NEW a \in Addrs, NEW d \in Devices, NEW t \in Tids, StartThread(a, d, t)
      PROVE  TidsDiffer'
  <2> DEFINE g == <<a, d>>
  <2>1. g \in Hooks /\ \A h \in Hooks : tid[h] # t
    BY <1>1, PairIsHook DEF StartThread, FreeTids
  <2>2. pc' = [pc EXCEPT ![g] = "waiting"] /\ tid' = [tid EXCEPT ![g] = t]
    BY <1>1 DEF StartThread
  <2> HIDE DEF g
  <2> QED
    BY <1>0, <2>1, <2>2 DEF TidsDiffer, TypeOK
<1>2. ASSUME NEW a \in Addrs, NEW d \in Devices, Join(a, d) PROVE TidsDiffer'
  <2> DEFINE g == <<a, d>>
  <2>1. g \in Hooks /\ \A h \in Hooks : pc[h] # "none" => tid[h] # "none"
    BY PairIsHook, HooksAssumption DEF IInv, HookInv
  <2>2. pc' = [pc EXCEPT ![g] = "none"] /\ tid' = [tid EXCEPT ![g] = "none"]
    BY <1>2 DEF Join
  <2> HIDE DEF g
  <2> QED
    BY <1>0, <2>1, <2>2 DEF TidsDiffer, TypeOK
<1>3. ASSUME tid' = tid, \A h \in Hooks : pc'[h] # "none" => pc[h] # "none" PROVE TidsDiffer'
  BY <1>0, <1>3 DEF TidsDiffer
<1>4. ASSUME NEW h \in Hooks, Thread(h) PROVE TidsDiffer'
  <2>1. tid' = tid /\ pc[h] # "none"
    BY <1>4 DEF Thread, Install, StoreHandle, Call, Leave, End
  <2>2. pc' = [pc EXCEPT ![h] = pc'[h]]
    BY <1>0, <1>4 DEF Thread, Install, StoreHandle, Call, Leave, End, TypeOK
  <2> QED
    BY <1>0, <1>3, <2>1, <2>2 DEF TypeOK
<1>5. ASSUME UNCHANGED <<pc, tid>> PROVE TidsDiffer'
  BY <1>3, <1>5
<1>6. ASSUME NEW a \in Addrs, NEW d \in Devices,
             \/ Register(a, d) \/ SetCallback(a, d) \/ Unhook(a, d) \/ Erase(a, d)
             \/ DropMembers(a, d)
      PROVE  TidsDiffer'
  BY <1>5, <1>6 DEF Register, SetCallback, Unhook, Erase, DropMembers
<1>7. ASSUME NEW a \in Addrs, Make(a) \/ Assign(a) \/ Listen(a) PROVE TidsDiffer'
  BY <1>5, <1>7 DEF Make, Assign, Listen, Replace
<1>8. CASE SwitchAway \/ UNCHANGED vars
  BY <1>5, <1>8 DEF SwitchAway, Replace, vars
<1>9. ASSUME NEW d \in Devices, Input(d) PROVE TidsDiffer'
  BY <1>5, <1>9 DEF Input
<1> QED
  BY <1>1, <1>2, <1>4, <1>6, <1>7, <1>8, <1>9 DEF Next, Construct, Destroy

\* What a thread finds gone is its own hook, and that was not at rest when unhooked.
LEMMA FaultStep == ASSUME IInv, [Next]_vars PROVE (fault \subseteq risky)'
<1> USE DEF monitors, objects, threads, system, keys
<1>1. ASSUME NEW h \in Hooks, Install(h) \/ StoreHandle(h) PROVE (fault \subseteq risky)'
  <2>1. HookInv(h) /\ pc[h] \in {"waiting", "storing"} /\ fault = {} /\ risky' = risky
    BY <1>1 DEF Install, StoreHandle, IInv
  <2>2. life[h] = "dead" => h \in risky
    BY <2>1 DEF HookInv, PastUnhook
  <2> QED
    BY <1>1, <2>1, <2>2 DEF Install, StoreHandle
<1>2. ASSUME NEW h \in Hooks, Call(h) PROVE (fault \subseteq risky)'
  <2>1. /\ h = <<h[1], h[2]>> /\ h[1] \in Addrs /\ Found(h) \in {"null", h[1]}
        /\ pc[h] = "looping" /\ inbox[h] # "none" /\ fault = {} /\ risky' = risky
    BY <1>2, HookParts, CallFindsOwn DEF Call
  <2>2. HookInv(h) /\ life[h] \in Lives
    BY DEF IInv, TypeOK
  <2>3. CASE Gone(Found(h), h[2])
    <3>1. life[h] # "started" /\ life[h] # "none"
      BY <2>1, <2>2 DEF HookInv
    <3>2. ASSUME life[h] = "live" PROVE FALSE
      <4>1. Found(h) = h[1]
        BY <2>1, <2>2, <3>2, HooksAssumption DEF HookInv, Found
      <4> QED
        BY <2>1, <2>3, <3>2, <4>1 DEF Gone
    <3>3. h \in risky
      BY <2>1, <2>2, <3>1, <3>2 DEF HookInv, Lives, PastUnhook
    <3> QED
      BY <1>2, <2>1, <2>3, <3>3 DEF Call
  <2>4. CASE ~Gone(Found(h), h[2])
    BY <1>2, <2>1, <2>4 DEF Call
  <2> QED
    BY <2>3, <2>4
<1>3. ASSUME NEW h \in Hooks, Leave(h) PROVE (fault \subseteq risky)'
  <2>1. h = <<h[1], h[2]>> /\ h[1] \in Addrs /\ HookInv(h) /\ pc[h] = "inside" /\ fault = {} /\ risky' = risky
    BY <1>3, HookParts DEF Leave, IInv
  <2>2. Gone(instance[h], h[2]) => h \in risky
    BY <2>1 DEF HookInv, Gone, PastUnhook
  <2> QED
    BY <1>3, <2>1, <2>2 DEF Leave
<1>4. ASSUME fault = {}, fault' = fault PROVE (fault \subseteq risky)'
  BY <1>4
<1>5. CASE UNCHANGED vars
  BY <1>5 DEF vars, IInv
<1>6. ASSUME NEW a \in Addrs, NEW d \in Devices,
             (\E t \in Tids : StartThread(a, d, t)) \/ Register(a, d) \/ SetCallback(a, d)
      PROVE  (fault \subseteq risky)'
  BY <1>4, <1>6 DEF StartThread, Register, SetCallback
<1>7. ASSUME NEW a \in Addrs, NEW d \in Devices,
             Unhook(a, d) \/ Erase(a, d) \/ DropMembers(a, d) \/ Join(a, d)
      PROVE  (fault \subseteq risky)'
  BY <1>4, <1>7 DEF Dying, Unhook, Erase, DropMembers, Join
<1>8. ASSUME NEW a \in Addrs, Make(a) \/ Assign(a) \/ Listen(a)
      PROVE  (fault \subseteq risky)'
  BY <1>4, <1>8 DEF Make, Assign, Listen, Replace
<1>9. ASSUME NEW h \in Hooks, End(h) PROVE (fault \subseteq risky)'
  BY <1>4, <1>9 DEF End
<1>10. CASE SwitchAway
  BY <1>4, <1>10 DEF SwitchAway, Replace
<1>11. ASSUME NEW d \in Devices, Input(d) PROVE (fault \subseteq risky)'
  BY <1>4, <1>11 DEF Input
<1> QED
  BY <1>1, <1>2, <1>3, <1>5, <1>6, <1>7, <1>8, <1>9, <1>10, <1>11
     DEF Next, Construct, Destroy, Thread

LEMMA Invariance == Spec => []IInv
<1>1. IInv /\ [Next]_vars => IInv'
  <2> SUFFICES ASSUME IInv, [Next]_vars PROVE IInv'
    OBVIOUS
  <2>1. TypeOK'
    BY TypingStep DEF IInv
  <2> QED
    BY <2>1, HookStep, MapStep, TidsStep, FaultStep DEF IInv
<1> QED
  BY <1>1, InitInv, PTL DEF Spec

\* Every variable keeps its type, whatever is created, destroyed and reused.
THEOREM Typing == Spec => []TypeOK
<1>1. IInv => TypeOK
  BY DEF IInv
<1> QED
  BY <1>1, Invariance, PTL

\* The static maps and thread_local pointers lead to no other hook: with reused
\* addresses and thread ids, and any number of monitors.
THEOREM OwnInstance == Spec => []NoDanglingInstance
<1>1. IInv => NoDanglingInstance
  <2> SUFFICES ASSUME IInv PROVE NoDanglingInstance
    OBVIOUS
  <2>1. \A h \in Hooks : HookInv(h)
    BY DEF IInv
  <2>2. \A d \in Devices, t \in Tids : MapInv(d, t)
    BY DEF IInv
  <2> QED
    BY <2>1, <2>2 DEF NoDanglingInstance, HookInv, MapInv
<1> QED
  BY <1>1, Invariance, PTL

\* A destroyed hook is used only by a thread that was not at rest when its hook was
\* removed: the race the destructor leaves, and no other.
THEOREM FaultsAreRaces == Spec => []FaultNeedsRace
<1>1. IInv => FaultNeedsRace
  BY DEF IInv, FaultNeedsRace
<1> QED
  BY <1>1, Invariance, PTL
=============================================================================
