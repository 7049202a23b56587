-------------------------- MODULE ZipOpenFsProofs ---------------------------
(* ZipOpenFs for any archives, any finite set of calls and any limit.       *)
EXTENDS ZipOpenFs, FiniteSetTheorems, TLAPS

\* The calls whose accept works on object i.
CallsOn(i) == {c \in Callers : call[c].pc = "accept" /\ call[c].inst = i}

\* What a call that waits or works carries.
CallShape ==
    \A c \in Callers :
        /\ call[c].pc = "stat" => call[c].arc \in Archives
        /\ call[c].pc = "accept" => call[c].inst \in Insts

\* refCount counts the calls inside the archive.
RefsCount == \A i \in Insts : refs[i] = Cardinality(CallsOn(i))

\* The map holds the open objects, one for each archive.
MapOpen == \A i \in Insts : i \in cached <=> status[i] = "open"
OnePerArchive == \A i, j \in cached : arc[i] = arc[j] => i = j

\* What calls and handles use is in the map.
UsedIsCached ==
    closedAll = "no" =>
        /\ \A c \in Callers : call[c].pc = "accept" => call[c].inst \in cached
        /\ \A h \in Handles : handle[h] # Shut => handle[h].inst \in cached

\* A handle a call is about to return is its own, and is not closed before.
FreshIsOwned ==
    /\ \A c \in Callers :
          call[c].pc = "accept" /\ call[c].h # None =>
              call[c].h \in Handles /\ handle[call[c].h].st = "fresh"
    /\ \A c, d \in Callers :
          call[c].pc = "accept" /\ call[d].pc = "accept" /\ call[c].h = call[d].h =>
              c = d \/ call[c].h = None

ZoInv ==
    /\ ZoTypeOK /\ CallShape /\ RefsCount /\ FreshIsOwned
    /\ MapOpen /\ OnePerArchive /\ UsedIsCached /\ TimerArmed

-----------------------------------------------------------------------------
(* Counting calls.                                                          *)

\* There are finitely many calls on an object, and refCount is 0 only when
\* there is none.
LEMMA NoRefsNoCalls ==
  ASSUME ZoTypeOK, RefsCount, NEW i \in Insts
  PROVE  /\ IsFiniteSet(CallsOn(i))
         /\ refs[i] = 0 <=> CallsOn(i) = {}
<1>1. IsFiniteSet(CallsOn(i))
  BY CallersAssumption, FS_Subset DEF CallsOn
<1> QED
  BY <1>1, FS_EmptySet DEF RefsCount

\* A call that enters object i is one more on it.
LEMMA OneMoreCall ==
  ASSUME ZoTypeOK, RefsCount, NEW c \in Callers, NEW i \in Insts, NEW r \in CallState,
         call[c].pc # "accept", r.pc = "accept", r.inst = i,
         call' = [call EXCEPT ![c] = r]
  PROVE  /\ Cardinality(CallsOn(i))' = Cardinality(CallsOn(i)) + 1
         /\ \A j \in Insts \ {i} : CallsOn(j)' = CallsOn(j)
<1>1. CallsOn(i)' = CallsOn(i) \cup {c} /\ c \notin CallsOn(i)
  BY DEF CallsOn, ZoTypeOK, CallState
<1>2. \A j \in Insts \ {i} : CallsOn(j)' = CallsOn(j)
  BY DEF CallsOn, ZoTypeOK, CallState
<1> QED
  BY <1>1, <1>2, NoRefsNoCalls, FS_AddElement

\* One that leaves it is one less, and there was one.
LEMMA OneCallLess ==
  ASSUME ZoTypeOK, RefsCount, NEW c \in Callers, NEW i \in Insts,
         call[c].pc = "accept", call[c].inst = i,
         call' = [call EXCEPT ![c] = Rest]
  PROVE  /\ Cardinality(CallsOn(i)) \in Nat \ {0}
         /\ Cardinality(CallsOn(i))' = Cardinality(CallsOn(i)) - 1
         /\ \A j \in Insts \ {i} : CallsOn(j)' = CallsOn(j)
<1>1. CallsOn(i)' = CallsOn(i) \ {c} /\ c \in CallsOn(i)
  BY DEF CallsOn, ZoTypeOK, CallState, Rest
<1>2. \A j \in Insts \ {i} : CallsOn(j)' = CallsOn(j)
  BY DEF CallsOn, ZoTypeOK, CallState, Rest
<1>3. Cardinality(CallsOn(i)) \in Nat \ {0}
  BY <1>1, NoRefsNoCalls, FS_EmptySet, FS_CardinalityType
<1> QED
  BY <1>1, <1>2, <1>3, NoRefsNoCalls, FS_RemoveElement

\* An object that a call or a handle uses is pinned.
LEMMA UsedIsPinned ==
  ASSUME ZoTypeOK, RefsCount, CallShape
  PROVE  /\ \A c \in Callers : call[c].pc = "accept" => Pinned(call[c].inst)
         /\ \A h \in Handles : Pinned(handle[h].inst)
<1>1. ASSUME NEW c \in Callers, call[c].pc = "accept"
      PROVE  Pinned(call[c].inst)
  <2>1. call[c].inst \in Insts /\ c \in CallsOn(call[c].inst)
    BY <1>1 DEF CallsOn, CallShape
  <2> QED
    BY <2>1, NoRefsNoCalls DEF Pinned
<1> QED
  BY <1>1 DEF Pinned

-----------------------------------------------------------------------------
(* limitOpenFiles and the end of getZip.                                    *)

\* Nothing pinned is closed, and nothing outside the map.
LEMMA ToCloseIdle ==
  ASSUME NEW M, NEW max
  PROVE  ToClose(M, max) \subseteq M /\ \A i \in ToClose(M, max) : ~Pinned(i)
  BY DEF ToClose

\* Whatever is closed on the way, the map holds the open objects and one of an
\* archive, the one served among them.
LEMMA TouchKeepsMap ==
  ASSUME ZoInv, NEW i \in Insts, NEW a \in Archives, Instance(i, a), Touch(i, a, Excess(i))
  PROVE  /\ cached' \in SUBSET Insts /\ older' \in SUBSET (Insts \X Insts)
         /\ arc' \in [Insts -> Archives \cup {None}]
         /\ status' \in [Insts -> {"free", "open", "closed"}]
         /\ expired' \in [Insts -> {"yes", "no"}] /\ timer' = "set"
         /\ MapOpen' /\ OnePerArchive'
         /\ i \in cached' /\ \A j \in cached : Pinned(j) => j \in cached'
<1> DEFINE C == Excess(i)
           rest == (cached \ {i}) \ C
<1>1. C \subseteq cached \ {i} /\ \A j \in C : ~Pinned(j)
  BY ToCloseIdle DEF Excess
<1>2. cached' = rest \cup {i} /\ rest \subseteq Insts
  BY DEF Touch, ZoInv, ZoTypeOK
<1>3. older' \in SUBSET (Insts \X Insts)
  BY <1>2 DEF Touch, ZoInv, ZoTypeOK
<1>4. /\ arc' = [j \in Insts |-> IF j = i THEN a ELSE IF j \in C THEN None ELSE arc[j]]
      /\ arc' \in [Insts -> Archives \cup {None}]
  BY DEF Touch, Without, ZoInv, ZoTypeOK
<1>5. /\ status' = [j \in Insts |-> IF j = i THEN "open"
                                    ELSE IF j \notin C THEN status[j]
                                    ELSE IF Pinned(j) THEN "closed" ELSE "free"]
      /\ status' \in [Insts -> {"free", "open", "closed"}]
  BY DEF Touch, Close, ZoInv, ZoTypeOK
<1>6. expired' \in [Insts -> {"yes", "no"}] /\ timer' = "set"
  BY DEF Touch, Without, ZoInv, ZoTypeOK
<1>7. MapOpen'
  <2> SUFFICES ASSUME NEW j \in Insts PROVE j \in cached' <=> status'[j] = "open"
    BY DEF MapOpen
  <2> QED
    BY <1>1, <1>2, <1>5 DEF ZoInv, MapOpen
<1>8. OnePerArchive'
  <2>1. \A j \in rest : arc[j] # a
    BY <1>1 DEF Instance, CachedFor, ZoInv, OnePerArchive
  <2>2. \A j \in rest : arc'[j] = arc[j]
    BY <1>2, <1>4
  <2> QED
    BY <1>2, <1>4, <2>1, <2>2 DEF ZoInv, OnePerArchive
<1>9. i \in cached' /\ \A j \in cached : Pinned(j) => j \in cached'
  BY <1>1, <1>2
<1> QED
  BY <1>2, <1>3, <1>4, <1>5, <1>6, <1>7, <1>8, <1>9

-----------------------------------------------------------------------------
(* The invariant.                                                           *)

\* The invariant holds initially.
LEMMA ZoInitInv == Init => ZoInv
<1> SUFFICES ASSUME Init PROVE ZoInv
  OBVIOUS
<1> USE DEF Init
<1>1. ZoTypeOK
  BY DEF ZoTypeOK, Shut, Rest, HandleState, CallState, Ops
<1>2. RefsCount
  <2>1. \A i \in Insts : CallsOn(i) = {}
    BY DEF CallsOn, Rest
  <2> QED
    BY <2>1, FS_EmptySet DEF RefsCount
<1>3. CallShape /\ FreshIsOwned /\ MapOpen /\ OnePerArchive /\ UsedIsCached /\ TimerArmed
  BY DEF CallShape, FreshIsOwned, Rest, MapOpen, OnePerArchive, UsedIsCached, Shut, TimerArmed
<1> QED
  BY <1>1, <1>2, <1>3 DEF ZoInv

\* A synchronous operation: the map is touched, no call comes or goes, and an
\* object that was not in the map begins without references.
LEMMA SyncInv ==
  ASSUME ZoInv, NEW i \in Insts, NEW a \in Archives, Instance(i, a), Touch(i, a, Excess(i)),
         refs' = IF CachedFor(a) = {} THEN [refs EXCEPT ![i] = 0] ELSE refs,
         UNCHANGED <<call, closedAll>>, outer' \in Insts \cup {None},
         \/ UNCHANGED handle
         \/ \E h \in Handles :
               handle[h] = Shut /\ handle' = [handle EXCEPT ![h] = [st |-> "open", inst |-> i]]
  PROVE  ZoInv'
<1> USE TouchKeepsMap
<1>1. \A j \in Insts : CallsOn(j)' = CallsOn(j)
  BY DEF CallsOn
<1>2. RefsCount'
  <2>1. CASE CachedFor(a) = {}
    <3>1. CallsOn(i) = {}
      BY <2>1 DEF Instance, Unused, CallsOn
    <3> QED
      BY <2>1, <3>1, <1>1, FS_EmptySet DEF RefsCount, ZoInv, ZoTypeOK
  <2>2. CASE CachedFor(a) # {}
    BY <2>2, <1>1 DEF RefsCount, ZoInv
  <2> QED
    BY <2>1, <2>2
<1>3. refs' \in [Insts -> Nat] /\ handle' \in [Handles -> HandleState]
  BY DEF ZoInv, ZoTypeOK, HandleState
<1>4. ZoTypeOK'
  BY <1>3 DEF ZoInv, ZoTypeOK
<1>5. UsedIsCached'
  BY UsedIsPinned DEF ZoInv, UsedIsCached, ZoTypeOK, Shut
<1>6. CallShape' /\ TimerArmed'
  BY DEF ZoInv, CallShape, TimerArmed
<1>7. FreshIsOwned'
  BY DEF ZoInv, FreshIsOwned, ZoTypeOK, Shut
<1> QED
  BY <1>2, <1>4, <1>5, <1>6, <1>7 DEF ZoInv

\* A call enters an archive, one that was cached or a new object.
LEMMA EnterInv ==
  ASSUME ZoInv, NEW c \in Callers, NEW op \in Ops, NEW a \in Archives, NEW i \in Insts,
         call[c].pc # "accept", Enter(c, op, a, i), UNCHANGED outer
  PROVE  ZoInv'
<1>1. Instance(i, a) /\ Touch(i, a, Excess(i))
  BY DEF Enter
<1> USE <1>1, TouchKeepsMap
<1>2. PICK r \in CallState :
        /\ r.pc = "accept" /\ r.inst = i /\ call' = [call EXCEPT ![c] = r]
        /\ \/ r.h = None /\ UNCHANGED handle
           \/ /\ r.h \in Handles /\ handle[r.h] = Shut
              /\ handle' = [handle EXCEPT ![r.h] = [st |-> "fresh", inst |-> i]]
  <2>1. CASE op = "use"
    <3> DEFINE r == [pc |-> "accept", op |-> op, arc |-> a, inst |-> i, h |-> None]
    <3>1. call' = [call EXCEPT ![c] = r] /\ UNCHANGED handle
      BY <2>1 DEF Enter, Rest
    <3>2. r \in CallState
      BY DEF CallState, Ops
    <3> QED
      BY <3>1, <3>2
  <2>2. CASE op # "use"
    <3>1. PICK h \in Handles :
            /\ handle[h] = Shut /\ handle' = [handle EXCEPT ![h] = [st |-> "fresh", inst |-> i]]
            /\ call' = [call EXCEPT ![c] = [pc |-> "accept", op |-> op, arc |-> a, inst |-> i, h |-> h]]
      BY <2>2 DEF Enter
    <3>2. [pc |-> "accept", op |-> op, arc |-> a, inst |-> i, h |-> h] \in CallState
      BY DEF CallState, Ops
    <3> QED
      BY <3>1, <3>2
  <2> QED
    BY <2>1, <2>2
<1>3. /\ Cardinality(CallsOn(i))' = Cardinality(CallsOn(i)) + 1
      /\ \A j \in Insts \ {i} : CallsOn(j)' = CallsOn(j)
  BY <1>2, OneMoreCall DEF ZoInv
<1>4. refs' = [refs EXCEPT ![i] = (IF CachedFor(a) = {} THEN 0 ELSE @) + 1]
  BY DEF Enter
<1>5. CachedFor(a) = {} => Cardinality(CallsOn(i)) = 0
  BY FS_EmptySet DEF Instance, Unused, CallsOn
<1>6. RefsCount'
  BY <1>3, <1>4, <1>5 DEF RefsCount, ZoInv, ZoTypeOK
<1>7. refs' \in [Insts -> Nat] /\ call' \in [Callers -> CallState]
  BY <1>2, <1>4 DEF ZoInv, ZoTypeOK
<1>8. FreshIsOwned'
  BY <1>2, NoneAssumption DEF ZoInv, FreshIsOwned, ZoTypeOK, Shut
<1>9. UNCHANGED closedAll
  BY DEF Enter
<1>10. ZoTypeOK'
  BY <1>2, <1>7, <1>9 DEF ZoInv, ZoTypeOK, HandleState
<1>11. UsedIsCached'
  BY <1>2, <1>9, UsedIsPinned DEF ZoInv, UsedIsCached, ZoTypeOK, Shut
<1>12. CallShape' /\ TimerArmed'
  BY <1>2 DEF ZoInv, ZoTypeOK, CallShape, TimerArmed
<1> QED
  BY <1>6, <1>8, <1>10, <1>11, <1>12 DEF ZoInv

\* The end of a call lowers a count that is not zero.
LEMMA FinishInv ==
  ASSUME ZoInv, NEW c \in Callers, Finish(c), UNCHANGED outer
  PROVE  ZoInv'
<1>0. PICK i \in Insts : i = call[c].inst
  BY DEF Finish, ZoInv, CallShape
<1>1. /\ call[c].pc = "accept" /\ call[c].inst = i
      /\ refs' = [refs EXCEPT ![i] = @ - 1]
      /\ call' = [call EXCEPT ![c] = Rest]
      /\ UNCHANGED <<cached, older, arc, status, expired, timer, closedAll>>
  BY <1>0 DEF Finish
<1>2. /\ Cardinality(CallsOn(i)) \in Nat \ {0}
      /\ Cardinality(CallsOn(i))' = Cardinality(CallsOn(i)) - 1
      /\ \A j \in Insts \ {i} : CallsOn(j)' = CallsOn(j)
  BY <1>1, OneCallLess DEF ZoInv
<1>3. \A j \in Insts : refs'[j] = IF j = i THEN refs[j] - 1 ELSE refs[j]
  BY <1>1 DEF ZoInv, ZoTypeOK
<1>4. RefsCount'
  <2> SUFFICES ASSUME NEW j \in Insts PROVE refs'[j] = Cardinality(CallsOn(j))'
    BY DEF RefsCount
  <2>1. refs[j] = Cardinality(CallsOn(j))
    BY DEF RefsCount, ZoInv
  <2>2. CASE j = i
    BY <1>2, <1>3, <2>1, <2>2
  <2>3. CASE j # i
    BY <1>2, <1>3, <2>1, <2>3
  <2> QED
    BY <2>2, <2>3
<1>5. refs[i] \in Nat \ {0}
  BY <1>1, <1>2 DEF RefsCount, ZoInv
<1>6. refs' \in [Insts -> Nat]
  BY <1>1, <1>3, <1>5 DEF ZoInv, ZoTypeOK
<1>7. call' \in [Callers -> CallState] /\ CallShape'
  BY <1>1 DEF ZoInv, ZoTypeOK, CallShape, CallState, Rest, Ops
\* The handle was fresh, of the same object.
<1>8. \/ UNCHANGED handle
      \/ /\ call[c].h \in Handles /\ call[c].h # None /\ handle[call[c].h].st = "fresh"
         /\ handle' = [handle EXCEPT ![call[c].h] =
                                    [st |-> "open", inst |-> handle[call[c].h].inst]]
  <2>1. CASE call[c].h = None
    BY <2>1 DEF Finish
  <2>2. CASE call[c].h # None
    <3>1. call[c].h \in Handles /\ handle[call[c].h].st = "fresh"
      BY <1>1, <2>2 DEF ZoInv, FreshIsOwned
    <3>2. handle' = [handle EXCEPT ![call[c].h].st = "open"]
      BY <2>2 DEF Finish
    <3>3. handle[call[c].h] \in [st : {"none", "fresh", "open"}, inst : Insts \cup {None}]
      BY <3>1 DEF ZoInv, ZoTypeOK, HandleState
    <3>4. [handle[call[c].h] EXCEPT !.st = "open"] = [st |-> "open", inst |-> handle[call[c].h].inst]
      BY <3>3
    <3> QED
      BY <2>2, <3>1, <3>2, <3>4
  <2> QED
    BY <2>1, <2>2
<1>9. handle' \in [Handles -> HandleState]
  BY <1>8 DEF ZoInv, ZoTypeOK, HandleState
<1>10. UsedIsCached'
  BY <1>1, <1>8 DEF UsedIsCached, ZoInv, ZoTypeOK, Shut, Rest
<1>11. FreshIsOwned'
  BY <1>1, <1>8 DEF FreshIsOwned, ZoInv, ZoTypeOK, Rest
<1> QED
  BY <1>1, <1>4, <1>6, <1>7, <1>9, <1>10, <1>11
     DEF ZoInv, ZoTypeOK, MapOpen, OnePerArchive, TimerArmed

\* Closing objects that are not pinned, or all of them with the file system.
LEMMA CloseSomeInv ==
  ASSUME ZoInv, NEW C \in SUBSET cached, closedAll' = "no" => \A i \in C : ~Pinned(i),
         cached' = cached \ C, older' \subseteq older,
         arc' = Without(arc, C, None), status' = Close(C), expired' = Without(expired, C, "no"),
         closedAll' \in {closedAll, "yes"}, timer' \in {"set", "none"}, TimerArmed',
         UNCHANGED <<refs, handle, call, outer>>
  PROVE  ZoInv'
<1>1. ZoTypeOK'
  BY DEF ZoInv, ZoTypeOK, Without, Close
<1>2. MapOpen'
  BY DEF ZoInv, ZoTypeOK, MapOpen, Close
<1>3. OnePerArchive'
  BY DEF ZoInv, ZoTypeOK, OnePerArchive, Without
<1>4. UsedIsCached'
  BY UsedIsPinned DEF ZoInv, UsedIsCached, ZoTypeOK
<1>5. RefsCount' /\ CallShape' /\ FreshIsOwned'
  BY DEF ZoInv, RefsCount, CallsOn, CallShape, FreshIsOwned
<1> QED
  BY <1>1, <1>2, <1>3, <1>4, <1>5 DEF ZoInv

\* Every step keeps the invariant.
LEMMA ZoStepInv == ZoInv /\ [Next]_vars => ZoInv'
<1> SUFFICES ASSUME ZoInv, [Next]_vars PROVE ZoInv'
  OBVIOUS
<1>1. CASE UNCHANGED vars
  BY <1>1 DEF vars, ZoInv, ZoTypeOK, CallShape, FreshIsOwned, RefsCount, CallsOn, MapOpen,
              OnePerArchive, UsedIsCached, TimerArmed
<1>2. ASSUME NEW c \in Callers, NEW op \in Ops, NEW a \in Archives, Begin(c, op, a), UNCHANGED outer
      PROVE  ZoInv'
  <2>1. /\ call[c].pc = "idle"
        /\ call' = [call EXCEPT ![c] = [pc |-> "stat", op |-> op, arc |-> a, inst |-> None, h |-> None]]
        /\ UNCHANGED <<cached, older, arc, status, refs, expired, handle, timer, closedAll>>
    BY <1>2 DEF Begin, Rest
  <2>2. call' \in [Callers -> CallState] /\ CallShape' /\ FreshIsOwned'
    BY <2>1 DEF ZoInv, ZoTypeOK, CallShape, FreshIsOwned, CallState
  <2>3. \A i \in Insts : CallsOn(i)' = CallsOn(i)
    BY <2>1 DEF CallsOn, ZoInv, ZoTypeOK
  <2>4. UsedIsCached'
    BY <2>1 DEF ZoInv, ZoTypeOK, UsedIsCached
  <2> QED
    BY <1>2, <2>1, <2>2, <2>3, <2>4
       DEF ZoInv, ZoTypeOK, RefsCount, MapOpen, OnePerArchive, TimerArmed
<1>3. ASSUME NEW c \in Callers, NEW op \in Ops, NEW a \in Archives, BeginCached(c, op, a),
             UNCHANGED outer
      PROVE  ZoInv'
  BY <1>3, EnterInv DEF BeginCached
<1>4. ASSUME NEW c \in Callers, AfterStat(c), UNCHANGED outer
      PROVE  ZoInv'
  <2>1. call[c].pc = "stat" /\ call[c].arc \in Archives /\ call[c].op \in Ops
    BY <1>4 DEF AfterStat, ZoInv, ZoTypeOK, CallShape, CallState
  <2> QED
    BY <1>4, <2>1, EnterInv DEF AfterStat
<1>5. ASSUME NEW c \in Callers, StatFails(c), UNCHANGED outer
      PROVE  ZoInv'
  <2>1. /\ call[c].pc = "stat" /\ call' = [call EXCEPT ![c] = Rest]
        /\ UNCHANGED <<cached, older, arc, status, refs, expired, handle, timer, closedAll>>
    BY <1>5 DEF StatFails
  <2>2. call' \in [Callers -> CallState] /\ CallShape' /\ FreshIsOwned'
    BY <2>1 DEF ZoInv, ZoTypeOK, CallShape, FreshIsOwned, CallState, Rest, Ops
  <2>3. \A i \in Insts : CallsOn(i)' = CallsOn(i)
    BY <2>1 DEF CallsOn, ZoInv, ZoTypeOK, Rest
  <2>4. UsedIsCached'
    BY <2>1 DEF ZoInv, ZoTypeOK, UsedIsCached, Rest
  <2> QED
    BY <1>5, <2>1, <2>2, <2>3, <2>4
       DEF ZoInv, ZoTypeOK, RefsCount, MapOpen, OnePerArchive, TimerArmed
<1>6. ASSUME NEW c \in Callers, Finish(c), UNCHANGED outer
      PROVE  ZoInv'
  BY <1>6, FinishInv
<1>7. ASSUME NEW a \in Archives, SyncUse(a), outer' \in cached' \cup {None} \/ UNCHANGED outer
      PROVE  ZoInv'
  <2>1. PICK i \in Insts : /\ Instance(i, a) /\ Touch(i, a, Excess(i))
                           /\ refs' = IF CachedFor(a) = {} THEN [refs EXCEPT ![i] = 0] ELSE refs
    BY <1>7 DEF SyncUse
  <2>2. UNCHANGED <<handle, call, closedAll>>
    BY <1>7 DEF SyncUse
  <2>3. outer' \in Insts \cup {None}
    BY <1>7, <2>1, TouchKeepsMap DEF ZoInv, ZoTypeOK
  <2> QED
    BY <2>1, <2>2, <2>3, SyncInv
<1>8. ASSUME NEW a \in Archives, SyncOpen(a), UNCHANGED outer
      PROVE  ZoInv'
  <2>1. PICK i \in Insts, h \in Handles :
          /\ Instance(i, a) /\ Touch(i, a, Excess(i))
          /\ refs' = IF CachedFor(a) = {} THEN [refs EXCEPT ![i] = 0] ELSE refs
          /\ handle[h] = Shut /\ handle' = [handle EXCEPT ![h] = [st |-> "open", inst |-> i]]
          /\ UNCHANGED <<call, closedAll>>
    BY <1>8 DEF SyncOpen
  <2>2. outer' \in Insts \cup {None}
    BY <1>8 DEF ZoInv, ZoTypeOK
  <2> QED
    BY <2>1, <2>2, SyncInv
<1>9. ASSUME NEW a \in Archives, SyncInner(a)
      PROVE  ZoInv'
  <2>1. PICK i \in Insts : /\ Instance(i, a) /\ Touch(i, a, Excess(i))
                           /\ refs' = IF CachedFor(a) = {} THEN [refs EXCEPT ![i] = 0] ELSE refs
    BY <1>9 DEF SyncInner
  <2>2. UNCHANGED <<handle, call, closedAll>> /\ outer' = None
    BY <1>9 DEF SyncInner
  <2> QED
    BY <2>1, <2>2, SyncInv
<1>10. ASSUME NEW h \in Handles, CloseHandle(h), UNCHANGED outer
       PROVE  ZoInv'
  <2>1. /\ handle[h].st = "open" /\ handle' = [handle EXCEPT ![h] = Shut]
        /\ UNCHANGED <<cached, older, arc, status, refs, expired, call, timer, closedAll>>
    BY <1>10 DEF CloseHandle
  <2>2. handle' \in [Handles -> HandleState]
    BY <2>1 DEF ZoInv, ZoTypeOK, HandleState, Shut
  <2>3. FreshIsOwned'
    BY <2>1 DEF ZoInv, ZoTypeOK, FreshIsOwned
  <2>4. UsedIsCached'
    BY <2>1 DEF ZoInv, ZoTypeOK, UsedIsCached
  <2> QED
    BY <1>10, <2>1, <2>2, <2>3, <2>4
       DEF ZoInv, ZoTypeOK, CallShape, RefsCount, CallsOn, MapOpen, OnePerArchive, TimerArmed
<1>11. ASSUME CloseAll, UNCHANGED outer
       PROVE  ZoInv'
  <2>1. TimerArmed' /\ closedAll' = "yes" /\ timer' \in {"set", "none"}
    BY <1>11 DEF CloseAll, TimerArmed, ZoInv, ZoTypeOK
  <2>2. /\ cached' = cached \ cached /\ older' \subseteq older
        /\ arc' = Without(arc, cached, None) /\ status' = Close(cached)
        /\ expired' = Without(expired, cached, "no")
        /\ UNCHANGED <<refs, handle, call, outer>>
    BY <1>11 DEF CloseAll
  <2> QED
    BY <2>1, <2>2, CloseSomeInv
<1>12. ASSUME TimerFires, UNCHANGED outer
       PROVE  ZoInv'
  <2> DEFINE C == ToClose(cached, Cardinality(cached))
  <2>1. C \in SUBSET cached /\ \A i \in C : ~Pinned(i)
    BY ToCloseIdle
  <2>2. TimerArmed' /\ timer' \in {"set", "none"} /\ older' \subseteq older
    BY <1>12 DEF TimerFires, TimerArmed
  <2> QED
    BY <1>12, <2>1, <2>2, CloseSomeInv DEF TimerFires
<1>13. ASSUME NEW i \in Insts, Expire(i), UNCHANGED outer
       PROVE  ZoInv'
  BY <1>13 DEF Expire, ZoInv, ZoTypeOK, CallShape, FreshIsOwned, RefsCount, CallsOn, MapOpen,
               OnePerArchive, UsedIsCached, TimerArmed
<1>14. ASSUME NEW a \in Archives, SyncOuter(a)
       PROVE  ZoInv'
  BY <1>7, <1>14 DEF SyncOuter
<1> QED
  BY <1>1, <1>2, <1>3, <1>4, <1>5, <1>6, <1>7, <1>8, <1>9, <1>10, <1>11, <1>12, <1>13, <1>14
     DEF Next, Step, Alone

-----------------------------------------------------------------------------
\* It always holds.
LEMMA ZoAlways == Spec => []ZoInv
  BY ZoInitInv, ZoStepInv, PTL DEF Spec

\* Every variable of the file system stays in its domain: no reference count
\* falls below zero.
THEOREM ZoTypes == Spec => []ZoTypeOK
<1>1. ZoInv => ZoTypeOK
  BY DEF ZoInv
<1> QED
  BY <1>1, ZoAlways, PTL

\* An archive in use is neither closed nor forgotten, whatever the limit and
\* however many calls compete for the pool.
THEOREM UsedStaysOpenAlways == Spec => []UsedStaysOpen
<1>1. ZoInv => UsedStaysOpen
  BY DEF ZoInv, ZoTypeOK, CallShape, MapOpen, UsedIsCached, UsedStaysOpen
<1> QED
  BY <1>1, ZoAlways, PTL

\* Two calls that wait for one archive never make two objects of it.
THEOREM OneInstanceAlways == Spec => []OneInstance
<1>1. ZoInv => OneInstance
  BY DEF ZoInv, MapOpen, OnePerArchive, OneInstance
<1> QED
  BY <1>1, ZoAlways, PTL

\* The timer that closes archives is set while there are any.
THEOREM TimerArmedAlways == Spec => []TimerArmed
<1>1. ZoInv => TimerArmed
  BY DEF ZoInv
<1> QED
  BY <1>1, ZoAlways, PTL

-----------------------------------------------------------------------------
(* The pool: ZipOpenFs implements ArchivePool.                              *)

\* The insertion order of the map is one: whatever part of the map is looked
\* at, one object of it comes before all the others and after none.
FirstInLine ==
    \A T \in SUBSET cached : T # {} =>
        \E j \in T : \A k \in T : <<k, j>> \notin older /\ (k # j => <<j, k>> \in older)

\* A handle that is not shut has an object, and one that is fresh a call that
\* is about to return it.
HandlesOwned ==
    \A h \in Handles :
        /\ handle[h].st = "none" <=> handle[h].inst = None
        /\ handle[h].st = "fresh" =>
              \E c \in Callers : /\ call[c].pc = "accept" /\ call[c].h = h
                                 /\ call[c].inst = handle[h].inst

\* The objects in the map have an archive, and a call knows that of its own.
ArchivesKnown ==
    /\ \A i \in cached : arc[i] \in Archives
    /\ InUse => \A c \in Callers :
                   call[c].pc = "accept" => call[c].arc = arc[call[c].inst]

PoolInv == IsFiniteSet(cached) /\ FirstInLine /\ HandlesOwned /\ ArchivesKnown

\* The state of the pool that a state of the file system stands for.
OpenedHere == IF InUse THEN {arc[i] : i \in cached} ELSE {}
UsersHere == [a \in Archives |-> IF InUse THEN UsersOf(a) ELSE 0]

CallsFor(a) == {c \in Callers : call[c].pc = "accept" /\ call[c].arc = a}
HandlesFor(a) == {h \in Handles : handle[h].st = "open" /\ arc[handle[h].inst] = a}

\* Putting an object last keeps the map in order.
LEMMA TouchKeepsOrder ==
  ASSUME ZoInv, PoolInv, NEW i \in Insts, NEW a \in Archives, Touch(i, a, Excess(i))
  PROVE  IsFiniteSet(cached') /\ FirstInLine'
<1> DEFINE rest == (cached \ {i}) \ Excess(i)
<1>1. /\ cached' = rest \cup {i}
      /\ older' = {x \in older : x[1] \in rest /\ x[2] \in rest} \cup (rest \X {i})
      /\ rest \subseteq cached /\ i \notin rest
  BY DEF Touch
<1>2. IsFiniteSet(cached')
  BY <1>1, FS_Subset, FS_AddElement DEF PoolInv
<1> HIDE DEF rest
<1>3. \A x, y \in rest : <<x, y>> \in older' <=> <<x, y>> \in older
  BY <1>1
<1>4. \A x \in rest : <<x, i>> \in older' /\ <<i, x>> \notin older' /\ <<i, i>> \notin older'
  BY <1>1
<1>5. <<i, i>> \notin older'
  BY <1>1
<1>6. FirstInLine'
  <2> SUFFICES ASSUME NEW T \in SUBSET cached', T # {}
               PROVE  \E j \in T : \A k \in T : <<k, j>> \notin older' /\ (k # j => <<j, k>> \in older')
    BY DEF FirstInLine
  <2>1. CASE T = {i}
    BY <2>1, <1>5
  <2>2. CASE T # {i}
    <3>1. PICK j \in T \cap rest :
             \A k \in T \cap rest : <<k, j>> \notin older /\ (k # j => <<j, k>> \in older)
      <4>1. T \cap rest # {} /\ T \cap rest \in SUBSET cached
        BY <1>1, <2>2
      <4> QED
        BY <4>1 DEF PoolInv, FirstInLine
    <3> QED
      BY <1>1, <1>3, <1>4, <3>1
  <2> QED
    BY <2>1, <2>2
<1> QED
  BY <1>2, <1>6

\* So does taking objects out of it.
LEMMA CloseKeepsOrder ==
  ASSUME PoolInv, NEW C, cached' = cached \ C,
         older' = {x \in older : x[1] \notin C /\ x[2] \notin C}
  PROVE  IsFiniteSet(cached') /\ FirstInLine'
<1>1. IsFiniteSet(cached')
  BY FS_Subset DEF PoolInv
<1>2. FirstInLine'
  <2> SUFFICES ASSUME NEW T \in SUBSET cached', T # {}
               PROVE  \E j \in T : \A k \in T : <<k, j>> \notin older' /\ (k # j => <<j, k>> \in older')
    BY DEF FirstInLine
  <2>1. PICK j \in T : \A k \in T : <<k, j>> \notin older /\ (k # j => <<j, k>> \in older)
    BY DEF PoolInv, FirstInLine
  <2>2. \A x, y \in T : <<x, y>> \in older' <=> <<x, y>> \in older
    OBVIOUS
  <2> QED
    BY <2>1, <2>2
<1> QED
  BY <1>1, <1>2

\* The insertion order is asymmetric and transitive.
LEMMA OrderOfMap ==
  ASSUME FirstInLine, NEW x \in cached, NEW y \in cached, NEW z \in cached,
         <<x, y>> \in older
  PROVE  <<y, x>> \notin older /\ (<<y, z>> \in older => <<x, z>> \in older)
<1>1. {x} \in SUBSET cached /\ {x, y} \in SUBSET cached /\ {x, y, z} \in SUBSET cached
  OBVIOUS
<1>2. PICK j \in {x, y} : \A k \in {x, y} : <<k, j>> \notin older /\ (k # j => <<j, k>> \in older)
  BY <1>1 DEF FirstInLine
<1>3. PICK i \in {x, y, z} :
        \A k \in {x, y, z} : <<k, i>> \notin older /\ (k # i => <<i, k>> \in older)
  BY <1>1 DEF FirstInLine
<1>4. <<x, x>> \notin older
  BY <1>1 DEF FirstInLine
<1>5. <<y, x>> \notin older
  BY <1>2, <1>4
<1> QED
  BY <1>3, <1>5

\* What limitOpenFiles leaves in the map is fewer than maxOpenFiles, or all of
\* it is in use: it stops at the first object that is not in excess, and has
\* closed all it could before that.
LEMMA LimitIsKept ==
  ASSUME ZoInv, PoolInv, NEW i \in Insts,
         \E j \in (cached \ {i}) \ Excess(i) : ~Pinned(j)
  PROVE  Cardinality((cached \ {i}) \ Excess(i)) < MaxOpen
<1> DEFINE M == cached \ {i}
           C == Excess(i)
           S == {j \in M : Stops(M, MaxOpen - 1, j)}
<1>0. C = ToClose(M, MaxOpen - 1) /\ C \subseteq M
  BY ToCloseIdle DEF Excess
<1>1. S # {}
  <2>1. PICK j \in M \ C : ~Pinned(j)
    OBVIOUS
  <2> QED
    BY <1>0, <2>1 DEF ToClose
<1>2. PICK j \in S : \A k \in S : <<k, j>> \notin older /\ (k # j => <<j, k>> \in older)
  <2>1. S \in SUBSET cached
    OBVIOUS
  <2> QED
    BY <1>1, <2>1 DEF PoolInv, FirstInLine
<1>3. Before(M, j) \subseteq C
  <2> SUFFICES ASSUME NEW k \in Before(M, j) PROVE k \in ToClose(M, MaxOpen - 1)
    BY <1>0
  <2>1. k \in M /\ ~Pinned(k) /\ <<k, j>> \in older
    BY DEF Before
  <2>2. ~Stops(M, MaxOpen - 1, k)
    BY <1>2, <2>1
  <2>3. ASSUME NEW l \in M, <<l, k>> \in older
        PROVE  ~Stops(M, MaxOpen - 1, l)
    <3>1. <<l, j>> \in older
      BY <2>1, <2>3, OrderOfMap DEF PoolInv
    <3> QED
      BY <1>2, <3>1
  <2> QED
    BY <2>1, <2>2, <2>3 DEF ToClose
<1>4. /\ IsFiniteSet(M) /\ IsFiniteSet(C) /\ IsFiniteSet(Before(M, j))
      /\ Cardinality(Before(M, j)) <= Cardinality(C)
      /\ Cardinality(M \ C) = Cardinality(M) - Cardinality(C)
  <2>1. IsFiniteSet(M)
    BY FS_Subset DEF PoolInv
  <2>2. IsFiniteSet(C) /\ M \cap C = C
    BY <1>0, <2>1, FS_Subset
  <2>3. Before(M, j) \in SUBSET C
    BY <1>3
  <2> QED
    BY <2>1, <2>2, <2>3, FS_Subset, FS_Difference
<1>5. Cardinality(M) <= MaxOpen - 1 + Cardinality(Before(M, j))
  BY <1>2 DEF Stops
<1>6. /\ Cardinality(M) \in Nat /\ Cardinality(C) \in Nat /\ Cardinality(Before(M, j)) \in Nat
      /\ MaxOpen \in Nat
  BY <1>4, FS_CardinalityType, MaxOpenAssumption
<1> QED
  BY <1>4, <1>5, <1>6

\* Serving archive a changes no other used object's archive.
LEMMA TouchKeepsArchives ==
  ASSUME ZoInv, PoolInv, NEW i \in Insts, NEW a \in Archives, Instance(i, a),
         Touch(i, a, Excess(i))
  PROVE  /\ arc'[i] = a /\ \A j \in cached' : arc'[j] \in Archives
         /\ \A j \in cached : Pinned(j) => arc'[j] = arc[j]
         /\ \A j \in (cached \ {i}) \ Excess(i) : arc'[j] = arc[j] /\ arc[j] # a
         /\ i \in cached => arc[i] = a
<1> DEFINE C == Excess(i)
<1>1. /\ cached' = ((cached \ {i}) \ C) \cup {i}
      /\ \A j \in Insts : arc'[j] = IF j = i THEN a ELSE IF j \in C THEN None ELSE arc[j]
  BY DEF Touch, Without, ZoInv, ZoTypeOK
<1>2. \A j \in C : ~Pinned(j)
  BY ToCloseIdle DEF Excess
<1>3. i \in cached => arc[i] = a
  BY DEF Instance, CachedFor, Unused
<1>4. \A j \in cached \ {i} : arc[j] # a
  BY DEF Instance, CachedFor, Unused, ZoInv, OnePerArchive
<1> QED
  BY <1>1, <1>2, <1>3, <1>4 DEF PoolInv, ArchivesKnown, ZoInv, ZoTypeOK

\* The pool agrees with its users initially.
LEMMA PoolInitInv == Init => PoolInv
<1> SUFFICES ASSUME Init PROVE PoolInv
  OBVIOUS
<1>1. IsFiniteSet(cached)
  BY FS_EmptySet DEF Init
<1> QED
  BY <1>1 DEF Init, PoolInv, FirstInLine, HandlesOwned, ArchivesKnown, Shut, Rest, InUse

\* A synchronous operation, which may leave a handle open.
LEMMA SyncPoolInv ==
  ASSUME ZoInv, PoolInv, NEW i \in Insts, NEW a \in Archives, Instance(i, a),
         Touch(i, a, Excess(i)), UNCHANGED <<call, closedAll>>,
         \/ UNCHANGED handle
         \/ \E h \in Handles :
               handle[h] = Shut /\ handle' = [handle EXCEPT ![h] = [st |-> "open", inst |-> i]]
  PROVE  PoolInv'
<1>1. HandlesOwned'
  BY NoneAssumption DEF PoolInv, HandlesOwned, ZoInv, ZoTypeOK, Shut
<1>2. ArchivesKnown'
  BY TouchKeepsArchives, UsedIsPinned DEF PoolInv, ArchivesKnown, ZoInv, UsedIsCached, InUse
<1> QED
  BY <1>1, <1>2, TouchKeepsOrder DEF PoolInv

\* A call enters an archive.
LEMMA EnterPoolInv ==
  ASSUME ZoInv, PoolInv, NEW c \in Callers, NEW op \in Ops, NEW a \in Archives, NEW i \in Insts,
         call[c].pc # "accept", Enter(c, op, a, i)
  PROVE  PoolInv'
<1>1. Instance(i, a) /\ Touch(i, a, Excess(i)) /\ UNCHANGED closedAll
  BY DEF Enter
<1>2. PICK h \in Handles \cup {None} :
        /\ call' = [call EXCEPT ![c] = [pc |-> "accept", op |-> op, arc |-> a, inst |-> i, h |-> h]]
        /\ \/ h = None /\ UNCHANGED handle
           \/ /\ h \in Handles /\ handle[h] = Shut
              /\ handle' = [handle EXCEPT ![h] = [st |-> "fresh", inst |-> i]]
  BY DEF Enter, Rest
<1>3. call'[c].pc = "accept" /\ call'[c].h = h /\ call'[c].inst = i /\ call'[c].arc = a
  BY <1>2 DEF ZoInv, ZoTypeOK
<1>4. \A d \in Callers \ {c} : call'[d] = call[d]
  BY <1>2 DEF ZoInv, ZoTypeOK
<1>5. HandlesOwned'
  BY <1>2, <1>3, <1>4, NoneAssumption DEF PoolInv, HandlesOwned, ZoInv, ZoTypeOK, Shut
<1>6. ArchivesKnown'
  BY <1>1, <1>3, <1>4, TouchKeepsArchives, UsedIsPinned
     DEF PoolInv, ArchivesKnown, ZoInv, UsedIsCached, InUse
<1> QED
  BY <1>1, <1>5, <1>6, TouchKeepsOrder DEF PoolInv

\* Objects are closed: none that is used, or all of them.
LEMMA ClosePoolInv ==
  ASSUME ZoInv, PoolInv, NEW C \in SUBSET cached, closedAll' = "no" => \A i \in C : ~Pinned(i),
         cached' = cached \ C, IsFiniteSet(cached'), FirstInLine',
         arc' = Without(arc, C, None), closedAll' \in {closedAll, "yes"},
         UNCHANGED <<handle, call>>
  PROVE  PoolInv'
<1>1. \A j \in Insts : arc'[j] = IF j \in C THEN None ELSE arc[j]
  BY DEF Without, ZoInv, ZoTypeOK
<1>2. HandlesOwned'
  BY DEF PoolInv, HandlesOwned
<1>3. ArchivesKnown'
  BY <1>1, UsedIsPinned DEF PoolInv, ArchivesKnown, ZoInv, ZoTypeOK, CallShape, UsedIsCached, InUse
<1> QED
  BY <1>2, <1>3 DEF PoolInv

\* Every step keeps it.
LEMMA PoolStepInv == ZoInv /\ PoolInv /\ [Next]_vars => PoolInv'
<1> SUFFICES ASSUME ZoInv, PoolInv, [Next]_vars PROVE PoolInv'
  OBVIOUS
<1> USE DEF PoolInv
<1>1. ASSUME UNCHANGED <<cached, older, arc, handle, closedAll>>,
             \/ UNCHANGED call
             \/ \E c \in Callers, r \in CallState :
                   /\ call[c].pc # "accept" /\ r.pc # "accept" /\ call' = [call EXCEPT ![c] = r]
      PROVE  PoolInv'
  <2>1. \A c \in Callers : call'[c].pc = "accept" \/ call[c].pc = "accept" => call'[c] = call[c]
    BY <1>1 DEF ZoInv, ZoTypeOK
  <2>2. IsFiniteSet(cached)' /\ FirstInLine'
    BY <1>1 DEF FirstInLine
  <2>3. HandlesOwned' /\ ArchivesKnown'
    BY <1>1, <2>1 DEF HandlesOwned, ArchivesKnown, InUse
  <2> QED
    BY <2>2, <2>3
<1>2. ASSUME NEW c \in Callers, NEW op \in Ops, NEW a \in Archives, Begin(c, op, a)
      PROVE  PoolInv'
  BY <1>1, <1>2 DEF Begin, CallState
<1>3. ASSUME NEW c \in Callers, StatFails(c)
      PROVE  PoolInv'
  BY <1>1, <1>3 DEF StatFails, CallState, Rest, Ops
<1>4. ASSUME NEW c \in Callers, NEW op \in Ops, NEW a \in Archives, BeginCached(c, op, a)
      PROVE  PoolInv'
  BY <1>4, EnterPoolInv DEF BeginCached
<1>5. ASSUME NEW c \in Callers, AfterStat(c)
      PROVE  PoolInv'
  <2>1. call[c].pc = "stat" /\ call[c].arc \in Archives /\ call[c].op \in Ops
    BY <1>5 DEF AfterStat, ZoInv, ZoTypeOK, CallShape, CallState
  <2> QED
    BY <1>5, <2>1, EnterPoolInv DEF AfterStat
<1>6. ASSUME NEW c \in Callers, Finish(c)
      PROVE  PoolInv'
  <2>1. /\ call[c].pc = "accept" /\ call' = [call EXCEPT ![c] = Rest]
        /\ \/ call[c].h = None /\ UNCHANGED handle
           \/ call[c].h # None /\ handle' = [handle EXCEPT ![call[c].h].st = "open"]
        /\ UNCHANGED <<cached, older, arc, closedAll>>
    BY <1>6 DEF Finish
  <2>2. FirstInLine' /\ ArchivesKnown'
    BY <2>1 DEF ZoInv, ZoTypeOK, FirstInLine, ArchivesKnown, InUse, Rest
  <2>3. HandlesOwned'
    <3>1. CASE call[c].h = None
      BY <2>1, <3>1, NoneAssumption DEF HandlesOwned, ZoInv, ZoTypeOK, Rest
    <3>2. CASE call[c].h # None
      <4>1. call[c].h \in Handles /\ handle[call[c].h].st = "fresh"
        BY <2>1, <3>2 DEF ZoInv, FreshIsOwned
      <4>2. /\ handle'[call[c].h].st = "open" /\ handle'[call[c].h].inst = handle[call[c].h].inst
            /\ \A h \in Handles \ {call[c].h} : handle'[h] = handle[h]
        BY <2>1, <3>2, <4>1 DEF ZoInv, ZoTypeOK, HandleState
      <4>3. \A d \in Callers \ {c} : call'[d] = call[d]
        BY <2>1 DEF ZoInv, ZoTypeOK
      <4> QED
        BY <4>1, <4>2, <4>3 DEF HandlesOwned
    <3> QED
      BY <3>1, <3>2
  <2> QED
    BY <2>1, <2>2, <2>3
<1>7. ASSUME NEW a \in Archives, SyncUse(a)
      PROVE  PoolInv'
  BY <1>7, SyncPoolInv DEF SyncUse
<1>8. ASSUME NEW a \in Archives, SyncOpen(a)
      PROVE  PoolInv'
  BY <1>8, SyncPoolInv DEF SyncOpen
<1>9. ASSUME NEW a \in Archives, SyncInner(a)
      PROVE  PoolInv'
  BY <1>9, SyncPoolInv DEF SyncInner
<1>10. ASSUME NEW h \in Handles, CloseHandle(h)
       PROVE  PoolInv'
  BY <1>10 DEF CloseHandle, ZoInv, ZoTypeOK, FirstInLine, HandlesOwned, ArchivesKnown, InUse, Shut
<1>11. ASSUME CloseAll
       PROVE  PoolInv'
  <2>1. IsFiniteSet(cached') /\ FirstInLine' /\ cached' = cached \ cached
    BY <1>11, FS_EmptySet DEF CloseAll, FirstInLine
  <2> QED
    BY <1>11, <2>1, ClosePoolInv DEF CloseAll
<1>12. ASSUME TimerFires
       PROVE  PoolInv'
  <2> DEFINE C == ToClose(cached, Cardinality(cached))
  <2>1. C \in SUBSET cached /\ \A i \in C : ~Pinned(i)
    BY ToCloseIdle
  <2>2. IsFiniteSet(cached') /\ FirstInLine'
    BY <1>12, CloseKeepsOrder DEF TimerFires
  <2> QED
    BY <1>12, <2>1, <2>2, ClosePoolInv DEF TimerFires
<1>13. ASSUME NEW i \in Insts, Expire(i)
       PROVE  PoolInv'
  BY <1>1, <1>13 DEF Expire
<1>14. CASE UNCHANGED vars
  BY <1>1, <1>14 DEF vars
<1> QED
  BY <1>2, <1>3, <1>4, <1>5, <1>6, <1>7, <1>8, <1>9, <1>10, <1>11, <1>12, <1>13, <1>14
     DEF Next, Step, Alone, SyncOuter

-----------------------------------------------------------------------------
(* The steps of the pool.                                                   *)

\* The users of an archive are counted by numbers, none of them when nobody
\* uses it.
LEMMA UsersCounted ==
  ASSUME NEW a \in Archives
  PROVE  /\ IsFiniteSet(CallsFor(a)) /\ IsFiniteSet(HandlesFor(a))
         /\ Cardinality(CallsFor(a)) \in Nat /\ Cardinality(HandlesFor(a)) \in Nat
         /\ UsersOf(a) = Cardinality(CallsFor(a)) + Cardinality(HandlesFor(a))
         /\ UsersOf(a) > 0 <=> CallsFor(a) # {} \/ HandlesFor(a) # {}
<1>1. IsFiniteSet(CallsFor(a)) /\ IsFiniteSet(HandlesFor(a))
  BY CallersAssumption, FS_Subset DEF CallsFor, HandlesFor
<1>2. /\ Cardinality(CallsFor(a)) \in Nat /\ Cardinality(HandlesFor(a)) \in Nat
      /\ Cardinality(CallsFor(a)) = 0 <=> CallsFor(a) = {}
      /\ Cardinality(HandlesFor(a)) = 0 <=> HandlesFor(a) = {}
  BY <1>1, FS_CardinalityType, FS_EmptySet
<1>3. UsersOf(a) = Cardinality(CallsFor(a)) + Cardinality(HandlesFor(a))
  BY DEF UsersOf, CallsFor, HandlesFor
<1> QED
  BY <1>1, <1>2, <1>3

\* An archive has users exactly when its object in the map is pinned.
LEMMA UsersPin ==
  ASSUME ZoInv, PoolInv, InUse
  PROVE  /\ \A j \in cached : Pinned(j) => UsersOf(arc[j]) > 0
         /\ \A b \in Archives : UsersOf(b) > 0 => \E j \in cached : arc[j] = b /\ Pinned(j)
<1>1. ASSUME NEW j \in cached, Pinned(j)
      PROVE  UsersOf(arc[j]) > 0
  <2>0. j \in Insts /\ arc[j] \in Archives
    BY DEF ZoInv, ZoTypeOK, PoolInv, ArchivesKnown
  <2>1. CASE \E c \in Callers : call[c].pc = "accept" /\ call[c].inst = j
    <3>1. CallsFor(arc[j]) # {}
      BY <2>1 DEF CallsFor, PoolInv, ArchivesKnown
    <3> QED
      BY <2>0, <3>1, UsersCounted
  <2>2. CASE \E h \in Handles : handle[h].inst = j
    <3>1. PICK h \in Handles : handle[h].inst = j
      BY <2>2
    <3>2. handle[h].st \in {"fresh", "open"}
      BY <2>0, <3>1, NoneAssumption DEF PoolInv, HandlesOwned, ZoInv, ZoTypeOK, HandleState
    <3>3. CASE handle[h].st = "fresh"
      BY <2>1, <3>1, <3>3 DEF PoolInv, HandlesOwned
    <3>4. CASE handle[h].st = "open"
      <4>1. h \in HandlesFor(arc[j])
        BY <3>1, <3>4 DEF HandlesFor
      <4> QED
        BY <2>0, <4>1, UsersCounted
    <3> QED
      BY <3>2, <3>3, <3>4
  <2>3. \/ \E c \in Callers : call[c].pc = "accept" /\ call[c].inst = j
        \/ \E h \in Handles : handle[h].inst = j
    BY <1>1, <2>0, NoRefsNoCalls DEF Pinned, CallsOn, ZoInv
  <2> QED
    BY <2>1, <2>2, <2>3
<1>2. ASSUME NEW b \in Archives, UsersOf(b) > 0
      PROVE  \E j \in cached : arc[j] = b /\ Pinned(j)
  <2>1. CASE CallsFor(b) # {}
    BY <2>1, UsedIsPinned
       DEF CallsFor, PoolInv, ArchivesKnown, ZoInv, UsedIsCached, InUse
  <2>2. CASE HandlesFor(b) # {}
    <3>1. PICK h \in Handles : handle[h].st = "open" /\ arc[handle[h].inst] = b
      BY <2>2 DEF HandlesFor
    <3>2. handle[h] # Shut
      BY <3>1 DEF Shut
    <3> QED
      BY <3>1, <3>2, UsedIsPinned DEF ZoInv, UsedIsCached, InUse
  <2> QED
    BY <1>2, <2>1, <2>2, UsersCounted
<1> QED
  BY <1>1, <1>2

\* The archives that are left when archive a is served: those of the objects
\* that limitOpenFiles leaves in the map.
LEMMA RestOfThePool ==
  ASSUME ZoInv, PoolInv, InUse, InUse', NEW i \in Insts, NEW a \in Archives, Instance(i, a),
         Touch(i, a, Excess(i))
  PROVE  \E rest \in SUBSET (OpenedHere \ {a}) :
            /\ \A b \in OpenedHere \ {a} : UsersOf(b) > 0 => b \in rest
            /\ Cardinality(rest) < MaxOpen \/ \A b \in rest : UsersOf(b) > 0
            /\ OpenedHere' = rest \cup {a}
<1> DEFINE R == (cached \ {i}) \ Excess(i)
           rest == {arc[j] : j \in R}
<1>1. \A j \in R : arc'[j] = arc[j] /\ arc[j] # a
  BY TouchKeepsArchives
<1>2. cached' = R \cup {i} /\ arc'[i] = a
  BY TouchKeepsArchives DEF Touch
<1>3. rest \in SUBSET (OpenedHere \ {a}) /\ OpenedHere' = rest \cup {a}
  BY <1>1, <1>2 DEF OpenedHere
<1>4. ASSUME NEW b \in OpenedHere \ {a}, UsersOf(b) > 0
      PROVE  b \in rest
  <2>1. b \in Archives
    BY DEF OpenedHere, PoolInv, ArchivesKnown
  <2>2. PICK j \in cached : arc[j] = b /\ Pinned(j)
    BY <1>4, <2>1, UsersPin
  <2>3. j # i /\ j \notin Excess(i)
    BY <2>2, TouchKeepsArchives, ToCloseIdle DEF Excess
  <2> QED
    BY <2>2, <2>3
<1>5. Cardinality(rest) < MaxOpen \/ \A b \in rest : UsersOf(b) > 0
  <2>1. CASE \E j \in R : ~Pinned(j)
    <3>1. Cardinality(R) < MaxOpen
      BY <2>1, LimitIsKept
    <3>2. IsFiniteSet(R)
      BY FS_Subset DEF PoolInv
    <3>3. [j \in R |-> arc[j]] \in Surjection(R, rest)
      BY DEF Surjection
    <3>4. IsFiniteSet(rest) /\ Cardinality(rest) <= Cardinality(R)
      BY <3>2, <3>3, FS_Surjection
    <3>5. Cardinality(rest) \in Nat /\ Cardinality(R) \in Nat /\ MaxOpen \in Nat
      BY <3>2, <3>4, FS_CardinalityType, MaxOpenAssumption
    <3> QED
      BY <3>1, <3>4, <3>5
  <2>2. CASE \A j \in R : Pinned(j)
    BY <2>2, UsersPin
  <2> QED
    BY <2>1, <2>2
<1> QED
  BY <1>3, <1>4, <1>5

\* The pool counts as the file system does.
LEMMA SameCount ==
  ASSUME NEW S
  PROVE  Pool!Cardinality(S) = Cardinality(S)
  BY DEF Pool!Cardinality, Cardinality

\* A step of the file system in which archive a is served, and is used by one
\* more or not, is a step of the pool.
LEMMA ServeMaps ==
  ASSUME ZoInv, PoolInv, InUse, UNCHANGED closedAll,
         NEW i \in Insts, NEW a \in Archives, Instance(i, a), Touch(i, a, Excess(i)),
         UsersHere' \in {UsersHere, [UsersHere EXCEPT ![a] = @ + 1]}
  PROVE  Pool!PoolNext
<1>1. InUse' /\ \A b \in Archives : UsersHere[b] = UsersOf(b)
  BY DEF InUse, UsersHere
<1>2. PICK rest \in SUBSET (OpenedHere \ {a}) :
        /\ \A b \in OpenedHere \ {a} : UsersOf(b) > 0 => b \in rest
        /\ Cardinality(rest) < MaxOpen \/ \A b \in rest : UsersOf(b) > 0
        /\ OpenedHere' = rest \cup {a}
  BY <1>1, RestOfThePool
<1>3. OpenedHere \subseteq Archives
  BY DEF OpenedHere, PoolInv, ArchivesKnown
<1>4. Pool!InUseBy(OpenedHere \ {a}) \subseteq rest
  BY <1>1, <1>2, <1>3 DEF Pool!InUseBy, UsersHere
<1>5. Cardinality(rest) < MaxOpen \/ rest = Pool!InUseBy(rest)
  BY <1>1, <1>2, <1>3 DEF Pool!InUseBy, UsersHere
<1>6. Pool!Serve(a)
  <2>1. closedAll = "no" /\ UNCHANGED closedAll
    BY DEF InUse
  <2>2. \E r \in SUBSET (OpenedHere \ {a}) :
           /\ Pool!InUseBy(OpenedHere \ {a}) \subseteq r
           /\ Cardinality(r) < MaxOpen \/ r = Pool!InUseBy(r)
           /\ OpenedHere' = r \cup {a}
    BY <1>2, <1>4, <1>5
  <2> QED
    BY <2>1, <2>2, SameCount DEF Pool!Serve, OpenedHere, UsersHere
<1> QED
  BY <1>6 DEF Pool!PoolNext

\* The users of one archive become one more, or one fewer, or stay as many.
LEMMA UsersMore ==
  ASSUME InUse, InUse', NEW a \in Archives,
         \A b \in Archives : UsersOf(b)' = IF b = a THEN UsersOf(b) + 1 ELSE UsersOf(b)
  PROVE  UsersHere' = [UsersHere EXCEPT ![a] = @ + 1]
  BY DEF UsersHere

\* The archives in use are the same when the counts are.
LEMMA UsersSame ==
  ASSUME InUse, InUse', \A b \in Archives : UsersOf(b)' = UsersOf(b)
  PROVE  UsersHere' = UsersHere
  BY DEF UsersHere

\* One leaves: a step of the pool.
LEMMA LeaveMaps ==
  ASSUME InUse, UNCHANGED <<closedAll, cached, arc>>, NEW a \in Archives, UsersOf(a) \in Nat,
         \A b \in Archives : UsersOf(b)' = IF b = a THEN UsersOf(b) - 1 ELSE UsersOf(b),
         UsersOf(a) > 0
  PROVE  Pool!PoolNext
<1>1. InUse' /\ OpenedHere' = OpenedHere /\ UsersHere[a] > 0
  BY DEF InUse, OpenedHere, UsersHere
<1>2. UsersHere' = [UsersHere EXCEPT ![a] = @ - 1]
  BY <1>1 DEF UsersHere
<1>3. Pool!Leave(a)
  BY <1>1, <1>2 DEF Pool!Leave, OpenedHere, UsersHere
<1> QED
  BY <1>3 DEF Pool!PoolNext

\* Nothing that the pool tells of changes.
LEMMA StutterMaps ==
  ASSUME UNCHANGED closedAll, OpenedHere' = OpenedHere, UsersHere' = UsersHere
  PROVE  UNCHANGED Pool!poolVars
  BY DEF Pool!poolVars, OpenedHere, UsersHere

\* Archive a is served to a synchronous operation, which leaves a handle open
\* or not.
LEMMA SyncMaps ==
  ASSUME ZoInv, PoolInv, InUse, NEW i \in Insts, NEW a \in Archives, Instance(i, a),
         Touch(i, a, Excess(i)), UNCHANGED <<call, closedAll>>,
         \/ UNCHANGED handle
         \/ \E h \in Handles :
               handle[h] = Shut /\ handle' = [handle EXCEPT ![h] = [st |-> "open", inst |-> i]]
  PROVE  Pool!PoolNext
<1>1. InUse' /\ \A b \in Archives : CallsFor(b)' = CallsFor(b)
  BY DEF InUse, CallsFor
<1>2. /\ arc'[i] = a
      /\ \A h \in Handles : handle[h].st = "open" => arc'[handle[h].inst] = arc[handle[h].inst]
  BY TouchKeepsArchives, UsedIsPinned DEF ZoInv, UsedIsCached, InUse, Shut
<1>3. CASE UNCHANGED handle
  <2>1. \A b \in Archives : HandlesFor(b)' = HandlesFor(b)
    BY <1>2, <1>3 DEF HandlesFor
  <2>2. \A b \in Archives : UsersOf(b)' = UsersOf(b)
    BY <1>1, <2>1 DEF UsersOf, CallsFor, HandlesFor
  <2> QED
    BY <1>1, <2>2, UsersSame, ServeMaps
<1>4. ASSUME NEW h \in Handles, handle[h] = Shut,
             handle' = [handle EXCEPT ![h] = [st |-> "open", inst |-> i]]
      PROVE  Pool!PoolNext
  <2>1. /\ handle'[h].st = "open" /\ handle'[h].inst = i /\ handle[h].st # "open"
        /\ \A g \in Handles \ {h} : handle'[g] = handle[g]
    BY <1>4 DEF Shut, ZoInv, ZoTypeOK
  <2>2. /\ HandlesFor(a)' = HandlesFor(a) \cup {h} /\ h \notin HandlesFor(a)
        /\ \A b \in Archives \ {a} : HandlesFor(b)' = HandlesFor(b)
    BY <1>2, <2>1 DEF HandlesFor
  <2>3. Cardinality(HandlesFor(a)') = Cardinality(HandlesFor(a)) + 1
    BY <2>2, UsersCounted, FS_AddElement
  <2>4. \A b \in Archives : UsersOf(b)' = Cardinality(CallsFor(b)') + Cardinality(HandlesFor(b)')
    BY DEF UsersOf, CallsFor, HandlesFor
  <2>5. ASSUME NEW b \in Archives
        PROVE  UsersOf(b)' = IF b = a THEN UsersOf(b) + 1 ELSE UsersOf(b)
    <3>1. /\ UsersOf(b) = Cardinality(CallsFor(b)) + Cardinality(HandlesFor(b))
          /\ Cardinality(CallsFor(b)) \in Nat /\ Cardinality(HandlesFor(b)) \in Nat
      BY UsersCounted
    <3>2. CASE b = a
      BY <1>1, <2>3, <2>4, <3>1, <3>2
    <3>3. CASE b # a
      BY <1>1, <2>2, <2>4, <3>1, <3>3
    <3> QED
      BY <3>2, <3>3
  <2> QED
    BY <1>1, <2>5, UsersMore, ServeMaps
<1> QED
  BY <1>3, <1>4

\* Archive a is served to an asynchronous one.
LEMMA EnterMaps ==
  ASSUME ZoInv, PoolInv, InUse, NEW c \in Callers, NEW op \in Ops, NEW a \in Archives,
         NEW i \in Insts, call[c].pc # "accept", Enter(c, op, a, i)
  PROVE  Pool!PoolNext
<1>1. Instance(i, a) /\ Touch(i, a, Excess(i)) /\ UNCHANGED closedAll /\ InUse'
  BY DEF Enter, InUse
<1>2. PICK h \in Handles \cup {None} :
        /\ call' = [call EXCEPT ![c] = [pc |-> "accept", op |-> op, arc |-> a, inst |-> i, h |-> h]]
        /\ \/ h = None /\ UNCHANGED handle
           \/ /\ h \in Handles /\ handle[h] = Shut
              /\ handle' = [handle EXCEPT ![h] = [st |-> "fresh", inst |-> i]]
  BY <1>1 DEF Enter, Rest
<1>3. /\ call'[c].pc = "accept" /\ call'[c].arc = a
      /\ \A d \in Callers \ {c} : call'[d] = call[d]
  BY <1>2 DEF ZoInv, ZoTypeOK
<1>4. \A h2 \in Handles : /\ handle'[h2].st = "open" <=> handle[h2].st = "open"
                          /\ handle[h2].st = "open" => handle'[h2] = handle[h2]
  BY <1>2 DEF ZoInv, ZoTypeOK, Shut
<1>5. \A h2 \in Handles :
        handle[h2].st = "open" => arc'[handle[h2].inst] = arc[handle[h2].inst]
  BY <1>1, TouchKeepsArchives, UsedIsPinned DEF ZoInv, UsedIsCached, InUse, Shut
<1>6. \A b \in Archives : HandlesFor(b)' = HandlesFor(b)
  BY <1>4, <1>5 DEF HandlesFor
<1>7. /\ CallsFor(a)' = CallsFor(a) \cup {c} /\ c \notin CallsFor(a)
      /\ \A b \in Archives \ {a} : CallsFor(b)' = CallsFor(b)
  BY <1>3 DEF CallsFor
<1>8. Cardinality(CallsFor(a)') = Cardinality(CallsFor(a)) + 1
  BY <1>7, UsersCounted, FS_AddElement
<1>9. \A b \in Archives : UsersOf(b)' = Cardinality(CallsFor(b)') + Cardinality(HandlesFor(b)')
  BY DEF UsersOf, CallsFor, HandlesFor
<1>10. ASSUME NEW b \in Archives
       PROVE  UsersOf(b)' = IF b = a THEN UsersOf(b) + 1 ELSE UsersOf(b)
  <2>1. /\ UsersOf(b) = Cardinality(CallsFor(b)) + Cardinality(HandlesFor(b))
        /\ Cardinality(CallsFor(b)) \in Nat /\ Cardinality(HandlesFor(b)) \in Nat
    BY UsersCounted
  <2>2. CASE b = a
    BY <1>6, <1>8, <1>9, <2>1, <2>2
  <2>3. CASE b # a
    BY <1>6, <1>7, <1>9, <2>1, <2>3
  <2> QED
    BY <2>2, <2>3
<1> QED
  BY <1>1, <1>10, UsersMore, ServeMaps

\* A call ends: it leaves the archive, unless it leaves a handle open.
LEMMA FinishMaps ==
  ASSUME ZoInv, PoolInv, InUse, NEW c \in Callers, Finish(c)
  PROVE  [Pool!PoolNext]_(Pool!poolVars)
<1>1. /\ call[c].pc = "accept" /\ call' = [call EXCEPT ![c] = Rest]
      /\ \/ call[c].h = None /\ UNCHANGED handle
         \/ call[c].h # None /\ handle' = [handle EXCEPT ![call[c].h].st = "open"]
      /\ UNCHANGED <<cached, older, arc, closedAll>> /\ InUse'
  BY DEF Finish, InUse
<1>2. PICK a \in Archives : a = call[c].arc /\ a = arc[call[c].inst]
  BY <1>1 DEF ZoInv, UsedIsCached, PoolInv, ArchivesKnown, InUse
<1>3. call'[c].pc = "idle" /\ \A d \in Callers \ {c} : call'[d] = call[d]
  BY <1>1 DEF ZoInv, ZoTypeOK, Rest
<1>4. /\ CallsFor(a)' = CallsFor(a) \ {c} /\ c \in CallsFor(a)
      /\ \A b \in Archives \ {a} : CallsFor(b)' = CallsFor(b)
  <2>1. \A b \in Archives : CallsFor(b)' = {d \in Callers : call'[d].pc = "accept" /\ call'[d].arc = b}
    BY DEF CallsFor
  <2>2. c \notin CallsFor(a)' /\ c \in CallsFor(a)
    BY <1>1, <1>2, <1>3, <2>1 DEF CallsFor
  <2>3. \A b \in Archives, d \in Callers \ {c} : d \in CallsFor(b)' <=> d \in CallsFor(b)
    BY <1>3, <2>1 DEF CallsFor
  <2>4. \A b \in Archives \ {a} : c \notin CallsFor(b)' /\ c \notin CallsFor(b)
    BY <1>1, <1>2, <1>3, <2>1 DEF CallsFor
  <2>5. \A b \in Archives : CallsFor(b)' \subseteq Callers /\ CallsFor(b) \subseteq Callers
    BY <2>1 DEF CallsFor
  <2>6. \A x : x \in CallsFor(a)' <=> x \in CallsFor(a) \ {c}
    BY <2>2, <2>3, <2>5
  <2>7. \A b \in Archives \ {a} : \A x : x \in CallsFor(b)' <=> x \in CallsFor(b)
    BY <2>3, <2>4, <2>5
  <2> QED
    BY <2>2, <2>6, <2>7
<1>5. /\ Cardinality(CallsFor(a)') = Cardinality(CallsFor(a)) - 1
      /\ IsFiniteSet(CallsFor(a)) /\ Cardinality(CallsFor(a)) \in Nat
  BY <1>4, UsersCounted, FS_RemoveElement
<1>6. \A b \in Archives : UsersOf(b)' = Cardinality(CallsFor(b)') + Cardinality(HandlesFor(b)')
  BY DEF UsersOf, CallsFor, HandlesFor
<1>7. \A b \in Archives :
        /\ UsersOf(b) = Cardinality(CallsFor(b)) + Cardinality(HandlesFor(b))
        /\ Cardinality(CallsFor(b)) \in Nat /\ Cardinality(HandlesFor(b)) \in Nat
  BY UsersCounted
<1>8. CASE call[c].h = None
  <2>1. \A b \in Archives : HandlesFor(b)' = HandlesFor(b)
    BY <1>1, <1>8 DEF HandlesFor
  <2>2. ASSUME NEW b \in Archives
        PROVE  UsersOf(b)' = IF b = a THEN UsersOf(b) - 1 ELSE UsersOf(b)
    <3>1. CASE b = a
      BY <1>5, <1>6, <1>7, <2>1, <3>1
    <3>2. CASE b # a
      BY <1>4, <1>6, <1>7, <2>1, <3>2
    <3> QED
      BY <3>1, <3>2
  <2>3. UsersOf(a) > 0 /\ UsersOf(a) \in Nat
    BY <1>4, <1>7, UsersCounted
  <2> QED
    BY <1>1, <2>2, <2>3, LeaveMaps
<1>9. CASE call[c].h # None
  <2>1. PICK h \in Handles : h = call[c].h /\ handle[h].st = "fresh"
    BY <1>1, <1>9 DEF ZoInv, FreshIsOwned
  <2>2. handle[h].inst = call[c].inst
    BY <1>1, <1>9, <2>1 DEF ZoInv, FreshIsOwned, PoolInv, HandlesOwned
  <2>3. /\ handle'[h].st = "open" /\ handle'[h].inst = handle[h].inst
        /\ \A g \in Handles \ {h} : handle'[g] = handle[g]
    BY <1>1, <1>9, <2>1 DEF ZoInv, ZoTypeOK, HandleState
  <2>4. /\ HandlesFor(a)' = HandlesFor(a) \cup {h} /\ h \notin HandlesFor(a)
        /\ \A b \in Archives \ {a} : HandlesFor(b)' = HandlesFor(b)
    <3>1. \A b \in Archives : HandlesFor(b)' =
            {g \in Handles : handle'[g].st = "open" /\ arc[handle'[g].inst] = b}
      BY <1>1 DEF HandlesFor
    <3> QED
      BY <1>2, <2>1, <2>2, <2>3, <3>1 DEF HandlesFor
  <2>5. Cardinality(HandlesFor(a)') = Cardinality(HandlesFor(a)) + 1
    BY <2>4, UsersCounted, FS_AddElement
  <2>6. ASSUME NEW b \in Archives
        PROVE  UsersOf(b)' = UsersOf(b)
    <3>1. CASE b = a
      BY <1>5, <1>6, <1>7, <2>5, <3>1
    <3>2. CASE b # a
      BY <1>4, <1>6, <1>7, <2>4, <3>2
    <3> QED
      BY <3>1, <3>2
  <2>7. OpenedHere' = OpenedHere
    BY <1>1 DEF OpenedHere, InUse
  <2> QED
    BY <1>1, <2>6, <2>7, UsersSame, StutterMaps
<1> QED
  BY <1>8, <1>9

\* Objects that nobody uses are closed.
LEMMA SweepMaps ==
  ASSUME ZoInv, PoolInv, InUse, NEW C \in SUBSET cached, \A j \in C : ~Pinned(j),
         cached' = cached \ C, arc' = Without(arc, C, None), UNCHANGED <<handle, call, closedAll>>
  PROVE  Pool!PoolNext
<1>1. InUse' /\ \A j \in Insts : arc'[j] = IF j \in C THEN None ELSE arc[j]
  BY DEF InUse, Without, ZoInv, ZoTypeOK
<1>2. \A j \in cached \ C : arc'[j] = arc[j]
  BY <1>1 DEF ZoInv, ZoTypeOK
<1>3. \A h \in Handles : handle[h].st = "open" => handle[h].inst \in cached \ C
  BY UsedIsPinned DEF ZoInv, UsedIsCached, InUse, Shut
<1>4. \A b \in Archives : HandlesFor(b)' = HandlesFor(b) /\ CallsFor(b)' = CallsFor(b)
  BY <1>2, <1>3 DEF HandlesFor, CallsFor
<1>5. UsersHere' = UsersHere
  <2>1. \A b \in Archives : UsersOf(b)' = UsersOf(b)
    BY <1>4 DEF UsersOf, HandlesFor, CallsFor
  <2> QED
    BY <1>1, <2>1, UsersSame
<1>6. OpenedHere' \in SUBSET OpenedHere
  BY <1>1, <1>2 DEF OpenedHere
<1>7. Pool!InUseBy(OpenedHere) \subseteq OpenedHere'
  <2> SUFFICES ASSUME NEW b \in OpenedHere, UsersHere[b] > 0
               PROVE  b \in OpenedHere'
    BY DEF Pool!InUseBy, UsersHere
  <2>1. b \in Archives /\ UsersOf(b) > 0
    BY DEF OpenedHere, UsersHere, PoolInv, ArchivesKnown
  <2>2. PICK j \in cached : arc[j] = b /\ Pinned(j)
    BY <2>1, UsersPin
  <2> QED
    BY <1>1, <1>2, <2>2 DEF OpenedHere
<1>8. Pool!Sweep
  BY <1>5, <1>6, <1>7 DEF Pool!Sweep, OpenedHere, UsersHere
<1> QED
  BY <1>8 DEF Pool!PoolNext

\* The whole file system is closed.
LEMMA CloseAllMaps ==
  ASSUME CloseAll
  PROVE  Pool!PoolNext
<1>1. closedAll' = "yes" /\ OpenedHere' = {} /\ UsersHere' = [a \in Archives |-> 0]
  BY DEF CloseAll, OpenedHere, UsersHere, InUse
<1>2. Pool!ShutAll
  BY <1>1 DEF Pool!ShutAll, OpenedHere, UsersHere
<1> QED
  BY <1>2 DEF Pool!PoolNext

\* Every step of the file system is a step of the pool, or none.
LEMMA EveryStepMaps == ZoInv /\ PoolInv /\ [Next]_vars => [Pool!PoolNext]_(Pool!poolVars)
<1> SUFFICES ASSUME ZoInv, PoolInv, [Next]_vars PROVE [Pool!PoolNext]_(Pool!poolVars)
  OBVIOUS
\* A step after the file system was closed does not count.
<1>0. ASSUME ~InUse, UNCHANGED closedAll
      PROVE  UNCHANGED Pool!poolVars
  <2>1. OpenedHere' = OpenedHere /\ UsersHere' = UsersHere
    BY <1>0 DEF OpenedHere, UsersHere, InUse
  <2> QED
    BY <1>0, <2>1, StutterMaps
<1>1. ASSUME UNCHANGED <<cached, arc, handle, closedAll>>,
             \/ UNCHANGED call
             \/ \E c \in Callers, r \in CallState :
                   /\ call[c].pc # "accept" /\ r.pc # "accept" /\ call' = [call EXCEPT ![c] = r]
      PROVE  UNCHANGED Pool!poolVars
  <2>1. \A c \in Callers : call'[c].pc = "accept" \/ call[c].pc = "accept" => call'[c] = call[c]
    BY <1>1 DEF ZoInv, ZoTypeOK
  <2>2. \A b \in Archives : CallsFor(b)' = CallsFor(b) /\ HandlesFor(b)' = HandlesFor(b)
    BY <1>1, <2>1 DEF CallsFor, HandlesFor
  <2>3. \A b \in Archives : UsersOf(b)' = UsersOf(b)
    BY <2>2 DEF UsersOf, CallsFor, HandlesFor
  <2>4. OpenedHere' = OpenedHere /\ UsersHere' = UsersHere
    BY <1>1, <2>3 DEF OpenedHere, UsersHere, InUse
  <2> QED
    BY <1>1, <2>4, StutterMaps
<1>2. ASSUME NEW c \in Callers, NEW op \in Ops, NEW a \in Archives, Begin(c, op, a)
      PROVE  UNCHANGED Pool!poolVars
  BY <1>1, <1>2 DEF Begin, CallState
<1>3. ASSUME NEW c \in Callers, StatFails(c)
      PROVE  UNCHANGED Pool!poolVars
  BY <1>1, <1>3 DEF StatFails, CallState, Rest, Ops
<1>4. ASSUME NEW c \in Callers, NEW op \in Ops, NEW a \in Archives, BeginCached(c, op, a)
      PROVE  Pool!PoolNext
  BY <1>4, EnterMaps DEF BeginCached
<1>5. ASSUME NEW c \in Callers, AfterStat(c)
      PROVE  [Pool!PoolNext]_(Pool!poolVars)
  <2>1. call[c].pc = "stat" /\ call[c].arc \in Archives /\ call[c].op \in Ops
    BY <1>5 DEF AfterStat, ZoInv, ZoTypeOK, CallShape, CallState
  <2>2. PICK i \in Insts : Enter(c, call[c].op, call[c].arc, i)
    BY <1>5 DEF AfterStat
  <2>3. CASE InUse
    BY <2>1, <2>2, <2>3, EnterMaps
  <2>4. CASE ~InUse
    BY <1>0, <2>2, <2>4 DEF Enter
  <2> QED
    BY <2>3, <2>4
<1>6. ASSUME NEW c \in Callers, Finish(c)
      PROVE  [Pool!PoolNext]_(Pool!poolVars)
  <2>1. CASE InUse
    BY <1>6, <2>1, FinishMaps
  <2>2. CASE ~InUse
    BY <1>0, <1>6, <2>2 DEF Finish
  <2> QED
    BY <2>1, <2>2
<1>7. ASSUME NEW a \in Archives, SyncUse(a)
      PROVE  Pool!PoolNext
  BY <1>7, SyncMaps DEF SyncUse
<1>8. ASSUME NEW a \in Archives, SyncOpen(a)
      PROVE  Pool!PoolNext
  BY <1>8, SyncMaps DEF SyncOpen
<1>9. ASSUME NEW a \in Archives, SyncInner(a)
      PROVE  [Pool!PoolNext]_(Pool!poolVars)
  <2>1. PICK i \in Insts : Instance(i, a) /\ Touch(i, a, Excess(i))
    BY <1>9 DEF SyncInner
  <2>2. UNCHANGED <<handle, call, closedAll>>
    BY <1>9 DEF SyncInner
  <2>3. CASE InUse
    BY <2>1, <2>2, <2>3, SyncMaps
  <2> QED
    BY <1>0, <2>2, <2>3
<1>10. ASSUME NEW h \in Handles, CloseHandle(h)
       PROVE  [Pool!PoolNext]_(Pool!poolVars)
  <2>1. /\ handle[h].st = "open" /\ handle' = [handle EXCEPT ![h] = Shut]
        /\ UNCHANGED <<cached, arc, call, closedAll>>
    BY <1>10 DEF CloseHandle
  <2>2. CASE InUse
    <3>1. PICK a \in Archives : a = arc[handle[h].inst]
      BY <2>1, <2>2 DEF ZoInv, UsedIsCached, InUse, Shut, PoolInv, ArchivesKnown
    <3>2. /\ handle'[h].st # "open" /\ \A g \in Handles \ {h} : handle'[g] = handle[g]
      BY <2>1 DEF ZoInv, ZoTypeOK, Shut
    <3>3. /\ HandlesFor(a)' = HandlesFor(a) \ {h} /\ h \in HandlesFor(a)
          /\ \A b \in Archives \ {a} : HandlesFor(b)' = HandlesFor(b)
      <4>1. \A b \in Archives : HandlesFor(b)' =
              {g \in Handles : handle'[g].st = "open" /\ arc[handle'[g].inst] = b}
        BY <2>1 DEF HandlesFor
      <4> QED
        BY <2>1, <3>1, <3>2, <4>1 DEF HandlesFor
    <3>4. Cardinality(HandlesFor(a)') = Cardinality(HandlesFor(a)) - 1
      BY <3>3, UsersCounted, FS_RemoveElement
    <3>5. \A b \in Archives : CallsFor(b)' = CallsFor(b)
      BY <2>1 DEF CallsFor
    <3>6. \A b \in Archives :
            /\ UsersOf(b) = Cardinality(CallsFor(b)) + Cardinality(HandlesFor(b))
            /\ UsersOf(b)' = Cardinality(CallsFor(b)') + Cardinality(HandlesFor(b)')
            /\ Cardinality(CallsFor(b)) \in Nat /\ Cardinality(HandlesFor(b)) \in Nat
      BY UsersCounted DEF UsersOf, CallsFor, HandlesFor
    <3>7. ASSUME NEW b \in Archives
          PROVE  UsersOf(b)' = IF b = a THEN UsersOf(b) - 1 ELSE UsersOf(b)
      <4>1. CASE b = a
        BY <3>4, <3>5, <3>6, <4>1
      <4>2. CASE b # a
        BY <3>3, <3>5, <3>6, <4>2
      <4> QED
        BY <4>1, <4>2
    <3>8. UsersOf(a) > 0 /\ UsersOf(a) \in Nat
      BY <3>3, <3>6, UsersCounted
    <3> QED
      BY <2>1, <2>2, <3>7, <3>8, LeaveMaps
  <2> QED
    BY <1>0, <2>1, <2>2
<1>11. ASSUME CloseAll
       PROVE  Pool!PoolNext
  BY <1>11, CloseAllMaps
<1>12. ASSUME TimerFires
       PROVE  [Pool!PoolNext]_(Pool!poolVars)
  <2> DEFINE C == ToClose(cached, Cardinality(cached))
  <2>1. C \in SUBSET cached /\ \A i \in C : ~Pinned(i)
    BY ToCloseIdle
  <2>2. CASE InUse
    BY <1>12, <2>1, <2>2, SweepMaps DEF TimerFires
  <2> QED
    BY <1>0, <1>12, <2>2 DEF TimerFires
<1>13. ASSUME NEW i \in Insts, Expire(i)
       PROVE  UNCHANGED Pool!poolVars
  BY <1>1, <1>13 DEF Expire
<1>14. CASE UNCHANGED vars
  BY <1>1, <1>14 DEF vars
<1> QED
  BY <1>2, <1>3, <1>4, <1>5, <1>6, <1>7, <1>8, <1>9, <1>10, <1>11, <1>12, <1>13, <1>14
     DEF Next, Step, Alone, SyncOuter

\* limitOpenFiles, the reference counts and the timer keep what ArchivePool
\* promises, for any number of archives, calls and handles and any
\* maxOpenFiles.
THEOREM PoolIsImplemented == Spec => ImplementsPool
<1>1. Init => Pool!PoolInit
  <2> SUFFICES ASSUME Init PROVE Pool!PoolInit
    OBVIOUS
  <2>1. \A a \in Archives : CallsFor(a) = {} /\ HandlesFor(a) = {}
    BY DEF Init, CallsFor, HandlesFor, Rest, Shut
  <2>2. \A a \in Archives : UsersOf(a) = 0
    <3>1. \A a \in Archives : UsersOf(a) = Cardinality(CallsFor(a)) + Cardinality(HandlesFor(a))
      BY UsersCounted
    <3> QED
      BY <2>1, <3>1, FS_EmptySet
  <2> QED
    BY <2>2 DEF Init, Pool!PoolInit, InUse
<1>2. Init => PoolInv
  BY PoolInitInv
<1>3. Spec => [](ZoInv /\ PoolInv)
  BY <1>2, ZoAlways, PoolStepInv, PTL DEF Spec
<1> QED
  BY <1>1, <1>3, EveryStepMaps, PTL DEF Spec, ImplementsPool, Pool!PoolSpec
=============================================================================
