----------------------------- MODULE HostProofs -----------------------------
(* What lies between Yarn and the host: WasmRuntime for any page and heap   *)
(* sizes and any number of calls, WasmIo for any files and numbers of       *)
(* descriptors, and the patched fs module for any number of handles.        *)
EXTENDS WasmRuntime, WasmIo, PatchedFs, FiniteSetTheorems, SequenceTheorems,
        WellFoundedInduction, TLAPS

\* What a call has still to do, and what it holds meanwhile: the block malloc
\* gave it, or its place on the stack.
Held ==
    IF call.op = "name" THEN IF call.todo = Order("name") THEN 0 ELSE call.n ELSE FreeBlock

StoreRest == {<<"view", "set", "give">>, <<"set", "give">>, <<"give">>}
LoadRest == {<<"open", "read", "view", "copy", "free">>, <<"read", "view", "copy", "free">>,
             <<"view", "copy", "free">>, <<"copy", "free">>, <<"free">>}
NameRest == {<<"push", "ask", "pop">>, <<"ask", "pop">>, <<"pop">>}

CallRecord ==
    [op : {"none", "store", "load", "name"},
     todo : {<<>>} \cup {Order("store"), Order("load")} \cup StoreRest \cup LoadRest \cup NameRest,
     n : Nat, block : {"none", "own", "null"}, view : Nat]

CallShape ==
    /\ call \in CallRecord
    /\ call.op = "none" => call = NoCall
    /\ call.op = "store" =>
          \/ call.todo = Order("store") /\ call.block = "none"
          \/ call.todo \in StoreRest /\ call.block = "own"
    /\ call.op = "load" =>
          \/ call.todo = Order("load") /\ call.block = "none"
          \/ call.todo \in LoadRest /\ call.block \in {"own", "null"}
    /\ call.op = "name" => call.todo \in NameRest /\ call.block = "none"

HeapNumbers ==
    /\ {size, buffer, views} \subseteq Nat
    /\ {used, owned, leaked, stack} \subseteq Int

\* libzip is loaded once, and calls only come when it is.
Loaded ==
    /\ cached = "absent" => mod = "null"
    /\ mod = "null" => call = NoCall /\ used = 0 /\ owned = 0
    /\ mod = "interface" => cached = "loaded" /\ views = buffer
    /\ mod \in {"null", "interface"}

MemoryFits == used <= size /\ size <= MaxHeap
ViewTaken == call.todo \in {<<"set", "give">>, <<"copy", "free">>} => call.view = buffer
Accounted == used + stack = owned + leaked + Held

WrInv == CallShape /\ HeapNumbers /\ Loaded /\ MemoryFits /\ ViewTaken /\ Accounted

-----------------------------------------------------------------------------
\* The new size is enough for what was requested and within the maximum.
LEMMA NewSizeSuffices ==
  ASSUME NEW requested \in Nat, requested <= MaxHeap, NEW cutDown \in {1, 2, 4}, size \in Nat
  PROVE  /\ NewSize(requested, cutDown) \in Nat
         /\ requested <= NewSize(requested, cutDown) /\ NewSize(requested, cutDown) <= MaxHeap
<1> DEFINE x == Max({MinHeap, requested, OverGrown(cutDown)})
<1>1. OverGrown(cutDown) \in Nat
  BY DEF OverGrown
<1>2. x \in Nat /\ x >= requested
  BY <1>1, HeapAssumption DEF Max
<1> HIDE DEF x
<1>3. alignUp(x, Page) \in Nat /\ alignUp(x, Page) >= x
  <2>1. ((x + Page - 1) \div Page) \in Nat /\ ((x + Page - 1) \div Page) * Page >= x
    BY <1>2, HeapAssumption
  <2> QED
    BY <2>1, HeapAssumption DEF alignUp
<1> DEFINE y == alignUp(x, Page)
<1> HIDE DEF y
<1>4. y \in Nat /\ y >= requested
  BY <1>2, <1>3 DEF y
<1>5. Min({MaxHeap, y}) \in {MaxHeap, y} /\ Min({MaxHeap, y}) <= MaxHeap
  BY <1>4, HeapAssumption DEF Min
<1> QED
  BY <1>4, <1>5, HeapAssumption DEF NewSize, x, y

\* When there is room for n more, the memory holds it, grown or not, and the
\* views are of the buffer there is then.
LEMMA RoomSuffices ==
  ASSUME HeapNumbers, MemoryFits, views = buffer, NEW n \in Nat, Room(n)
  PROVE  /\ size' \in Nat /\ buffer' \in Nat /\ views' = buffer'
         /\ used + n <= size' /\ size' <= MaxHeap
<1>1. CASE Enough(n)
  BY <1>1 DEF Enough, memory, HeapNumbers, MemoryFits
<1>2. CASE Grows(n)
  <2>1. PICK cutDown \in {1, 2, 4} : Grow(NewSize(used + n, cutDown))
    BY <1>2 DEF Grows
  <2>2. used + n \in Nat /\ used + n <= MaxHeap
    BY <1>2 DEF Grows, HeapNumbers
  <2> QED
    BY <2>1, <2>2, NewSizeSuffices DEF Grow, HeapNumbers
<1> QED
  BY <1>1, <1>2 DEF Room

\* The invariant of the runtime holds initially.
LEMMA WrInitInv == WrInit => WrInv
  BY HeapAssumption DEF WrInit, WrInv, CallShape, CallRecord, NoCall, HeapNumbers, Loaded, MemoryFits,
     ViewTaken, Accounted, Held, FreeBlock

\* The orders, told one by one, and what is left of them after a step.
LEMMA Orders ==
  /\ Order("store") = <<"malloc", "view", "set", "give">>
  /\ Order("load") = <<"malloc", "open", "read", "view", "copy", "free">>
  /\ Order("name") = <<"push", "ask", "pop">>
<1>1. "store" # "load" /\ "store" # "name" /\ "load" # "name"
  OBVIOUS
<1> QED
  BY <1>1, Zenon DEF Order

\* The first step of a call and what is left after it.
LEMMA HeadsAndTails ==
  /\ Head(<<"malloc", "view", "set", "give">>) = "malloc"
  /\ Tail(<<"malloc", "view", "set", "give">>) = <<"view", "set", "give">>
  /\ Head(<<"view", "set", "give">>) = "view" /\ Tail(<<"view", "set", "give">>) = <<"set", "give">>
  /\ Head(<<"set", "give">>) = "set" /\ Tail(<<"set", "give">>) = <<"give">>
  /\ Head(<<"give">>) = "give"
  /\ Head(<<"malloc", "open", "read", "view", "copy", "free">>) = "malloc"
  /\ Tail(<<"malloc", "open", "read", "view", "copy", "free">>) = <<"open", "read", "view", "copy", "free">>
  /\ Head(<<"open", "read", "view", "copy", "free">>) = "open"
  /\ Tail(<<"open", "read", "view", "copy", "free">>) = <<"read", "view", "copy", "free">>
  /\ Head(<<"read", "view", "copy", "free">>) = "read"
  /\ Tail(<<"read", "view", "copy", "free">>) = <<"view", "copy", "free">>
  /\ Head(<<"view", "copy", "free">>) = "view" /\ Tail(<<"view", "copy", "free">>) = <<"copy", "free">>
  /\ Head(<<"copy", "free">>) = "copy" /\ Tail(<<"copy", "free">>) = <<"free">>
  /\ Head(<<"free">>) = "free"
  /\ Head(<<"push", "ask", "pop">>) = "push" /\ Tail(<<"push", "ask", "pop">>) = <<"ask", "pop">>
  /\ Head(<<"ask", "pop">>) = "ask" /\ Tail(<<"ask", "pop">>) = <<"pop">>
  /\ Head(<<"pop">>) = "pop"
  OBVIOUS

\* What is left to do after these steps is something.
LEMMA NotOver ==
  /\ <<"view", "set", "give">> # <<>> /\ <<"set", "give">> # <<>> /\ <<"give">> # <<>>
  /\ <<"open", "read", "view", "copy", "free">> # <<>> /\ <<"read", "view", "copy", "free">> # <<>>
  /\ <<"view", "copy", "free">> # <<>> /\ <<"copy", "free">> # <<>> /\ <<"free">> # <<>>
  /\ <<"ask", "pop">> # <<>> /\ <<"pop">> # <<>>
  OBVIOUS

\* Where the calls are before and after each of their steps.
Step(name, op, before, after) == Doing(name) /\ call.op = op /\ call.todo = before /\ Tail(before) = after

\* A call that is not over is at one of these steps.
LEMMA Steps ==
  ASSUME CallShape, call.todo # <<>>
  PROVE  \/ Step("malloc", "store", Order("store"), <<"view", "set", "give">>) /\ call.block = "none"
         \/ /\ Step("view", "store", <<"view", "set", "give">>, <<"set", "give">>)
            /\ call.block = "own"
         \/ Step("set", "store", <<"set", "give">>, <<"give">>) /\ call.block = "own"
         \/ Step("give", "store", <<"give">>, Tail(<<"give">>)) /\ call.block = "own"
         \/ Step("malloc", "load", Order("load"), <<"open", "read", "view", "copy", "free">>) /\ call.block = "none"
         \/ /\ call.block \in {"own", "null"}
            /\ \/ Step("open", "load", <<"open", "read", "view", "copy", "free">>, <<"read", "view", "copy", "free">>)
               \/ Step("read", "load", <<"read", "view", "copy", "free">>, <<"view", "copy", "free">>)
               \/ Step("view", "load", <<"view", "copy", "free">>, <<"copy", "free">>)
               \/ Step("copy", "load", <<"copy", "free">>, <<"free">>)
               \/ Step("free", "load", <<"free">>, Tail(<<"free">>))
         \/ /\ call.block = "none"
            /\ \/ Step("push", "name", Order("name"), <<"ask", "pop">>)
               \/ Step("ask", "name", <<"ask", "pop">>, <<"pop">>)
               \/ Step("pop", "name", <<"pop">>, Tail(<<"pop">>))
<1> USE DEF Step, Doing
<1>1. CASE call.op = "none"
  BY <1>1 DEF CallShape, NoCall
<1>2. CASE call.op = "store"
  BY <1>2, Orders, HeadsAndTails DEF CallShape, StoreRest
<1>3. CASE call.op = "load"
  BY <1>3, Orders, HeadsAndTails DEF CallShape, LoadRest
<1>4. CASE call.op = "name"
  BY <1>4, Orders, HeadsAndTails DEF CallShape, NameRest
<1> QED
  BY <1>1, <1>2, <1>3, <1>4 DEF CallShape, CallRecord

\* A call that goes on, told field by field.
Going(todo, block, view) ==
    [op |-> call.op, todo |-> todo, n |-> call.n, block |-> block, view |-> view]

\* What a call is after a step that is not its last.
LEMMA Goes ==
  ASSUME CallShape, Tail(call.todo) # <<>>
  PROVE  /\ Done(call) = Going(Tail(call.todo), call.block, call.view)
         /\ \A b : Done([call EXCEPT !.block = b]) = Going(Tail(call.todo), b, call.view)
         /\ \A v : Done([call EXCEPT !.view = v]) = Going(Tail(call.todo), call.block, v)
<1>1. PICK o, t, k, b, v : call = [op |-> o, todo |-> t, n |-> k, block |-> b, view |-> v]
  BY DEF CallShape, CallRecord
<1>2. ASSUME NEW c, NEW t2, NEW b2, NEW v2, Tail(t2) # <<>>,
             c = [op |-> call.op, todo |-> t2, n |-> call.n, block |-> b2, view |-> v2]
      PROVE  Done(c) = [op |-> call.op, todo |-> Tail(t2), n |-> call.n, block |-> b2, view |-> v2]
  <2>1. c.todo = t2
    BY <1>2
  <2>2. \A w : [c EXCEPT !.todo = w] =
                 [op |-> call.op, todo |-> w, n |-> call.n, block |-> b2, view |-> v2]
    BY <1>2
  <2>3. Done(c) = [c EXCEPT !.todo = Tail(t2)]
    BY <1>2, <2>1 DEF Done
  <2> QED
    BY <2>2, <2>3
<1>3. call = [op |-> call.op, todo |-> call.todo, n |-> call.n, block |-> call.block, view |-> call.view]
  BY <1>1
<1>4. \A w : [call EXCEPT !.block = w] =
               [op |-> call.op, todo |-> call.todo, n |-> call.n, block |-> w, view |-> call.view]
  BY <1>1
<1>5. \A w : [call EXCEPT !.view = w] =
               [op |-> call.op, todo |-> call.todo, n |-> call.n, block |-> call.block, view |-> w]
  BY <1>1
<1>6. Done(call) = Going(Tail(call.todo), call.block, call.view)
  BY <1>2, <1>3 DEF Going
<1>7. ASSUME NEW w PROVE Done([call EXCEPT !.block = w]) = Going(Tail(call.todo), w, call.view)
  <2> DEFINE c == [call EXCEPT !.block = w]
  <2>1. c = [op |-> call.op, todo |-> call.todo, n |-> call.n, block |-> w, view |-> call.view]
    BY <1>4
  <2> HIDE DEF c
  <2>2. Done(c) = Going(Tail(call.todo), w, call.view)
    BY <1>2, <2>1 DEF Going
  <2> QED
    BY <2>2 DEF c
<1>8. ASSUME NEW w PROVE Done([call EXCEPT !.view = w]) = Going(Tail(call.todo), call.block, w)
  <2> DEFINE c == [call EXCEPT !.view = w]
  <2>1. c = [op |-> call.op, todo |-> call.todo, n |-> call.n, block |-> call.block, view |-> w]
    BY <1>5
  <2> HIDE DEF c
  <2>2. Done(c) = Going(Tail(call.todo), call.block, w)
    BY <1>2, <2>1 DEF Going
  <2> QED
    BY <2>2 DEF c
<1> QED
  BY <1>6, <1>7, <1>8

\* Before its first step a call holds nothing, in between its block or its
\* place on the stack.
LEMMA Holding ==
  ASSUME CallShape
  PROVE  /\ call.todo \in {<<>>, Order("store"), Order("load"), Order("name")} => Held = 0
         /\ call.op = "name" /\ call.todo \in {<<"ask", "pop">>, <<"pop">>} => Held = call.n
         /\ call.op # "name" => Held = FreeBlock
         /\ FreeBlock \in Nat /\ FreeBlock = (IF call.block = "own" THEN call.n ELSE 0)
         /\ call.n \in Nat
<1>1. call.n \in Nat /\ FreeBlock \in Nat
  BY DEF CallShape, CallRecord, FreeBlock
<1>2. call.op = "none" => Held = 0
  BY DEF CallShape, Held, FreeBlock, NoCall
<1>3. ASSUME call.todo = <<>> PROVE Held = 0
  <2>1. call.op = "none"
    BY <1>3, Orders DEF CallShape, CallRecord, StoreRest, LoadRest, NameRest
  <2> QED
    BY <1>2, <2>1
<1>4. ASSUME call.op = "name", call.todo \in {<<"ask", "pop">>, <<"pop">>} PROVE Held = call.n
  BY <1>4, Orders DEF Held
<1>5. ASSUME call.op # "name" PROVE Held = FreeBlock
  BY <1>5 DEF Held
<1>6. ASSUME call.todo \in {Order("store"), Order("load"), Order("name")} PROVE Held = 0
  <2>1. CASE call.op = "name"
    BY <1>6, <2>1, Orders DEF CallShape, NameRest, Held
  <2>2. CASE call.op # "name"
    BY <1>2, <1>6, <2>2, Orders
       DEF CallShape, CallRecord, StoreRest, LoadRest, Held, FreeBlock
  <2> QED
    BY <2>1, <2>2
<1> QED
  BY <1>1, <1>3, <1>4, <1>5, <1>6 DEF FreeBlock

\* The shape of a call that begins, goes on or is over.
LEMMA ShapeNext ==
  ASSUME CallShape
  PROVE  /\ call' = NoCall => CallShape' /\ Held' = 0 /\ ViewTaken'
         /\ \A t \in StoreRest, v \in Nat :
              call.op = "store" /\ call' = Going(t, "own", v) /\ (t = <<"set", "give">> => v = buffer')
                => CallShape' /\ Held' = call.n /\ ViewTaken'
         /\ \A t \in LoadRest, b \in {"own", "null"}, v \in Nat :
              call.op = "load" /\ call' = Going(t, b, v) /\ (t = <<"copy", "free">> => v = buffer')
                => CallShape' /\ Held' = (IF b = "own" THEN call.n ELSE 0) /\ ViewTaken'
         /\ \A t \in {<<"ask", "pop">>, <<"pop">>}, v \in Nat :
              call.op = "name" /\ call' = Going(t, "none", v)
                => CallShape' /\ Held' = call.n /\ ViewTaken'
<1>0. call.n \in Nat
  BY DEF CallShape, CallRecord
<1>1. ASSUME call' = NoCall PROVE CallShape' /\ Held' = 0 /\ ViewTaken'
  BY <1>1 DEF CallShape, CallRecord, NoCall, Held, FreeBlock, ViewTaken
<1>2. ASSUME NEW t \in StoreRest, NEW v \in Nat, call.op = "store", call' = Going(t, "own", v),
             t = <<"set", "give">> => v = buffer'
      PROVE  CallShape' /\ Held' = call.n /\ ViewTaken'
  BY <1>0, <1>2 DEF Going, CallShape, CallRecord, Held, FreeBlock, ViewTaken, StoreRest
<1>3. ASSUME NEW t \in LoadRest, NEW b \in {"own", "null"}, NEW v \in Nat, call.op = "load",
             call' = Going(t, b, v), t = <<"copy", "free">> => v = buffer'
      PROVE  CallShape' /\ Held' = (IF b = "own" THEN call.n ELSE 0) /\ ViewTaken'
  BY <1>0, <1>3 DEF Going, CallShape, CallRecord, Held, FreeBlock, ViewTaken, LoadRest
<1>4. ASSUME NEW t \in {<<"ask", "pop">>, <<"pop">>}, NEW v \in Nat, call.op = "name",
             call' = Going(t, "none", v)
      PROVE  CallShape' /\ Held' = call.n /\ ViewTaken'
  BY <1>0, <1>4, Orders DEF Going, CallShape, CallRecord, Held, ViewTaken, NameRest
<1> QED
  BY <1>1, <1>2, <1>3, <1>4

\* What every step within a call has to leave behind.
LEMMA Kept ==
  ASSUME WrInv, mod = "interface", UNCHANGED loading,
         size' \in Nat, buffer' \in Nat, views' = buffer',
         used' \in Int, owned' \in Int, leaked' \in Int, stack' \in Int,
         used' <= size', size' <= MaxHeap, used' + stack' = owned' + leaked' + Held',
         CallShape', ViewTaken'
  PROVE  WrInv'
  BY DEF WrInv, HeapNumbers, Loaded, MemoryFits, Accounted, loading

\* Every step keeps it.
LEMMA WrStepInv == WrInv /\ [WrNext]_wrVars => WrInv'
<1> SUFFICES ASSUME WrInv, [WrNext]_wrVars PROVE WrInv'
  OBVIOUS
<1>0. /\ CallShape /\ HeapNumbers /\ MemoryFits /\ ViewTaken
      /\ HeapNumbers => /\ size \in Nat /\ buffer \in Nat /\ views \in Nat
                    /\ used \in Int /\ owned \in Int /\ leaked \in Int /\ stack \in Int
      /\ used <= size /\ size <= MaxHeap /\ used + stack = owned + leaked + Held
  BY DEF WrInv, HeapNumbers, MemoryFits, Accounted
<1>a. Held \in Nat /\ call.n \in Nat /\ FreeBlock \in Nat /\ call.view \in Nat
  BY <1>0, Holding DEF CallShape, CallRecord, Held
<1>b. mod = "interface" => views = buffer
  BY DEF WrInv, Loaded
\* Whoever has something to do is a call, and libzip is there.
<1>c. call.todo # <<>> => mod = "interface"
  BY DEF WrInv, Loaded, NoCall
<1>1. CASE UNCHANGED wrVars
  BY <1>1 DEF wrVars, WrInv, CallShape, HeapNumbers, Loaded, MemoryFits, ViewTaken, Accounted, Held, FreeBlock
<1>2. CASE Load
  <2>1. /\ cached = "absent" /\ cached' = "loaded" /\ mod' = "interface" /\ size' = MinHeap
        /\ buffer' = 1 /\ views' = 1 /\ used' = 1 /\ owned' = 1
        /\ UNCHANGED <<leaked, stack, call>>
    BY <1>2 DEF Load, createWasm, run, makeInterface
  <2>2. used = 0 /\ owned = 0 /\ call = NoCall
    BY <2>1 DEF WrInv, Loaded
  <2>3. CallShape' /\ Held' = Held /\ ViewTaken'
    BY <1>0, <2>1, <2>2 DEF CallShape, Held, FreeBlock, ViewTaken, NoCall
  <2> QED
    BY <1>0, <1>a, <2>1, <2>2, <2>3, HeapAssumption DEF WrInv, HeapNumbers, Loaded, MemoryFits, Accounted
<1>3. CASE LoadFails \/ LoadAgain
  <2>1. /\ cached \in {"absent", "partial"} /\ cached' = "partial"
        /\ UNCHANGED <<mod, size, buffer, views, used, owned, leaked, stack, call>>
    BY <1>3 DEF LoadFails, LoadAgain, memory
  <2>2. CallShape' /\ Held' = Held /\ ViewTaken'
    BY <1>0, <2>1 DEF CallShape, Held, FreeBlock, ViewTaken
  <2> QED
    BY <2>1, <2>2 DEF WrInv, HeapNumbers, Loaded, MemoryFits, Accounted
<1>4. ASSUME NEW op \in {"store", "load", "name"}, NEW n \in 1..3, Call(op, n) PROVE WrInv'
  <2>1. /\ call' = [op |-> op, todo |-> Order(op), n |-> n, block |-> "none", view |-> 0]
        /\ mod = "interface" /\ call = NoCall
        /\ UNCHANGED loading /\ UNCHANGED <<size, buffer, views, used, owned, leaked, stack>>
    BY <1>4 DEF Call, memory
  <2>2. CallShape' /\ ViewTaken'
    BY <2>1, Orders DEF CallShape, CallRecord, NameRest, ViewTaken
  <2>3. Held' = 0
    BY <2>1, Orders DEF Held, FreeBlock
  <2>4. Held = 0
    BY <1>0, <2>1, Holding DEF NoCall
  <2> QED
    BY <1>0, <1>b, <2>1, <2>2, <2>3, <2>4, Kept
<1>5. CASE Malloc
  <2>1. /\ Doing("malloc") /\ Room(call.n) /\ used' = used + call.n /\ call.todo # <<>>
        /\ UNCHANGED loading /\ UNCHANGED <<owned, leaked, stack>>
        /\ call' = Done([call EXCEPT !.block = "own"])
    BY <1>5 DEF Malloc, Doing
  <2>2. /\ size' \in Nat /\ buffer' \in Nat /\ views' = buffer'
        /\ used + call.n <= size' /\ size' <= MaxHeap
    BY <1>0, <1>a, <1>b, <1>c, <2>1, RoomSuffices
  <2>3. Held = 0 /\ CallShape' /\ ViewTaken' /\ Held' = call.n
    <3>1. /\ call.todo \in {Order("store"), Order("load")} /\ Tail(call.todo) # <<>>
          /\ \/ call.op = "store" /\ Tail(call.todo) = <<"view", "set", "give">>
             \/ /\ call.op = "load"
                /\ Tail(call.todo) = <<"open", "read", "view", "copy", "free">>
      BY <1>0, <2>1, Steps, NotOver DEF Step, Doing
    <3>2. call' = Going(Tail(call.todo), "own", call.view)
      BY <1>0, <2>1, <3>1, Goes
    <3> QED
      BY <1>0, <1>a, <3>1, <3>2, ShapeNext, Holding DEF StoreRest, LoadRest
  <2> QED
    BY <1>0, <1>a, <1>c, <2>1, <2>2, <2>3, Kept
<1>6. CASE MallocFails
  <2>1. /\ Doing("malloc") /\ call.todo # <<>>
        /\ UNCHANGED loading /\ UNCHANGED <<size, buffer, views, used, owned, leaked, stack>>
        /\ call.op = "store" => call' = NoCall
        /\ call.op # "store" => call' = Done([call EXCEPT !.block = "null"])
    BY <1>6 DEF MallocFails, NoRoom, memory, Doing
  <2>2. Held = 0 /\ CallShape' /\ ViewTaken' /\ Held' = 0
    <3>1. /\ call.todo \in {Order("store"), Order("load")} /\ Tail(call.todo) # <<>>
          /\ \/ call.op = "store"
             \/ /\ call.op = "load"
                /\ Tail(call.todo) = <<"open", "read", "view", "copy", "free">>
      BY <1>0, <2>1, Steps, NotOver DEF Step, Doing
    <3>2. CASE call.op = "store"
      BY <1>0, <2>1, <3>1, <3>2, ShapeNext, Holding
    <3>3. CASE call.op = "load"
      <4>1. call' = Going(Tail(call.todo), "null", call.view)
        BY <1>0, <2>1, <3>1, <3>3, Goes
      <4> QED
        BY <1>0, <1>a, <3>1, <3>3, <4>1, ShapeNext, Holding DEF LoadRest
    <3> QED
      BY <3>1, <3>2, <3>3
  <2> QED
    BY <1>0, <1>b, <1>c, <2>1, <2>2, Kept
<1>7. CASE Libzip
  <2>1. /\ call.todo # <<>> /\ Head(call.todo) \in {"open", "read", "ask"}
        /\ UNCHANGED loading /\ UNCHANGED <<leaked, stack>> /\ call' = Done(call)
    BY <1>7 DEF Libzip
  <2>2. PICK m \in 0..1 : Room(m) /\ used' = used + m /\ owned' = owned + m
    BY <1>7 DEF Libzip
  <2>3. /\ size' \in Nat /\ buffer' \in Nat /\ views' = buffer'
        /\ used + m <= size' /\ size' <= MaxHeap
    BY <1>0, <1>b, <1>c, <2>1, <2>2, RoomSuffices
  <2>4. CallShape' /\ ViewTaken' /\ Held' = Held
    <3>1. /\ Tail(call.todo) # <<>>
          /\ \/ /\ call.op = "load" /\ call.block \in {"own", "null"}
                /\ Tail(call.todo) \in {<<"read", "view", "copy", "free">>, <<"view", "copy", "free">>}
             \/ /\ call.op = "name" /\ call.block = "none" /\ call.todo = <<"ask", "pop">>
                /\ Tail(call.todo) = <<"pop">>
      BY <1>0, <2>1, Steps, NotOver DEF Step, Doing
    <3>2. call' = Going(Tail(call.todo), call.block, call.view)
      BY <1>0, <2>1, <3>1, Goes
    <3>3. CASE call.op = "load"
      BY <1>0, <1>a, <3>1, <3>2, <3>3, ShapeNext, Holding DEF LoadRest
    <3>4. CASE call.op = "name"
      BY <1>0, <1>a, <3>1, <3>2, <3>4, ShapeNext, Holding
    <3> QED
      BY <3>1, <3>3, <3>4
  <2>5. /\ used' \in Int /\ owned' \in Int /\ used' <= size'
        /\ used' + stack' = owned' + leaked' + Held'
    <3>1. used' = used + m /\ owned' = owned + m /\ leaked' = leaked /\ stack' = stack /\ Held' = Held
      BY <2>1, <2>2, <2>4
    <3>2. m \in Int /\ used + m <= size'
      BY <2>3
    <3> QED
      BY <1>0, <1>a, <3>1, <3>2
  <2>6. /\ mod = "interface" /\ leaked' \in Int /\ stack' \in Int
    BY <1>0, <1>c, <2>1
  <2> QED
    BY <2>1, <2>3, <2>4, <2>5, <2>6, Kept
<1>8. CASE LibzipFails \/ Free
  <2>1. /\ Doing("open") \/ Doing("read") \/ Doing("free")
        /\ call.todo # <<>> /\ call' = NoCall /\ used' = used - FreeBlock
        /\ UNCHANGED loading /\ UNCHANGED <<size, buffer, views, owned, leaked, stack>>
    BY <1>8 DEF LibzipFails, Free, Doing, memory
  <2>2. call.op = "load"
    BY <1>0, <2>1, Steps DEF Step, Doing
  <2>3. Held = FreeBlock /\ CallShape' /\ ViewTaken' /\ Held' = 0
    BY <1>0, <2>1, <2>2, ShapeNext, Holding
  <2>4. used' \in Int /\ used' <= size' /\ used' + stack' = owned' + leaked' + Held'
    <3>1. /\ used \in Int /\ owned \in Int /\ leaked \in Int /\ stack \in Int /\ size \in Nat
          /\ used <= size /\ used + stack = owned + leaked + FreeBlock
      BY <1>0, <2>3
    <3>2. /\ used' = used - FreeBlock /\ Held' = 0
          /\ size' = size /\ owned' = owned /\ leaked' = leaked /\ stack' = stack
      BY <2>1, <2>3
    <3> QED
      BY <1>a, <3>1, <3>2
  <2> QED
    BY <1>0, <1>b, <1>c, <2>1, <2>3, <2>4, Kept
<1>9. CASE Aborts
  <2>1. /\ Doing("ask") /\ call.todo # <<>> /\ call' = NoCall /\ leaked' = leaked + call.n
        /\ UNCHANGED loading /\ UNCHANGED <<size, buffer, views, used, owned, stack>>
    BY <1>9 DEF Aborts, Doing, memory
  <2>2. call.op = "name" /\ call.todo = <<"ask", "pop">>
    BY <1>0, <2>1, Steps DEF Step, Doing
  <2>3. Held = call.n /\ CallShape' /\ ViewTaken' /\ Held' = 0
    BY <1>0, <2>1, <2>2, ShapeNext, Holding
  <2> QED
    BY <1>0, <1>a, <1>b, <1>c, <2>1, <2>3, Kept
<1>10. CASE View
  <2>1. /\ Doing("view") /\ call.todo # <<>> /\ call' = Done([call EXCEPT !.view = views])
        /\ UNCHANGED loading /\ UNCHANGED <<size, buffer, views, used, owned, leaked, stack>>
    BY <1>10 DEF View, Doing, memory
  <2>2. CallShape' /\ ViewTaken' /\ Held' = Held
    <3>1. /\ Tail(call.todo) # <<>>
          /\ \/ call.op = "store" /\ call.block = "own" /\ Tail(call.todo) = <<"set", "give">>
             \/ /\ call.op = "load" /\ call.block \in {"own", "null"}
                /\ Tail(call.todo) = <<"copy", "free">>
      BY <1>0, <2>1, Steps, NotOver DEF Step, Doing
    <3>2. call' = Going(Tail(call.todo), call.block, views)
      BY <1>0, <2>1, <3>1, Goes
    <3>3. views \in Nat /\ views = buffer'
      BY <1>0, <1>b, <1>c, <2>1
    <3>4. CASE call.op = "store"
      BY <1>0, <1>a, <3>1, <3>2, <3>3, <3>4, ShapeNext, Holding DEF StoreRest
    <3>5. CASE call.op = "load"
      BY <1>0, <1>a, <3>1, <3>2, <3>3, <3>5, ShapeNext, Holding DEF LoadRest
    <3> QED
      BY <3>1, <3>4, <3>5
  <2> QED
    BY <1>0, <1>b, <1>c, <2>1, <2>2, Kept
<1>11. CASE SetOrCopy
  <2>1. /\ Doing("set") \/ Doing("copy")
        /\ call.todo # <<>> /\ call' = Done(call)
        /\ UNCHANGED loading /\ UNCHANGED <<size, buffer, views, used, owned, leaked, stack>>
    BY <1>11 DEF SetOrCopy, Doing, memory
  <2>2. CallShape' /\ ViewTaken' /\ Held' = Held
    <3>1. /\ Tail(call.todo) # <<>>
          /\ \/ call.op = "store" /\ call.block = "own" /\ Tail(call.todo) = <<"give">>
             \/ /\ call.op = "load" /\ call.block \in {"own", "null"} /\ Tail(call.todo) = <<"free">>
      BY <1>0, <2>1, Steps, NotOver DEF Step, Doing
    <3>2. call' = Going(Tail(call.todo), call.block, call.view)
      BY <1>0, <2>1, <3>1, Goes
    <3>3. CASE call.op = "store"
      BY <1>0, <1>a, <3>1, <3>2, <3>3, ShapeNext, Holding DEF StoreRest
    <3>4. CASE call.op = "load"
      BY <1>0, <1>a, <3>1, <3>2, <3>4, ShapeNext, Holding DEF LoadRest
    <3> QED
      BY <3>1, <3>3, <3>4
  <2> QED
    BY <1>0, <1>b, <1>c, <2>1, <2>2, Kept
<1>12. CASE Give
  <2>1. /\ Doing("give") /\ call.todo # <<>> /\ call' = NoCall
        /\ UNCHANGED loading /\ UNCHANGED <<size, buffer, views, stack>>
        /\ \/ owned' = owned + call.n /\ used' = used /\ leaked' = leaked
           \/ used' = used - call.n /\ owned' = owned /\ leaked' = leaked
           \/ leaked' = leaked + call.n /\ used' = used /\ owned' = owned
    BY <1>12 DEF Give, Doing, memory
  <2>2. call.op = "store" /\ call.block = "own"
    BY <1>0, <2>1, Steps DEF Step, Doing
  <2>3. Held = call.n /\ CallShape' /\ ViewTaken' /\ Held' = 0
    BY <1>0, <2>1, <2>2, ShapeNext, Holding
  <2>4. /\ size' \in Nat /\ buffer' \in Nat /\ views' = buffer' /\ mod = "interface"
        /\ used' \in Int /\ owned' \in Int /\ leaked' \in Int /\ stack' \in Int
        /\ used' <= size' /\ size' <= MaxHeap
    BY <1>0, <1>a, <1>b, <1>c, <2>1
  <2>5. used' + stack' = owned' + leaked' + Held'
    BY <1>0, <1>a, <2>1, <2>3
  <2> QED
    BY <2>1, <2>3, <2>4, <2>5, Kept
<1>13. CASE Push
  <2>1. /\ Doing("push") /\ call.todo # <<>> /\ call' = Done(call) /\ stack' = stack + call.n
        /\ UNCHANGED loading /\ UNCHANGED <<size, buffer, views, used, owned, leaked>>
    BY <1>13 DEF Push, Doing, memory
  <2>2. Held = 0 /\ CallShape' /\ ViewTaken' /\ Held' = call.n
    <3>1. /\ call.op = "name" /\ call.block = "none" /\ call.todo = Order("name")
          /\ Tail(call.todo) = <<"ask", "pop">> /\ Tail(call.todo) # <<>>
      BY <1>0, <2>1, Steps, NotOver DEF Step, Doing
    <3>2. call' = Going(Tail(call.todo), call.block, call.view)
      BY <1>0, <2>1, <3>1, Goes
    <3> QED
      BY <1>0, <1>a, <3>1, <3>2, ShapeNext, Holding
  <2>3. /\ size' \in Nat /\ buffer' \in Nat /\ views' = buffer' /\ mod = "interface"
        /\ used' \in Int /\ owned' \in Int /\ leaked' \in Int /\ stack' \in Int
        /\ used' <= size' /\ size' <= MaxHeap
    BY <1>0, <1>a, <1>b, <1>c, <2>1
  <2>4. used' + stack' = owned' + leaked' + Held'
    BY <1>0, <1>a, <2>1, <2>2
  <2> QED
    BY <2>1, <2>2, <2>3, <2>4, Kept
<1>14. CASE Pop
  <2>1. /\ Doing("pop") /\ call.todo # <<>> /\ call' = NoCall /\ stack' = stack - call.n
        /\ UNCHANGED loading /\ UNCHANGED <<size, buffer, views, used, owned, leaked>>
    BY <1>14 DEF Pop, Doing, memory
  <2>2. call.op = "name" /\ call.todo = <<"pop">>
    BY <1>0, <2>1, Steps DEF Step, Doing
  <2>3. Held = call.n /\ CallShape' /\ ViewTaken' /\ Held' = 0
    BY <1>0, <2>1, <2>2, ShapeNext, Holding
  <2>4. /\ size' \in Nat /\ buffer' \in Nat /\ views' = buffer' /\ mod = "interface"
        /\ used' \in Int /\ owned' \in Int /\ leaked' \in Int /\ stack' \in Int
        /\ used' <= size' /\ size' <= MaxHeap
    BY <1>0, <1>a, <1>b, <1>c, <2>1
  <2>5. used' + stack' = owned' + leaked' + Held'
    <3>1. /\ used \in Int /\ owned \in Int /\ leaked \in Int /\ stack \in Int /\ call.n \in Nat
          /\ used + stack = owned + leaked + Held
      BY <1>0, <1>a
    <3>2. used' = used /\ owned' = owned /\ leaked' = leaked /\ stack' = stack - call.n
      BY <2>1
    <3>3. Held = call.n /\ Held' = 0
      BY <2>3
    <3> QED
      BY <3>1, <3>2, <3>3
  <2> QED
    BY <2>1, <2>3, <2>4, <2>5, Kept
<1>15. CASE CloseArchive
  <2>1. /\ call = NoCall /\ owned > 1 /\ used' = used - (owned - 1) /\ owned' = 1
        /\ UNCHANGED loading /\ UNCHANGED <<size, buffer, views, leaked, stack, call>>
    BY <1>15 DEF CloseArchive, memory
  <2>2. mod = "interface" /\ views = buffer /\ cached # "absent"
    BY <2>1 DEF WrInv, Loaded
  <2>3. Held = 0 /\ CallShape' /\ ViewTaken' /\ Held' = 0
    BY <1>0, <2>1, ShapeNext, Holding DEF NoCall
  <2> QED
    BY <1>0, <2>1, <2>2, <2>3, Kept
<1> QED
  BY <1>1, <1>2, <1>3, <1>4, <1>5, <1>6, <1>7, <1>8, <1>9, <1>10, <1>11, <1>12, <1>13, <1>14, <1>15
     DEF WrNext

\* So it always holds.
LEMMA WrAlways == WrSpec => []WrInv
  BY WrInitInv, WrStepInv, PTL DEF WrSpec

-----------------------------------------------------------------------------
\* ZipFS moves bytes only through a view of the memory as it is, whatever
\* libzip let it grow to in between, and what was given out lies inside: for
\* any page, any heap sizes and any number of calls.
THEOREM ViewsFreshAlways == WrSpec => []ViewsFresh
<1>1. ASSUME WrInv PROVE ViewsFresh
  <2>1. CallShape
    BY <1>1 DEF WrInv
  <2>2. ASSUME Doing("set") \/ Doing("copy") PROVE call.view = buffer
    <3>1. call.todo \in {<<"set", "give">>, <<"copy", "free">>}
      BY <2>1, <2>2, Steps DEF Step, Doing
    <3> QED
      BY <1>1, <3>1 DEF WrInv, ViewTaken
  <2> QED
    BY <1>1, <2>2 DEF WrInv, Loaded, MemoryFits, ViewsFresh
<1> QED
  BY <1>1, WrAlways, PTL

\* Between two calls the memory in use is libzip's, but for what the two known
\* paths have lost: no other order of failures loses a block.
THEOREM BlocksAccountedAlways == WrSpec => []BlocksAccounted
<1>1. ASSUME WrInv PROVE BlocksAccounted
  <2>1. call = NoCall => Held = 0
    BY <1>1, Holding DEF WrInv, NoCall
  <2> QED
    BY <1>1, <2>1 DEF WrInv, HeapNumbers, Accounted, BlocksAccounted
<1> QED
  BY <1>1, WrAlways, PTL

-----------------------------------------------------------------------------
(* WasmIo.                                                                  *)

StreamRecord ==
    [nfd : Nat, position : Nat, path : Paths \cup {NoPath}, append : BOOLEAN, host : BOOLEAN]
HostRecord == [inode : 0..MaxOpens, whose : {"libzip", "node"}]

WiTypes ==
    /\ \A fd \in DOMAIN streams : streams[fd] \in StreamRecord
    /\ \A n \in DOMAIN hostFds : hostFds[n] \in HostRecord
    /\ IsFiniteSet(DOMAIN hostFds)
    /\ names \in [Paths -> 0..MaxOpens] /\ opens \in Nat
    /\ sizes \in [Inodes -> Nat] /\ appended \in [Inodes -> Nat]

\* What libzip opened to append is appended to by the host too, unless the
\* flag came later; nobody closes a stream between the two steps of an append.
HostAppendsToo ==
    /\ \A fd \in DOMAIN streams : streams[fd].append => streams[fd].host \/ fd \in late
    /\ \A fd \in writing : fd \in DOMAIN streams /\ streams[fd].append

Numbered == {streams[fd].nfd : fd \in DOMAIN streams}
OwnedByLibzip == {n \in DOMAIN hostFds : hostFds[n].whose = "libzip"}

\* OwnDescriptors with what it needs to be kept: a descriptor that was lost
\* is not that of a stream.
DescriptorsOwned ==
    failed = "no" =>
        /\ \A fd, gd \in DOMAIN streams : streams[fd].nfd = streams[gd].nfd => fd = gd
        /\ OwnedByLibzip = Numbered \cup lost
        /\ Numbered \cap lost = {}

WiInv == WiTypes /\ HostAppendsToo /\ AppendsKept /\ DescriptorsOwned

-----------------------------------------------------------------------------
\* The least number of a set is in it.
LEMMA LeastIsOne ==
    ASSUME NEW S, S \subseteq Nat, S # {}
    PROVE  Min(S) \in S /\ \A y \in S : Min(S) <= y
<1> DEFINE less == {ss \in Nat \X Nat : ss[1] < ss[2]}
<1>1. IsWellFoundedOn(less, Nat)
  BY NatLessThanWellFounded, Zenon DEF OpToRel
<1>2. PICK x \in S : \A y \in S : ~(<<y, x>> \in less)
  BY <1>1, WFMin
<1>3. ASSUME NEW y \in S PROVE x <= y
  <2>1. x \in Nat /\ y \in Nat /\ <<y, x>> \notin less
    BY <1>2
  <2>2. <<y, x>>[1] = y /\ <<y, x>>[2] = x
    OBVIOUS
  <2> QED
    BY <2>1, <2>2
<1> QED
  BY <1>3 DEF Min

\* Of a finite set one of the first numbers is missing, which the least of
\* them is: what the host gives out is a number that nobody has.
LEMMA FirstFree ==
    ASSUME NEW S, IsFiniteSet(S)
    PROVE  Min({n \in 0..Cardinality(S) : n \notin S}) \in Nat \ S
<1> DEFINE c == Cardinality(S)
           free == {n \in 0..c : n \notin S}
<1>1. c \in Nat
  BY FS_CardinalityType
<1>2. IsFiniteSet(0..c) /\ Cardinality(0..c) = c + 1
  BY <1>1, FS_Interval
<1>3. free # {}
  <2> SUFFICES ASSUME 0..c \subseteq S PROVE FALSE
    OBVIOUS
  <2>1. Cardinality(0..c) <= c
    BY FS_Subset
  <2> QED
    BY <1>1, <1>2, <2>1
<1>4. free \subseteq Nat
  BY <1>1
<1>5. Min(free) \in free
  BY <1>3, <1>4, LeastIsOne
<1> QED
  BY <1>4, <1>5

\* A descriptor that is opened is a new one.
LEMMA HostFdIsNew ==
    ASSUME IsFiniteSet(DOMAIN hostFds)
    PROVE  HostFd \in Nat \ DOMAIN hostFds
  BY FirstFree DEF HostFd, FreeFds

\* The invariant of the streams holds initially.
LEMMA WiInitInv == WiInit => WiInv
<1> SUFFICES ASSUME WiInit PROVE WiInv
  OBVIOUS
<1>1. DOMAIN hostFds = Standard /\ DOMAIN streams = Standard
  BY DEF WiInit
<1>2. \A fd \in Standard : streams[fd] = [nfd |-> fd, position |-> 0, path |-> NoPath,
                                          append |-> FALSE, host |-> FALSE]
  BY DEF WiInit, Stream
<1>3. \A n \in Standard : hostFds[n] = [inode |-> 0, whose |-> "libzip"]
  BY DEF WiInit
<1>4. WiTypes
  <2>1. \A fd \in DOMAIN streams : streams[fd] \in StreamRecord
    <3>1. \A fd \in Standard : fd \in Nat
      BY IoAssumption
    <3>2. \A fd \in Nat : [nfd |-> fd, position |-> 0, path |-> NoPath,
                          append |-> FALSE, host |-> FALSE] \in StreamRecord
      BY DEF StreamRecord
    <3> QED
      BY <1>1, <1>2, <3>1, <3>2
  <2>2. \A n \in DOMAIN hostFds : hostFds[n] \in HostRecord
    <3>1. 0 \in 0..MaxOpens
      BY IoAssumption
    <3>2. [inode |-> 0, whose |-> "libzip"] \in HostRecord
      BY <3>1 DEF HostRecord
    <3> QED
      BY <1>1, <1>3, <3>2
  <2>3. names \in [Paths -> 0..MaxOpens] /\ opens \in Nat
    BY IoAssumption DEF WiInit
  <2>4. sizes \in [Inodes -> Nat] /\ appended \in [Inodes -> Nat]
    BY DEF WiInit
  <2> QED
    BY <1>1, <2>1, <2>2, <2>3, <2>4, IoAssumption DEF WiTypes
<1>5. HostAppendsToo
  <2>1. \A fd \in DOMAIN streams : ~streams[fd].append
    BY <1>1, <1>2
  <2>2. writing = {}
    BY DEF WiInit
  <2> QED
    BY <2>1, <2>2 DEF HostAppendsToo
<1>6. AppendsKept
  BY DEF WiInit, AppendsKept
<1>7. DescriptorsOwned
  <2>1. ASSUME NEW fd \in Standard PROVE streams[fd].nfd = fd
    BY DEF WiInit, Stream
  <2>2. \A n \in Standard : hostFds[n].whose = "libzip"
    BY <1>3
  <2>3. Numbered = Standard
    BY <1>1, <2>1 DEF Numbered
  <2>4. OwnedByLibzip = Standard
    BY <1>1, <2>2 DEF OwnedByLibzip
  <2>5. lost = {}
    BY DEF WiInit
  <2> QED
    BY <1>1, <2>1, <2>3, <2>4, <2>5 DEF DescriptorsOwned
<1> QED
  BY <1>4, <1>5, <1>6, <1>7 DEF WiInv

\* What opening a file in the host does, whoever asks: one new descriptor, and
\* a file whose bytes are counted from none if it is truncated or new.
LEMMA OpensInHost ==
    ASSUME WiTypes, NEW path \in Paths \cup {NoPath}, NEW flags,
           NEW whose \in {"libzip", "node"}, HostOpen(path, flags, whose)
    PROVE  /\ path \in Paths
           /\ HostFd \in Nat \ DOMAIN hostFds
           /\ DOMAIN hostFds' = DOMAIN hostFds \cup {HostFd}
           /\ hostFds'[HostFd] \in HostRecord /\ hostFds'[HostFd].whose = whose
           /\ \A n \in DOMAIN hostFds : hostFds'[n] = hostFds[n]
           /\ IsFiniteSet(DOMAIN hostFds')
           /\ names' \in [Paths -> 0..MaxOpens] /\ opens' \in Nat
           /\ sizes' \in [Inodes -> Nat] /\ appended' \in [Inodes -> Nat]
           /\ \A i \in Inodes : sizes[i] = appended[i] => sizes'[i] = appended'[i]
<1> DEFINE inode == IF names[path] = 0 THEN opens + 1 ELSE names[path]
<1>1. path \in Paths
  BY DEF HostOpen
<1>2. HostFd \in Nat \ DOMAIN hostFds
  BY HostFdIsNew DEF WiTypes
<1>3. inode \in 1..MaxOpens
  <2>1. names[path] \in 0..MaxOpens
    BY <1>1 DEF WiTypes
  <2>2. opens \in Nat /\ opens < MaxOpens /\ MaxOpens \in Nat
    BY IoAssumption DEF WiTypes, HostOpen
  <2> QED
    BY <2>1, <2>2
<1>4. /\ hostFds' = With(hostFds, HostFd, [inode |-> inode, whose |-> whose])
      /\ names' = [names EXCEPT ![path] = inode] /\ opens' = opens + 1
      /\ \/ sizes' = [sizes EXCEPT ![inode] = 0] /\ appended' = [appended EXCEPT ![inode] = 0]
         \/ sizes' = sizes /\ appended' = appended
  BY <1>1 DEF HostOpen
<1> HIDE DEF inode
<1>5. /\ DOMAIN hostFds' = DOMAIN hostFds \cup {HostFd}
      /\ hostFds'[HostFd] = [inode |-> inode, whose |-> whose]
      /\ \A n \in DOMAIN hostFds : hostFds'[n] = hostFds[n]
  BY <1>2, <1>4 DEF With
<1>6. hostFds'[HostFd] \in HostRecord /\ hostFds'[HostFd].whose = whose
  BY <1>3, <1>5, IoAssumption DEF HostRecord
<1>7. IsFiniteSet(DOMAIN hostFds')
  BY <1>5, FS_AddElement DEF WiTypes
<1>8. names' \in [Paths -> 0..MaxOpens] /\ opens' \in Nat
  <2>1. inode \in 0..MaxOpens
    BY <1>3, IoAssumption
  <2> QED
    BY <1>1, <1>4, <2>1 DEF WiTypes
<1>9. sizes' \in [Inodes -> Nat] /\ appended' \in [Inodes -> Nat]
  BY <1>4 DEF WiTypes
<1>10. \A i \in Inodes : sizes[i] = appended[i] => sizes'[i] = appended'[i]
  BY <1>4 DEF WiTypes
<1> QED
  BY <1>1, <1>2, <1>5, <1>6, <1>7, <1>8, <1>9, <1>10

\* A stream with a new descriptor, under a number that is free or is another's,
\* whose descriptor is then lost: Open and Dupfd.
LEMMA StreamPut ==
    ASSUME WiInv, NEW path \in Paths \cup {NoPath}, NEW flags,
           HostOpen(path, flags, "libzip"), writing = {},
           NEW s \in StreamRecord, s.nfd = HostFd, s.append => s.host,
           NEW n, streams' = With(streams, n, s),
           lost' = lost \cup (IF n \in DOMAIN streams THEN {streams[n].nfd} ELSE {}),
           UNCHANGED <<writing, late, failed, rewritten>>
    PROVE  WiInv'
<1>1. WiTypes /\ HostAppendsToo /\ AppendsKept /\ DescriptorsOwned
  BY DEF WiInv
<1>2. /\ DOMAIN streams' = DOMAIN streams \cup {n} /\ streams'[n] = s
      /\ \A fd \in DOMAIN streams \ {n} : streams'[fd] = streams[fd]
  BY DEF With
<1>3. /\ HostFd \in Nat \ DOMAIN hostFds
      /\ DOMAIN hostFds' = DOMAIN hostFds \cup {HostFd}
      /\ hostFds'[HostFd] \in HostRecord /\ hostFds'[HostFd].whose = "libzip"
      /\ \A m \in DOMAIN hostFds : hostFds'[m] = hostFds[m]
      /\ IsFiniteSet(DOMAIN hostFds')
      /\ names' \in [Paths -> 0..MaxOpens] /\ opens' \in Nat
      /\ sizes' \in [Inodes -> Nat] /\ appended' \in [Inodes -> Nat]
      /\ \A i \in Inodes : sizes[i] = appended[i] => sizes'[i] = appended'[i]
  BY <1>1, OpensInHost
<1> DEFINE h == HostFd
<1> HIDE DEF h
<1>4. WiTypes'
  <2>1. \A fd \in DOMAIN streams' : streams'[fd] \in StreamRecord
    BY <1>1, <1>2 DEF WiTypes
  <2>2. \A m \in DOMAIN hostFds' : hostFds'[m] \in HostRecord
    BY <1>1, <1>3 DEF WiTypes
  <2> QED
    BY <1>3, <2>1, <2>2 DEF WiTypes, StreamRecord, HostRecord, Inodes
<1>5. HostAppendsToo'
  BY <1>1, <1>2 DEF HostAppendsToo
<1>6. AppendsKept'
  BY <1>1, <1>3 DEF AppendsKept, Inodes
<1>7. DescriptorsOwned'
  <2> SUFFICES ASSUME failed = "no" PROVE DescriptorsOwned'
    BY DEF DescriptorsOwned
  <2>1. /\ \A fd, gd \in DOMAIN streams : streams[fd].nfd = streams[gd].nfd => fd = gd
        /\ OwnedByLibzip = Numbered \cup lost
        /\ Numbered \cap lost = {}
    BY <1>1 DEF DescriptorsOwned
  <2>2. OwnedByLibzip' = OwnedByLibzip \cup {h}
    BY <1>3 DEF OwnedByLibzip, h
  <2>3. h \notin OwnedByLibzip
    BY <1>3 DEF OwnedByLibzip, h
  <2>4. \A fd \in DOMAIN streams : streams[fd].nfd # h
    BY <2>1, <2>3 DEF Numbered
  <2>5. \A fd, gd \in DOMAIN streams' : streams'[fd].nfd = streams'[gd].nfd => fd = gd
    BY <1>2, <2>1, <2>4 DEF h
  <2>6. CASE n \in DOMAIN streams
    <3>1. Numbered' = (Numbered \ {streams[n].nfd}) \cup {h}
      BY <1>2, <2>1, <2>6 DEF Numbered, h
    <3>2. lost' = lost \cup {streams[n].nfd} /\ streams[n].nfd \in Numbered /\ streams[n].nfd # h
      BY <2>4, <2>6 DEF Numbered
    <3> QED
      BY <2>1, <2>2, <2>3, <2>5, <3>1, <3>2 DEF DescriptorsOwned
  <2>7. CASE n \notin DOMAIN streams
    <3>1. Numbered' = Numbered \cup {h}
      BY <1>2, <2>7 DEF Numbered, h
    <3>2. lost' = lost
      BY <2>7
    <3> QED
      BY <2>1, <2>2, <2>3, <2>5, <3>1, <3>2 DEF DescriptorsOwned
  <2> QED
    BY <2>6, <2>7
<1> QED
  BY <1>4, <1>5, <1>6, <1>7 DEF WiInv

\* Opening a stream keeps it.
LEMMA OpenKeeps ==
    ASSUME WiInv, NEW path \in Paths, NEW flags, Open(path, flags)
    PROVE  WiInv'
<1>1. WiTypes /\ HostAppendsToo /\ AppendsKept /\ DescriptorsOwned
  BY DEF WiInv
<1>2. HostOpen(path, flags, "libzip") /\ writing = {}
  BY DEF Open
<1>3. /\ HostFd \in Nat \ DOMAIN hostFds
      /\ DOMAIN hostFds' = DOMAIN hostFds \cup {HostFd}
      /\ hostFds'[HostFd] \in HostRecord /\ hostFds'[HostFd].whose = "libzip"
      /\ \A m \in DOMAIN hostFds : hostFds'[m] = hostFds[m]
      /\ IsFiniteSet(DOMAIN hostFds')
      /\ names' \in [Paths -> 0..MaxOpens] /\ opens' \in Nat
      /\ sizes' \in [Inodes -> Nat] /\ appended' \in [Inodes -> Nat]
      /\ \A i \in Inodes : sizes[i] = appended[i] => sizes'[i] = appended'[i]
  BY <1>1, <1>2, OpensInHost
<1>4. CASE nextfd(HostFd) = {}
  <2>1. lost' = lost \cup {HostFd} /\ UNCHANGED <<streams, writing, late, failed, rewritten>>
    BY <1>4 DEF Open
  <2> DEFINE h == HostFd
  <2> HIDE DEF h
  <2>2. WiTypes'
    <3>1. \A m \in DOMAIN hostFds' : hostFds'[m] \in HostRecord
      BY <1>1, <1>3 DEF WiTypes
    <3> QED
      BY <1>1, <1>3, <2>1, <3>1 DEF WiTypes, StreamRecord, HostRecord, Inodes
  <2>3. HostAppendsToo' /\ AppendsKept'
    BY <1>1, <1>3, <2>1 DEF HostAppendsToo, AppendsKept, Inodes
  <2>4. OwnedByLibzip' = OwnedByLibzip \cup {h} /\ h \notin OwnedByLibzip
    BY <1>3 DEF OwnedByLibzip, h
  <2>5. Numbered' = Numbered /\ lost' = lost \cup {h}
    BY <2>1 DEF Numbered, h
  <2>6. DescriptorsOwned'
    BY <1>1, <2>1, <2>4, <2>5 DEF DescriptorsOwned
  <2> QED
    BY <2>2, <2>3, <2>6 DEF WiInv
<1>5. CASE nextfd(HostFd) # {}
  <2> DEFINE s == HostAppends(Stream(HostFd, path, "append" \in flags))
             n == Min(nextfd(HostFd))
  <2>1. nextfd(HostFd) \subseteq Nat /\ nextfd(HostFd) \cap DOMAIN streams = {}
    BY <1>3, IoAssumption DEF nextfd, FreeFds
  <2>2. n \notin DOMAIN streams
    BY <1>5, <2>1, LeastIsOne
  <2>3. s \in StreamRecord /\ s.nfd = HostFd /\ (s.append => s.host)
    BY <1>3 DEF HostAppends, Stream, StreamRecord
  <2>4. streams' = With(streams, n, s) /\ lost' = lost /\ UNCHANGED <<writing, late, failed, rewritten>>
    BY <1>5 DEF Open
  <2> HIDE DEF s, n
  <2>5. lost' = lost \cup (IF n \in DOMAIN streams THEN {streams[n].nfd} ELSE {})
    BY <2>2, <2>4
  <2> QED
    BY <1>2, <2>3, <2>4, <2>5, StreamPut
<1> QED
  BY <1>4, <1>5

\* So does duplicating one.
LEMMA DupfdKeeps ==
    ASSUME WiInv, NEW fd \in DOMAIN streams, NEW n \in 0..MaxFd, Dupfd(fd, n)
    PROVE  WiInv'
<1> DEFINE s == streams[fd]
           new == [Stream(HostFd, s.path, s.append) EXCEPT !.host = s.append]
<1>1. s \in StreamRecord
  BY DEF WiInv, WiTypes
<1>2. s.path \in Paths \cup {NoPath} /\ s.append \in BOOLEAN
  BY <1>1 DEF StreamRecord
<1>3. HostFd \in Nat
  BY HostFdIsNew DEF WiInv, WiTypes
<1>4. new \in StreamRecord /\ new.nfd = HostFd /\ (new.append => new.host)
  BY <1>2, <1>3 DEF Stream, StreamRecord
<1>5. /\ HostOpen(s.path, {}, "libzip") /\ writing = {}
      /\ streams' = With(streams, n, new)
      /\ lost' = lost \cup (IF n \in DOMAIN streams THEN {streams[n].nfd} ELSE {})
      /\ UNCHANGED <<writing, late, failed, rewritten>>
  BY DEF Dupfd, Ready
<1> HIDE DEF s, new
<1> QED
  BY <1>2, <1>4, <1>5, StreamPut

\* A close takes the descriptor of one stream and of no other.
LEMMA CloseKeeps ==
    ASSUME WiInv, NEW fd \in DOMAIN streams, Close(fd)
    PROVE  WiInv'
<1>1. WiTypes /\ HostAppendsToo /\ AppendsKept /\ DescriptorsOwned
  BY DEF WiInv
<1> DEFINE n == streams[fd].nfd
<1>2. /\ writing = {} /\ n \in DOMAIN hostFds
      /\ DOMAIN hostFds' = DOMAIN hostFds \ {n}
      /\ \A m \in DOMAIN hostFds' : hostFds'[m] = hostFds[m]
      /\ UNCHANGED <<names, sizes, appended, rewritten, writing, opens, lost, late>>
  BY DEF Close, Ready, Sans, Restrict, disk
<1>3. CASE streams' = Sans(streams, fd) /\ failed' = failed
  <2>1. /\ DOMAIN streams' = DOMAIN streams \ {fd}
        /\ \A gd \in DOMAIN streams' : streams'[gd] = streams[gd]
    BY <1>3 DEF Sans, Restrict
  <2>2. WiTypes'
    <3>1. \A gd \in DOMAIN streams' : streams'[gd] \in StreamRecord
      BY <1>1, <2>1 DEF WiTypes
    <3>2. \A m \in DOMAIN hostFds' : hostFds'[m] \in HostRecord
      BY <1>1, <1>2 DEF WiTypes
    <3>3. IsFiniteSet(DOMAIN hostFds')
      BY <1>1, <1>2, FS_RemoveElement DEF WiTypes
    <3> QED
      BY <1>1, <1>2, <3>1, <3>2, <3>3 DEF WiTypes, StreamRecord, HostRecord, Inodes
  <2>3. HostAppendsToo' /\ AppendsKept'
    BY <1>1, <1>2, <2>1 DEF HostAppendsToo, AppendsKept, Inodes
  <2>4. DescriptorsOwned'
    <3> SUFFICES ASSUME failed = "no" PROVE DescriptorsOwned'
      BY <1>3 DEF DescriptorsOwned
    <3>1. /\ \A gd, hd \in DOMAIN streams : streams[gd].nfd = streams[hd].nfd => gd = hd
          /\ OwnedByLibzip = Numbered \cup lost
          /\ Numbered \cap lost = {}
      BY <1>1 DEF DescriptorsOwned
    <3>2. OwnedByLibzip' = OwnedByLibzip \ {n}
      BY <1>2 DEF OwnedByLibzip
    <3>3. Numbered' = Numbered \ {n} /\ n \in Numbered
      BY <2>1, <3>1 DEF Numbered
    <3>4. \A gd, hd \in DOMAIN streams' : streams'[gd].nfd = streams'[hd].nfd => gd = hd
      BY <2>1, <3>1
    <3> QED
      BY <1>2, <3>1, <3>2, <3>3, <3>4 DEF DescriptorsOwned
  <2> QED
    BY <2>2, <2>3, <2>4 DEF WiInv
<1>4. CASE failed' = "yes" /\ streams' = streams
  <2>1. WiTypes'
    <3>1. \A m \in DOMAIN hostFds' : hostFds'[m] \in HostRecord
      BY <1>1, <1>2 DEF WiTypes
    <3>2. IsFiniteSet(DOMAIN hostFds')
      BY <1>1, <1>2, FS_RemoveElement DEF WiTypes
    <3> QED
      BY <1>1, <1>2, <1>4, <3>1, <3>2 DEF WiTypes, StreamRecord, HostRecord, Inodes
  <2>2. HostAppendsToo' /\ AppendsKept'
    BY <1>1, <1>2, <1>4 DEF HostAppendsToo, AppendsKept, Inodes
  <2>3. DescriptorsOwned'
    BY <1>4 DEF DescriptorsOwned
  <2> QED
    BY <2>1, <2>2, <2>3 DEF WiInv
<1> QED
  BY <1>3, <1>4 DEF Close

\* Others open and close descriptors of their own.
LEMMA NodeKeeps ==
    ASSUME WiInv,
           \/ \E p \in Paths : NodeOpens(p)
           \/ \E n \in DOMAIN hostFds : NodeCloses(n)
    PROVE  WiInv'
<1>1. WiTypes /\ HostAppendsToo /\ AppendsKept /\ DescriptorsOwned
  BY DEF WiInv
<1>2. UNCHANGED <<streams, writing, lost, late, failed, rewritten>>
  BY DEF NodeOpens, NodeCloses, disk
<1>3. /\ \A m \in DOMAIN hostFds' : hostFds'[m] \in HostRecord
      /\ IsFiniteSet(DOMAIN hostFds')
      /\ names' \in [Paths -> 0..MaxOpens] /\ opens' \in Nat
      /\ sizes' \in [Inodes -> Nat] /\ appended' \in [Inodes -> Nat]
      /\ \A i \in Inodes : sizes[i] = appended[i] => sizes'[i] = appended'[i]
      /\ OwnedByLibzip' = OwnedByLibzip
  <2>1. CASE \E p \in Paths : NodeOpens(p)
    <3>1. PICK p \in Paths : HostOpen(p, {}, "node")
      BY <2>1 DEF NodeOpens
    <3>2. /\ HostFd \in Nat \ DOMAIN hostFds
          /\ DOMAIN hostFds' = DOMAIN hostFds \cup {HostFd}
          /\ hostFds'[HostFd] \in HostRecord /\ hostFds'[HostFd].whose = "node"
          /\ \A m \in DOMAIN hostFds : hostFds'[m] = hostFds[m]
          /\ IsFiniteSet(DOMAIN hostFds')
          /\ names' \in [Paths -> 0..MaxOpens] /\ opens' \in Nat
          /\ sizes' \in [Inodes -> Nat] /\ appended' \in [Inodes -> Nat]
          /\ \A i \in Inodes : sizes[i] = appended[i] => sizes'[i] = appended'[i]
      BY <1>1, <3>1, OpensInHost
    <3>3. \A m \in DOMAIN hostFds' : hostFds'[m] \in HostRecord
      BY <1>1, <3>2 DEF WiTypes
    <3>4. OwnedByLibzip' = OwnedByLibzip
      BY <3>2 DEF OwnedByLibzip
    <3> QED
      BY <3>2, <3>3, <3>4
  <2>2. CASE \E n \in DOMAIN hostFds : NodeCloses(n)
    <3>1. PICK n \in DOMAIN hostFds : NodeCloses(n)
      BY <2>2
    <3>2. /\ hostFds[n].whose = "node" /\ DOMAIN hostFds' = DOMAIN hostFds \ {n}
          /\ \A m \in DOMAIN hostFds' : hostFds'[m] = hostFds[m]
          /\ UNCHANGED <<names, sizes, appended, opens>>
      BY <3>1 DEF NodeCloses, Sans, Restrict, disk
    <3>3. \A m \in DOMAIN hostFds' : hostFds'[m] \in HostRecord
      BY <1>1, <3>2 DEF WiTypes
    <3>4. IsFiniteSet(DOMAIN hostFds')
      BY <1>1, <3>2, FS_RemoveElement DEF WiTypes
    <3>5. OwnedByLibzip' = OwnedByLibzip
      BY <3>2 DEF OwnedByLibzip
    <3> QED
      BY <1>1, <3>2, <3>3, <3>4, <3>5 DEF WiTypes
  <2> QED
    BY <2>1, <2>2
<1>4. WiTypes'
  BY <1>1, <1>2, <1>3 DEF WiTypes, StreamRecord, HostRecord, Inodes
<1>5. HostAppendsToo' /\ AppendsKept'
  BY <1>1, <1>2, <1>3 DEF HostAppendsToo, AppendsKept, Inodes
<1>6. DescriptorsOwned'
  <2>1. Numbered' = Numbered
    BY <1>2 DEF Numbered
  <2> QED
    BY <1>1, <1>2, <1>3, <2>1 DEF DescriptorsOwned
<1> QED
  BY <1>4, <1>5, <1>6 DEF WiInv

\* What leaves the descriptors alone and gives streams another position or
\* flag, and files other names and sizes, has only bytes to keep.
LEMMA DescriptorsStay ==
    ASSUME WiInv, DOMAIN streams' = DOMAIN streams,
           \A fd \in DOMAIN streams : streams'[fd].nfd = streams[fd].nfd,
           UNCHANGED <<hostFds, lost, failed>>
    PROVE  DescriptorsOwned'
<1>1. Numbered' = Numbered /\ OwnedByLibzip' = OwnedByLibzip
  BY DEF Numbered, OwnedByLibzip
<1> QED
  BY <1>1 DEF WiInv, DescriptorsOwned

\* A stream that was read, written or positioned.
LEMMA Positioned ==
    ASSUME WiInv, NEW fd \in DOMAIN streams, NEW x \in Nat,
           streams' = [streams EXCEPT ![fd].position = x]
    PROVE  /\ DOMAIN streams' = DOMAIN streams
           /\ \A gd \in DOMAIN streams :
                 /\ streams'[gd] \in StreamRecord
                 /\ streams'[gd].nfd = streams[gd].nfd /\ streams'[gd].host = streams[gd].host
                 /\ streams'[gd].append = streams[gd].append
<1>1. \A gd \in DOMAIN streams : streams[gd] \in StreamRecord
  BY DEF WiInv, WiTypes
<1>2. DOMAIN streams' = DOMAIN streams /\ streams'[fd] = [streams[fd] EXCEPT !.position = x]
  OBVIOUS
<1>3. \A gd \in DOMAIN streams \ {fd} : streams'[gd] = streams[gd]
  OBVIOUS
<1>4. /\ streams'[fd] \in StreamRecord
      /\ streams'[fd].nfd = streams[fd].nfd /\ streams'[fd].host = streams[fd].host
      /\ streams'[fd].append = streams[fd].append
  BY <1>1, <1>2 DEF StreamRecord
<1> QED
  BY <1>1, <1>2, <1>3, <1>4

\* The files of open streams are among those that were opened.
LEMMA InodesOpened ==
    ASSUME WiInv, NEW fd \in DOMAIN streams
    PROVE  /\ Inode(fd) \in 0..MaxOpens
           /\ Inode(fd) # 0 => Inode(fd) \in Inodes /\ Size(fd) \in Nat
<1>1. Inode(fd) \in 0..MaxOpens
  <2>1. \A n \in DOMAIN hostFds : hostFds[n].inode \in 0..MaxOpens
    BY DEF WiInv, WiTypes, HostRecord
  <2>2. 0 \in 0..MaxOpens
    BY IoAssumption
  <2> QED
    BY <2>1, <2>2 DEF Inode
<1>2. Inode(fd) # 0 => Inode(fd) \in Inodes
  BY <1>1, IoAssumption DEF Inodes
<1> QED
  BY <1>1, <1>2 DEF Size, WiInv, WiTypes

\* The step of a stream whose position changed is kept if its bytes are.
LEMMA MovedKeeps ==
    ASSUME WiInv, NEW fd \in DOMAIN streams, NEW x \in Nat,
           streams' = [streams EXCEPT ![fd].position = x],
           UNCHANGED <<hostFds, names, opens, lost, late, failed>>,
           \A gd \in writing' : gd \in writing \/ (gd = fd /\ streams[fd].append),
           sizes' \in [Inodes -> Nat], appended' \in [Inodes -> Nat],
           \A i \in Inodes \ rewritten' :
               i \notin rewritten /\ (sizes[i] = appended[i] => sizes'[i] = appended'[i])
    PROVE  WiInv'
<1>1. WiTypes /\ HostAppendsToo /\ AppendsKept /\ DescriptorsOwned
  BY DEF WiInv
<1>2. /\ DOMAIN streams' = DOMAIN streams
      /\ \A gd \in DOMAIN streams :
            /\ streams'[gd] \in StreamRecord
            /\ streams'[gd].nfd = streams[gd].nfd /\ streams'[gd].host = streams[gd].host
            /\ streams'[gd].append = streams[gd].append
  BY Positioned
<1>3. WiTypes'
  BY <1>1, <1>2 DEF WiTypes, StreamRecord, HostRecord, Inodes
<1>4. HostAppendsToo'
  BY <1>1, <1>2 DEF HostAppendsToo
<1>5. AppendsKept'
  BY <1>1 DEF AppendsKept, Inodes
<1>6. DescriptorsOwned'
  BY <1>2, DescriptorsStay
<1> QED
  BY <1>3, <1>4, <1>5, <1>6 DEF WiInv

\* The greater of two numbers.
LEMMA GreaterOf ==
    ASSUME NEW x \in Nat, NEW y \in Nat
    PROVE  Max({x, y}) \in Nat /\ Max({x, x + 1}) = x + 1
<1>1. \E z \in {x, y} : \A w \in {x, y} : z >= w
  OBVIOUS
<1>2. Max({x, y}) \in {x, y}
  BY <1>1 DEF Max
<1>3. \E z \in {x, x + 1} : \A w \in {x, x + 1} : z >= w
  OBVIOUS
<1>4. Max({x, x + 1}) \in {x, x + 1} /\ \A w \in {x, x + 1} : Max({x, x + 1}) >= w
  BY <1>3 DEF Max
<1> QED
  BY <1>2, <1>4

\* An append goes behind what is there, also when somebody else appends
\* between its two steps, since the host does it: or the file is counted as
\* written to otherwise.
LEMMA AppendKeeps ==
    ASSUME WiInv, NEW fd \in DOMAIN streams, AppendBytes(fd)
    PROVE  WiInv'
<1>1. WiTypes /\ HostAppendsToo /\ AppendsKept
  BY DEF WiInv
<1> DEFINE s == streams[fd]
           i == Inode(fd)
           at == IF s.host THEN sizes[i] ELSE s.position
<1>2. s \in StreamRecord /\ s.position \in Nat
  BY <1>1 DEF WiTypes, StreamRecord
<1>3. s.host \/ fd \in late
  BY <1>1 DEF HostAppendsToo, AppendBytes
<1>4. /\ sizes' = [sizes EXCEPT ![i] = Max({sizes[i], at + 1})]
      /\ appended' = [appended EXCEPT ![i] = appended[i] + 1]
      /\ rewritten' = IF fd \in late THEN rewritten \cup {i} ELSE rewritten
      /\ streams' = [streams EXCEPT ![fd].position = s.position + 1]
      /\ writing' = {} /\ UNCHANGED <<hostFds, names, opens, lost, late, failed>>
  BY DEF AppendBytes
<1> HIDE DEF s, i, at
<1>5. \A j \in Inodes : sizes[j] \in Nat /\ appended[j] \in Nat
  BY <1>1 DEF WiTypes
<1>6. sizes' \in [Inodes -> Nat]
  <2>1. ASSUME i \in Inodes PROVE Max({sizes[i], at + 1}) \in Nat
    <3>1. sizes[i] \in Nat
      BY <1>5, <2>1
    <3>2. at \in Nat
      BY <1>2, <3>1 DEF at
    <3>3. at + 1 \in Nat
      BY <3>2
    <3> QED
      BY <3>1, <3>3, GreaterOf
  <2> QED
    BY <1>1, <1>4, <2>1 DEF WiTypes
<1>7. appended' \in [Inodes -> Nat]
  <2>1. i \in Inodes => appended[i] + 1 \in Nat
    BY <1>5
  <2> QED
    BY <1>1, <1>4, <2>1 DEF WiTypes
<1>8. ASSUME NEW j \in Inodes \ rewritten', sizes[j] = appended[j]
      PROVE  j \notin rewritten /\ sizes'[j] = appended'[j]
  <2>1. j \notin rewritten
    BY <1>4
  <2>2. CASE j = i
    <3>1. s.host
      BY <1>3, <1>4, <2>2
    <3>2. sizes'[j] = Max({sizes[j], sizes[j] + 1})
      BY <1>1, <1>4, <2>2, <3>1 DEF WiTypes, at
    <3>3. sizes'[j] = sizes[j] + 1
      BY <1>5, <3>2, GreaterOf
    <3>4. appended'[j] = appended[j] + 1
      BY <1>1, <1>4, <2>2 DEF WiTypes
    <3> QED
      BY <1>8, <2>1, <3>3, <3>4
  <2>3. CASE j # i
    BY <1>1, <1>4, <1>8, <2>1, <2>3 DEF WiTypes
  <2> QED
    BY <2>2, <2>3
<1>9. \A j \in Inodes \ rewritten' : j \notin rewritten
  BY <1>4
<1> DEFINE x == s.position + 1
<1>10. x \in Nat
  BY <1>2
<1>11. streams' = [streams EXCEPT ![fd].position = x]
  BY <1>4
<1> HIDE DEF x
<1>12. \A gd \in writing' : gd \in writing \/ (gd = fd /\ streams[fd].append)
  BY <1>4
<1>13. \A j \in Inodes \ rewritten' :
          j \notin rewritten /\ (sizes[j] = appended[j] => sizes'[j] = appended'[j])
  BY <1>8, <1>9
<1> QED
  BY <1>4, <1>6, <1>7, <1>10, <1>11, <1>12, <1>13, MovedKeeps

\* A write elsewhere makes the file one that was written to otherwise.
LEMMA WriteKeeps ==
    ASSUME WiInv, NEW fd \in DOMAIN streams, Write(fd)
    PROVE  WiInv'
<1> DEFINE s == streams[fd]
           i == Inode(fd)
           x == s.position + 1
<1>1. x \in Nat
  BY DEF WiInv, WiTypes, StreamRecord
<1>2. i \in Inodes /\ sizes[i] \in Nat
  BY InodesOpened DEF Write, OnFile, Size
<1>3. /\ sizes' = [sizes EXCEPT ![i] = Max({sizes[i], x})]
      /\ rewritten' = rewritten \cup {i}
      /\ streams' = [streams EXCEPT ![fd].position = x]
      /\ UNCHANGED <<hostFds, names, appended, writing, opens, lost, late, failed>>
  BY DEF Write
<1> HIDE DEF s, i, x
<1>4. sizes' \in [Inodes -> Nat]
  <2>1. Max({sizes[i], x}) \in Nat
    BY <1>1, <1>2, GreaterOf
  <2> QED
    BY <1>3, <2>1 DEF WiInv, WiTypes
<1>5. appended' \in [Inodes -> Nat]
  BY <1>3 DEF WiInv, WiTypes
<1>6. \A j \in Inodes \ rewritten' :
          j \notin rewritten /\ (sizes[j] = appended[j] => sizes'[j] = appended'[j])
  BY <1>3 DEF WiInv, WiTypes
<1>7. \A gd \in writing' : gd \in writing \/ (gd = fd /\ streams[fd].append)
  BY <1>3
<1> QED
  BY <1>1, <1>3, <1>4, <1>5, <1>6, <1>7, MovedKeeps

\* A seek, a read and the question for the size only move a stream.
LEMMA OnlyMoves ==
    ASSUME WiInv, NEW fd \in DOMAIN streams, NEW x \in Nat,
           streams' = [streams EXCEPT ![fd].position = x],
           \/ writing' = writing
           \/ writing' = {fd} /\ streams[fd].append,
           UNCHANGED <<hostFds, disk, opens, lost, late, failed>>
    PROVE  WiInv'
<1>1. sizes' \in [Inodes -> Nat] /\ appended' \in [Inodes -> Nat]
  BY DEF WiInv, WiTypes, disk
<1>2. \A j \in Inodes \ rewritten' :
          j \notin rewritten /\ (sizes[j] = appended[j] => sizes'[j] = appended'[j])
  BY DEF disk
<1>3. \A gd \in writing' : gd \in writing \/ (gd = fd /\ streams[fd].append)
  OBVIOUS
<1>4. UNCHANGED <<hostFds, names, opens, lost, late, failed>>
  BY DEF disk
<1> QED
  BY <1>1, <1>2, <1>3, <1>4, MovedKeeps

\* The calls about bytes.
LEMMA ByteCallsKeep ==
    ASSUME WiInv, ByteCalls
    PROVE  WiInv'
<1>1. ASSUME NEW fd \in DOMAIN streams, Setfl(fd) PROVE WiInv'
  <2>1. WiTypes /\ HostAppendsToo /\ AppendsKept
    BY DEF WiInv
  <2>2. /\ streams' = [streams EXCEPT ![fd].append = TRUE] /\ late' = late \cup {fd}
        /\ writing = {} /\ UNCHANGED <<hostFds, disk, writing, opens, lost, failed>>
    BY <1>1 DEF Setfl, OnFile, Ready
  <2>3. DOMAIN streams' = DOMAIN streams /\ streams'[fd] = [streams[fd] EXCEPT !.append = TRUE]
    BY <2>2
  <2>4. \A gd \in DOMAIN streams \ {fd} : streams'[gd] = streams[gd]
    BY <2>2
  <2>5. streams'[fd] \in StreamRecord /\ streams'[fd].nfd = streams[fd].nfd
    BY <2>1, <2>3 DEF WiTypes, StreamRecord
  <2>6. WiTypes'
    BY <2>1, <2>2, <2>3, <2>4, <2>5 DEF WiTypes, StreamRecord, HostRecord, Inodes, disk
  <2>7. HostAppendsToo'
    BY <2>1, <2>2, <2>3, <2>4 DEF HostAppendsToo
  <2>8. AppendsKept'
    BY <2>1, <2>2 DEF AppendsKept, Inodes, disk
  <2>9. \A gd \in DOMAIN streams : streams'[gd].nfd = streams[gd].nfd
    BY <2>4, <2>5
  <2>10. DescriptorsOwned'
    BY <2>2, <2>3, <2>9, DescriptorsStay
  <2> QED
    BY <2>6, <2>7, <2>8, <2>10 DEF WiInv
<1>2. ASSUME NEW fd \in DOMAIN streams, BeginAppend(fd) PROVE WiInv'
  <2> DEFINE x == Size(fd)
  <2>1. x \in Nat
    BY <1>2, InodesOpened DEF BeginAppend, OnFile
  <2>2. /\ streams' = [streams EXCEPT ![fd].position = x]
        /\ writing' = {fd} /\ streams[fd].append
        /\ UNCHANGED <<hostFds, disk, opens, lost, late, failed>>
    BY <1>2 DEF BeginAppend
  <2> HIDE DEF x
  <2> QED
    BY <2>1, <2>2, OnlyMoves
<1>3. ASSUME NEW fd \in DOMAIN streams, NEW offset \in -1..1, NEW base \in 0..MaxSize,
             Seek(fd, offset, base)
      PROVE  WiInv'
  <2> DEFINE x == base + offset
  <2>1. x \in Nat
    BY <1>3, IoAssumption DEF Seek
  <2>2. /\ streams' = [streams EXCEPT ![fd].position = x]
        /\ UNCHANGED <<hostFds, disk, writing, opens, lost, late, failed>>
    BY <1>3 DEF Seek
  <2> HIDE DEF x
  <2> QED
    BY <2>1, <2>2, OnlyMoves
<1>4. ASSUME NEW fd \in DOMAIN streams, NEW n \in 1..2, Read(fd, n) PROVE WiInv'
  <2> DEFINE x == Min({streams[fd].position + n, Size(fd)})
  <2>1. streams[fd].position \in Nat
    BY DEF WiInv, WiTypes, StreamRecord
  <2>2. Size(fd) \in Nat
    BY <1>4, InodesOpened DEF Read, OnFile
  <2>3. {streams[fd].position + n, Size(fd)} \subseteq Nat
    BY <2>1, <2>2
  <2>4. x \in {streams[fd].position + n, Size(fd)}
    BY <2>3, LeastIsOne
  <2>5. x \in Nat
    BY <2>3, <2>4
  <2>6. /\ streams' = [streams EXCEPT ![fd].position = x]
        /\ UNCHANGED <<hostFds, disk, writing, opens, lost, late, failed>>
    BY <1>4 DEF Read
  <2> HIDE DEF x
  <2> QED
    BY <2>5, <2>6, OnlyMoves
<1>5. ASSUME NEW p \in Paths, OthersAppend(p) PROVE WiInv'
  <2>1. WiTypes /\ HostAppendsToo /\ AppendsKept
    BY DEF WiInv
  <2> DEFINE i == names[p]
  <2>2. i \in Inodes
    BY <1>5, <2>1, IoAssumption DEF WiTypes, OthersAppend, Inodes
  <2>3. sizes[i] \in Nat /\ appended[i] \in Nat
    BY <2>1, <2>2 DEF WiTypes
  <2>4. /\ sizes' = [sizes EXCEPT ![i] = sizes[i] + 1]
        /\ appended' = [appended EXCEPT ![i] = appended[i] + 1]
        /\ UNCHANGED <<table, names, rewritten, writing>>
    BY <1>5 DEF OthersAppend
  <2> HIDE DEF i
  <2>5. sizes' \in [Inodes -> Nat] /\ appended' \in [Inodes -> Nat]
    <3>1. sizes[i] + 1 \in Nat /\ appended[i] + 1 \in Nat
      BY <2>3
    <3> QED
      BY <2>1, <2>4, <3>1 DEF WiTypes
  <2>6. WiTypes'
    BY <2>1, <2>4, <2>5 DEF WiTypes, StreamRecord, HostRecord, Inodes, table
  <2>7. HostAppendsToo'
    BY <2>1, <2>4 DEF HostAppendsToo, table
  <2>8. AppendsKept'
    BY <2>1, <2>3, <2>4 DEF AppendsKept, Inodes, WiTypes
  <2>9. DescriptorsOwned'
    BY <2>4, DescriptorsStay DEF table
  <2> QED
    BY <2>6, <2>7, <2>8, <2>9 DEF WiInv
<1> QED
  BY <1>1, <1>2, <1>3, <1>4, <1>5, AppendKeeps, WriteKeeps DEF ByteCalls

\* rename and unlink give files other names.
LEMMA NamesKeep ==
    ASSUME WiInv,
           \/ \E p, q \in Paths : Rename(p, q)
           \/ \E p \in Paths : Unlink(p)
    PROVE  WiInv'
<1>1. WiTypes /\ HostAppendsToo /\ AppendsKept
  BY DEF WiInv
<1>2. UNCHANGED <<table, sizes, appended, rewritten, writing>>
  BY DEF Rename, Unlink
<1>3. 0 \in 0..MaxOpens
  BY IoAssumption
<1>4. names' \in [Paths -> 0..MaxOpens]
  <2>1. ASSUME NEW p \in Paths, NEW q \in Paths, Rename(p, q)
        PROVE  names' \in [Paths -> 0..MaxOpens]
    BY <1>1, <1>3, <2>1 DEF Rename, WiTypes
  <2>2. ASSUME NEW p \in Paths, Unlink(p) PROVE names' \in [Paths -> 0..MaxOpens]
    BY <1>1, <1>3, <2>2 DEF Unlink, WiTypes
  <2> QED
    BY <2>1, <2>2
<1>5. WiTypes'
  BY <1>1, <1>2, <1>4 DEF WiTypes, StreamRecord, HostRecord, Inodes, table
<1>6. HostAppendsToo' /\ AppendsKept'
  BY <1>1, <1>2 DEF HostAppendsToo, AppendsKept, Inodes, table
<1>7. DescriptorsOwned'
  BY <1>2, DescriptorsStay DEF table
<1> QED
  BY <1>5, <1>6, <1>7 DEF WiInv

\* Every step keeps it.
LEMMA WiStepInv == WiInv /\ [WiNext]_wiVars => WiInv'
<1> SUFFICES ASSUME WiInv, [WiNext]_wiVars PROVE WiInv'
  OBVIOUS
<1>1. CASE WithPaths
  BY <1>1, OpenKeeps, NamesKeep DEF WithPaths
<1>2. CASE Numbers
  BY <1>2, CloseKeeps, DupfdKeeps, NodeKeeps DEF Numbers
<1>3. CASE ByteCalls
  BY <1>3, ByteCallsKeep
<1>4. CASE UNCHANGED wiVars
  BY <1>4 DEF wiVars, WiInv, WiTypes, StreamRecord, HostRecord, Inodes, HostAppendsToo,
              AppendsKept, DescriptorsOwned, OwnedByLibzip, Numbered
<1> QED
  BY <1>1, <1>2, <1>3, <1>4 DEF WiNext

\* For any files, any numbers of descriptors and streams and any limits:
\* libzip's streams have descriptors of their own until a close fails, none is
\* lost but in the two known ways, and no appended byte is overwritten where
\* all writers append.
THEOREM StreamsKeptAlways == WiSpec => []StreamsKept
<1>1. WiInv => StreamsKept
  BY DEF WiInv, DescriptorsOwned, OwnedByLibzip, Numbered, StreamsKept, OwnDescriptors
<1> QED
  BY <1>1, WiInitInv, WiStepInv, PTL DEF WiSpec

-----------------------------------------------------------------------------
(* PatchedFs.                                                               *)

\* The program and the host were only given native paths.
Forms == heard \subseteq {Native} /\ told \subseteq {Native}

\* Whatever virtual folder it goes through, the host is given a native path.
LEMMA HostHearsNative ==
    ASSUME NEW P, \A p \in P : \E f \in Files, v \in {"yes", "no"} : p = NPath(f, v),
           heard \subseteq {Native}, Hear(P), UNCHANGED platform
    PROVE  heard' \subseteq {Native'}
<1>1. \A f \in Files, v \in {"yes", "no"} : NodePath(MapToBase(NPath(f, v))).form = Native
  BY DEF NodePath, MapToBase, NPath, fromPortablePath, toPortablePath, resolveVirtual
<1>2. Native' = Native
  BY DEF Native, Form
<1> QED
  BY <1>1, <1>2 DEF Hear

\* Every step keeps the forms.
LEMMA FormsNext == Forms /\ [PfNext]_pfVars => Forms'
<1> SUFFICES ASSUME Forms, [PfNext]_pfVars PROVE Forms'
  OBVIOUS
<1>1. ASSUME UNCHANGED platform PROVE Native' = Native
  BY <1>1 DEF Native, Form
<1>2. ASSUME UNCHANGED <<platform, told, heard>> PROVE Forms'
  BY <1>1, <1>2 DEF Forms
<1>3. ASSUME NEW P, \A p \in P : \E f \in Files, v \in {"yes", "no"} : p = NPath(f, v),
             Hear(P), UNCHANGED <<platform, told>>
      PROVE  Forms'
  BY <1>1, <1>3, HostHearsNative DEF Forms
<1>4. CASE \E h \in DOMAIN handles : OnHandle(h)
  <2>1. UNCHANGED <<platform, told, heard>>
    <3>1. ASSUME NEW h \in DOMAIN handles, OnHandle(h) PROVE UNCHANGED <<world, paths>>
      <4>1. ASSUME NEW n, NEW move, ReadZip(h, n, move) \/ ReadHost(h, n, move)
            PROVE  UNCHANGED <<world, paths>>
        BY <4>1, Zenon DEF ReadZip, ReadHost
      <4>2. ASSUME NEW wrong, DestroyWriter(h, wrong) PROVE UNCHANGED <<world, paths>>
        BY <4>2 DEF DestroyWriter
      <4>3. ASSUME NEW x, WriteChunk(h, x) PROVE UNCHANGED <<world, paths>>
        BY <4>3 DEF WriteChunk
      <4> QED
        BY <3>1, <4>1, <4>2, <4>3, Zenon
           DEF OnHandle, CloseZip, CloseHost, ReadDir, CloseDir, Immediate, DestroyReader
    <3> QED
      BY <1>4, <3>1 DEF world, paths
  <2> QED
    BY <1>2, <2>1
<1>5. ASSUME NEW f \in Files, NEW v \in {"yes", "no"}, OnPath(f, v) PROVE Forms'
  <2> DEFINE p == NPath(f, v)
             P == {p}
  <2>1. \A q \in P : \E g \in Files, w \in {"yes", "no"} : q = NPath(g, w)
    OBVIOUS
  <2>2. Hear(P) /\ UNCHANGED platform
    BY <1>5 DEF OnPath, QueryPath, AskPath, ChangePath, world
  <2>3. CASE UNCHANGED told
    BY <1>3, <2>1, <2>2, <2>3
  <2>4. CASE AskPath(f, v)
    <3>1. Realpath(p).form = Native
      BY DEF Realpath, MapToBase, NPath, fromPortablePath, toPortablePath, resolveVirtual
    <3>2. told' \subseteq {Native}
      BY <2>4, <3>1 DEF AskPath, Forms
    <3>3. heard' \subseteq {Native'}
      BY <2>1, <2>2, HostHearsNative DEF Forms
    <3> QED
      BY <1>1, <2>2, <3>2, <3>3 DEF Forms
  <2> QED
    BY <1>5, <2>3, <2>4 DEF OnPath, QueryPath, ChangePath
<1>6. ASSUME NEW v \in {"yes", "no"}, NEW w \in {"yes", "no"}, PairPaths(v, w) PROVE Forms'
  <2> DEFINE P == {NPath(DiskFile, v), NPath(DiskFile, w)}
  <2>1. \A q \in P : \E g \in Files, u \in {"yes", "no"} : q = NPath(g, u)
    BY DEF Files
  <2>2. Hear(P) /\ UNCHANGED <<platform, told>>
    BY <1>6 DEF PairPaths, world
  <2> HIDE DEF P
  <2> QED
    BY <1>3, <2>1, <2>2
<1>7. ASSUME NEW v \in {"yes", "no"}, OpenZip(v) \/ OpenHost(v) PROVE Forms'
  <2>1. PICK f \in Files : Hear({NPath(f, v)}) /\ UNCHANGED <<platform, told>>
    BY <1>7 DEF OpenZip, OpenHost, world, Files
  <2> DEFINE P == {NPath(f, v)}
  <2>2. \A q \in P : \E g \in Files, w \in {"yes", "no"} : q = NPath(g, w)
    OBVIOUS
  <2>3. Hear(P)
    BY <2>1
  <2> HIDE DEF P
  <2> QED
    BY <1>3, <2>1, <2>2, <2>3
<1>8. CASE OpenDir
  BY <1>1, <1>8 DEF OpenDir, Forms, world
<1>9. CASE CreateReadStream \/ CreateWriteStream
  BY <1>2, <1>9 DEF CreateReadStream, CreateWriteStream, world, paths
<1>10. CASE UNCHANGED pfVars
  BY <1>2, <1>10 DEF pfVars
<1> QED
  BY <1>4, <1>5, <1>6, <1>7, <1>8, <1>9, <1>10 DEF PfNext

\* On either platform, for any files and calls in any style: the host is only
\* given native paths, and so is the program.
THEOREM FormsRightAlways == PfSpec => []FormsRight
<1>1. PfInit => Forms
  BY DEF PfInit, Forms
<1>2. Forms => FormsRight
  BY DEF Forms, FormsRight
<1> QED
  BY <1>1, <1>2, FormsNext, PTL DEF PfSpec

-----------------------------------------------------------------------------
(* PatchedFs: what the program has opened, and the tables behind it.        *)

Things == {"a", "b", "absent"} \cup Files
HandleRecord ==
    [kind : {"fd", "dir", "reader", "writer"}, fs : {"zip", "host"}, fd : Nat, inner : Nat,
     file : Files, state : {"open", "ended", "closed", "failed"},
     got : Seq(Things), chunks : Seq(Things), since : Nat]

PfTypes ==
    /\ handles \in Seq(HandleRecord) /\ tree \in [Files -> Seq(Things)] /\ writes \in Nat
    /\ IsFiniteSet(DOMAIN nodeFds)

HandleShape ==
    \A h \in DOMAIN handles :
        /\ handles[h].fs = "zip" => handles[h].file = ZipFile
        /\ handles[h].fs = "host" => handles[h].file = DiskFile /\ handles[h].kind = "fd"
        /\ handles[h].state = "ended" => handles[h].kind = "reader"
        /\ handles[h].state = "failed" => handles[h].kind = "writer"

ZipHandles == {h \in DOMAIN handles : handles[h].fs = "zip"}
ZipFds == {h \in DOMAIN handles : handles[h].fs = "zip" /\ handles[h].kind = "fd"}

\* No number of the archive's is given out twice, not even when it is closed.
NumbersGrow ==
    /\ \A h \in ZipHandles : handles[h].inner < Cardinality(ZipHandles)
    /\ \A g, h \in ZipHandles : handles[g].inner = handles[h].inner => g = h
    /\ \A h \in ZipFds : handles[h].fd < Cardinality(ZipFds)
    /\ \A g, h \in ZipFds : handles[g].fd = handles[h].fd => g = h

LiveHandles == {h \in DOMAIN handles : Live(h)}
LiveFds == {h \in DOMAIN handles : Live(h) /\ handles[h].kind = "fd"}

\* The tables of the archive and of the stack are those of what is open.
TablesLive ==
    /\ DOMAIN fds = {handles[h].inner : h \in LiveHandles}
    /\ DOMAIN fdMap = {handles[h].fd : h \in LiveFds}
    /\ \A h \in LiveFds : fdMap[handles[h].fd] = handles[h].inner

\* A cursor is where the reads one after the other have come to.
HostFds == {h \in DOMAIN handles : handles[h].fs = "host" /\ handles[h].state = "open"}
CursorsRight ==
    /\ \A h \in LiveFds : fds[handles[h].inner].cursor = Len(handles[h].got)
    /\ \A h \in HostFds : /\ handles[h].fd \in DOMAIN nodeFds
                          /\ nodeFds[handles[h].fd].cursor = Len(handles[h].got)
    /\ \A g, h \in HostFds : handles[g].fd = handles[h].fd => g = h

\* What was read one after the other is the beginning of the file.
Begins(s, t) == Len(s) <= Len(t) /\ \A i \in 1..Len(s) : s[i] = t[i]
ReadRight ==
    \A h \in DOMAIN handles :
        handles[h].kind = "fd" =>
            /\ handles[h].since <= writes
            /\ handles[h].since = writes /\ tree[handles[h].file] # Absent =>
                  Begins(handles[h].got, tree[handles[h].file])

WrittenRight ==
    \A h \in DOMAIN handles :
        Is(h, "writer", "closed") =>
            /\ handles[h].since <= writes
            /\ handles[h].since = writes => tree[ZipFile] = handles[h].chunks

PfInv ==
    /\ PfTypes /\ HandleShape /\ NumbersGrow /\ TablesLive /\ CursorsRight
    /\ ReadRight /\ WrittenRight

-----------------------------------------------------------------------------
\* The invariant of the handles holds initially.
LEMMA PfInitInv == PfInit => PfInv
<1> SUFFICES ASSUME PfInit PROVE PfInv
  OBVIOUS
<1>1. DOMAIN handles = {} /\ handles = << >> /\ writes = 0
  BY DEF PfInit
<1>2. DOMAIN fds = {} /\ DOMAIN fdMap = {} /\ DOMAIN nodeFds = {}
  BY DEF PfInit
<1>3. PfTypes
  <2>1. <<"absent">> \in Seq(Things)
    BY DEF Things
  <2>2. Datas \subseteq Seq(Things)
    BY FilesAssumption DEF Things
  <2>3. tree \in [Files -> Seq(Things)]
    BY <2>1, <2>2 DEF PfInit, Absent
  <2>4. handles \in Seq(HandleRecord)
    BY <1>1
  <2> QED
    BY <1>1, <1>2, <2>3, <2>4, FS_EmptySet DEF PfTypes
<1>4. ZipHandles = {} /\ ZipFds = {} /\ LiveHandles = {} /\ LiveFds = {} /\ HostFds = {}
  BY <1>1 DEF ZipHandles, ZipFds, LiveHandles, LiveFds, HostFds
<1>5. HandleShape /\ NumbersGrow /\ ReadRight /\ WrittenRight
  BY <1>1, <1>4 DEF HandleShape, NumbersGrow, ReadRight, WrittenRight
<1>6. TablesLive /\ CursorsRight
  BY <1>2, <1>4 DEF TablesLive, CursorsRight
<1> QED
  BY <1>3, <1>5, <1>6 DEF PfInv

\* The numbers the archive and the stack would give out next.
LEMMA NextNumbers ==
    ASSUME handles \in Seq(HandleRecord)
    PROVE  /\ IsFiniteSet(ZipHandles) /\ NextZip = Cardinality(ZipHandles) /\ NextZip \in Nat
           /\ IsFiniteSet(ZipFds) /\ NextRemapped = Cardinality(ZipFds) /\ NextRemapped \in Nat
<1>1. DOMAIN handles = 1..Len(handles) /\ Len(handles) \in Nat
  OBVIOUS
<1>2. IsFiniteSet(DOMAIN handles)
  BY <1>1, FS_Interval
<1>3. IsFiniteSet(ZipHandles) /\ IsFiniteSet(ZipFds)
  BY <1>2, FS_Subset DEF ZipHandles, ZipFds
<1> QED
  BY <1>3, FS_CardinalityType DEF NextZip, Opened, NextRemapped, ZipHandles, ZipFds

\* One handle more, with the others as they were.
Added(n, r) ==
    /\ n \notin DOMAIN handles /\ DOMAIN handles' = DOMAIN handles \cup {n}
    /\ handles' \in Seq(HandleRecord) /\ handles'[n] = r
    /\ \A h \in DOMAIN handles : handles'[h] = handles[h]

\* Hold adds a handle at the end.
LEMMA HoldAdds ==
    ASSUME PfInv, NEW r \in HandleRecord, Hold(r)
    PROVE  Added(Len(handles) + 1, r)
<1>1. handles \in Seq(HandleRecord)
  BY DEF PfInv, PfTypes
<1> QED
  BY <1>1 DEF Hold, Added

\* Numbers below the size of a set, each used once: its size is the next.
LEMMA NextIsNew ==
    ASSUME NEW S, IsFiniteSet(S), NEW n, n \notin S, NEW f,
           \A h \in S : f[h] \in Nat /\ f[h] < Cardinality(S),
           \A g, h \in S : f[g] = f[h] => g = h,
           f[n] = Cardinality(S)
    PROVE  /\ \A h \in S \cup {n} : f[h] < Cardinality(S \cup {n})
           /\ \A g, h \in S \cup {n} : f[g] = f[h] => g = h
<1>1. Cardinality(S) \in Nat /\ Cardinality(S \cup {n}) = Cardinality(S) + 1
  BY FS_CardinalityType, FS_AddElement
<1> QED
  BY <1>1

\* The numbers handed out grow.
LEMMA NumbersGrowOn ==
    ASSUME PfInv, NEW r \in HandleRecord, NEW n, Added(n, r),
           r.fs = "zip" => r.inner = NextZip,
           r.fs = "zip" /\ r.kind = "fd" => r.fd = NextRemapped
    PROVE  NumbersGrow'
<1>1. handles \in Seq(HandleRecord) /\ NumbersGrow
  BY DEF PfInv, PfTypes
<1>2. /\ n \notin DOMAIN handles /\ handles'[n] = r
      /\ \A h \in DOMAIN handles : handles'[h] = handles[h]
      /\ r.fs = "zip" => ZipHandles' = ZipHandles \cup {n}
      /\ r.fs # "zip" => ZipHandles' = ZipHandles
      /\ r.fs = "zip" /\ r.kind = "fd" => ZipFds' = ZipFds \cup {n}
      /\ ~(r.fs = "zip" /\ r.kind = "fd") => ZipFds' = ZipFds
  BY DEF Added, ZipHandles, ZipFds
<1>3. ZipHandles \subseteq DOMAIN handles /\ ZipFds \subseteq DOMAIN handles
  BY DEF ZipHandles, ZipFds
<1>4. /\ IsFiniteSet(ZipHandles) /\ NextZip = Cardinality(ZipHandles) /\ NextZip \in Nat
      /\ IsFiniteSet(ZipFds) /\ NextRemapped = Cardinality(ZipFds) /\ NextRemapped \in Nat
  BY <1>1, NextNumbers
<1>5. \A h \in DOMAIN handles : handles[h].inner \in Nat /\ handles[h].fd \in Nat
  <2>1. \A h \in DOMAIN handles : handles[h] \in HandleRecord
    BY <1>1
  <2> QED
    BY <2>1 DEF HandleRecord
<1>6. /\ \A h \in ZipHandles' : handles'[h].inner < Cardinality(ZipHandles')
      /\ \A g, h \in ZipHandles' : handles'[g].inner = handles'[h].inner => g = h
  <2>1. CASE r.fs = "zip"
    <3>1. ZipHandles' = ZipHandles \cup {n} /\ n \notin ZipHandles
      BY <1>2, <1>3, <2>1
    <3> DEFINE f == [h \in DOMAIN handles \cup {n} |-> handles'[h].inner]
    <3>2. f[n] = Cardinality(ZipHandles)
      BY <1>2, <1>4, <2>1
    <3>3. \A h \in ZipHandles : f[h] = handles[h].inner
      BY <1>2, <1>3
    <3>4. \A h \in ZipHandles \cup {n} : f[h] = handles'[h].inner
      BY <1>3
    <3> HIDE DEF f
    <3>5. /\ \A h \in ZipHandles : f[h] \in Nat /\ f[h] < Cardinality(ZipHandles)
          /\ \A g, h \in ZipHandles : f[g] = f[h] => g = h
      BY <1>1, <1>3, <1>5, <3>3 DEF NumbersGrow
    <3>6. /\ \A h \in ZipHandles \cup {n} : f[h] < Cardinality(ZipHandles \cup {n})
          /\ \A g, h \in ZipHandles \cup {n} : f[g] = f[h] => g = h
      BY <1>4, <3>1, <3>2, <3>5, NextIsNew
    <3>7. \A h \in ZipHandles' : handles'[h].inner < Cardinality(ZipHandles')
      BY <3>1, <3>4, <3>6
    <3>8. \A g, h \in ZipHandles' : handles'[g].inner = handles'[h].inner => g = h
      BY <3>1, <3>4, <3>6
    <3> QED
      BY <3>7, <3>8
  <2>2. CASE r.fs # "zip"
    BY <1>1, <1>2, <1>3, <2>2 DEF NumbersGrow
  <2> QED
    BY <2>1, <2>2
<1>7. /\ \A h \in ZipFds' : handles'[h].fd < Cardinality(ZipFds')
      /\ \A g, h \in ZipFds' : handles'[g].fd = handles'[h].fd => g = h
  <2>1. CASE r.fs = "zip" /\ r.kind = "fd"
    <3>1. ZipFds' = ZipFds \cup {n} /\ n \notin ZipFds
      BY <1>2, <1>3, <2>1
    <3> DEFINE f == [h \in DOMAIN handles \cup {n} |-> handles'[h].fd]
    <3>2. f[n] = Cardinality(ZipFds)
      BY <1>2, <1>4, <2>1
    <3>3. \A h \in ZipFds : f[h] = handles[h].fd
      BY <1>2, <1>3
    <3>4. \A h \in ZipFds \cup {n} : f[h] = handles'[h].fd
      BY <1>3
    <3> HIDE DEF f
    <3>5. /\ \A h \in ZipFds : f[h] \in Nat /\ f[h] < Cardinality(ZipFds)
          /\ \A g, h \in ZipFds : f[g] = f[h] => g = h
      BY <1>1, <1>3, <1>5, <3>3 DEF NumbersGrow
    <3>6. /\ \A h \in ZipFds \cup {n} : f[h] < Cardinality(ZipFds \cup {n})
          /\ \A g, h \in ZipFds \cup {n} : f[g] = f[h] => g = h
      BY <1>4, <3>1, <3>2, <3>5, NextIsNew
    <3>7. \A h \in ZipFds' : handles'[h].fd < Cardinality(ZipFds')
      BY <3>1, <3>4, <3>6
    <3>8. \A g, h \in ZipFds' : handles'[g].fd = handles'[h].fd => g = h
      BY <3>1, <3>4, <3>6
    <3> QED
      BY <3>7, <3>8
  <2>2. CASE ~(r.fs = "zip" /\ r.kind = "fd")
    BY <1>1, <1>2, <1>3, <2>2 DEF NumbersGrow
  <2> QED
    BY <2>1, <2>2
<1> QED
  BY <1>6, <1>7 DEF NumbersGrow

\* Opening something in the archive.
LEMMA ZipAdded ==
    ASSUME PfInv, NEW r \in HandleRecord, NEW n, Added(n, r),
           r.fs = "zip", r.file = ZipFile, r.state = "open", r.got = << >>, r.since = writes,
           r.inner = NextZip, r.kind = "fd" => r.fd = NextRemapped,
           NEW v, v.cursor = 0, fds' = Put(fds, NextZip, v),
           r.kind = "fd" => fdMap' = Put(fdMap, NextRemapped, NextZip),
           r.kind # "fd" => fdMap' = fdMap,
           UNCHANGED <<tree, writes, nodeFds>>
    PROVE  PfInv'
<1>1. /\ PfTypes /\ HandleShape /\ NumbersGrow /\ TablesLive /\ CursorsRight
      /\ ReadRight /\ WrittenRight
  BY DEF PfInv
<1>2. /\ n \notin DOMAIN handles /\ DOMAIN handles' = DOMAIN handles \cup {n}
      /\ handles' \in Seq(HandleRecord) /\ handles'[n] = r
      /\ \A h \in DOMAIN handles : handles'[h] = handles[h]
  BY DEF Added
<1>3. /\ NextZip = Cardinality(ZipHandles) /\ NextZip \in Nat
      /\ NextRemapped = Cardinality(ZipFds) /\ NextRemapped \in Nat
  BY <1>1, NextNumbers DEF PfTypes
<1>4. /\ LiveHandles \subseteq ZipHandles /\ LiveFds \subseteq ZipFds
      /\ LiveFds \subseteq LiveHandles /\ ZipHandles \subseteq DOMAIN handles
      /\ HostFds \subseteq DOMAIN handles
  BY DEF LiveHandles, LiveFds, ZipHandles, ZipFds, HostFds, Live
<1>5. /\ \A h \in ZipHandles : handles[h].inner # NextZip
      /\ \A h \in ZipFds : handles[h].fd # NextRemapped
  <2>1. \A h \in DOMAIN handles : handles[h] \in HandleRecord
    BY <1>1 DEF PfTypes
  <2>2. \A h \in DOMAIN handles : handles[h].inner \in Nat /\ handles[h].fd \in Nat
    BY <2>1 DEF HandleRecord
  <2> QED
    BY <1>1, <1>3, <1>4, <2>2 DEF NumbersGrow, ZipFds
<1> DEFINE z == NextZip
           m == NextRemapped
<1>6. /\ DOMAIN fds' = DOMAIN fds \cup {z} /\ fds'[z] = v
      /\ \A x \in DOMAIN fds \ {z} : fds'[x] = fds[x]
  BY DEF Put
<1>7. r.kind = "fd" =>
          /\ DOMAIN fdMap' = DOMAIN fdMap \cup {m} /\ fdMap'[m] = z
          /\ \A x \in DOMAIN fdMap \ {m} : fdMap'[x] = fdMap[x]
  BY DEF Put
<1> HIDE DEF z, m
<1>8. /\ LiveHandles' = LiveHandles \cup {n} /\ HostFds' = HostFds
      /\ r.kind = "fd" => LiveFds' = LiveFds \cup {n}
      /\ r.kind # "fd" => LiveFds' = LiveFds
  BY <1>2 DEF LiveHandles, LiveFds, HostFds, Live
<1>9. PfTypes'
  BY <1>1, <1>2 DEF PfTypes, HandleRecord, Things, Files
<1>10. HandleShape'
  BY <1>1, <1>2 DEF HandleShape
<1>11. NumbersGrow'
  BY NumbersGrowOn
<1>12. TablesLive'
  <2>1. DOMAIN fds' = {handles'[h].inner : h \in LiveHandles'}
    BY <1>1, <1>2, <1>4, <1>6, <1>8 DEF TablesLive, z
  <2>2. DOMAIN fdMap' = {handles'[h].fd : h \in LiveFds'}
    <3>1. \A h \in LiveFds : handles'[h] = handles[h]
      BY <1>2, <1>4
    <3>2. CASE r.kind = "fd"
      BY <1>1, <1>2, <1>7, <1>8, <3>1, <3>2 DEF TablesLive, m
    <3>3. CASE r.kind # "fd"
      <4>1. LiveFds' = LiveFds /\ fdMap' = fdMap
        BY <1>8, <3>3
      <4>2. {handles'[h].fd : h \in LiveFds'} = {handles[h].fd : h \in LiveFds}
        BY <3>1, <4>1
      <4> QED
        BY <1>1, <4>1, <4>2 DEF TablesLive
    <3> QED
      BY <3>2, <3>3
  <2>3. \A h \in LiveFds' : fdMap'[handles'[h].fd] = handles'[h].inner
    <3>1. \A h \in LiveFds : handles'[h] = handles[h] /\ handles[h].fd \in DOMAIN fdMap \ {m}
      BY <1>1, <1>2, <1>4, <1>5 DEF TablesLive, m
    <3>2. \A h \in LiveFds : fdMap'[handles'[h].fd] = handles'[h].inner
      BY <1>1, <1>7, <3>1 DEF TablesLive
    <3>3. r.kind = "fd" => fdMap'[handles'[n].fd] = handles'[n].inner
      BY <1>2, <1>7 DEF z, m
    <3> QED
      BY <1>8, <3>2, <3>3
  <2> QED
    BY <2>1, <2>2, <2>3 DEF TablesLive
<1>13. CursorsRight'
  <2>1. \A h \in LiveFds' : fds'[handles'[h].inner].cursor = Len(handles'[h].got)
    <3>1. \A h \in LiveFds : /\ handles'[h] = handles[h]
                             /\ handles[h].inner \in DOMAIN fds \ {z}
      BY <1>1, <1>2, <1>4, <1>5 DEF TablesLive, z
    <3>2. \A h \in LiveFds : fds'[handles'[h].inner].cursor = Len(handles'[h].got)
      BY <1>1, <1>6, <3>1 DEF CursorsRight
    <3>3. Len(<< >>) = 0
      OBVIOUS
    <3>4. fds'[handles'[n].inner].cursor = Len(handles'[n].got)
      BY <1>2, <1>6, <3>3 DEF z
    <3> QED
      BY <1>8, <3>2, <3>4
  <2>2. \A h \in HostFds : handles'[h] = handles[h]
    BY <1>2, <1>4
  <2> QED
    BY <1>1, <1>8, <2>1, <2>2 DEF CursorsRight
<1>14. ReadRight'
  <2>1. Len(<< >>) = 0 /\ writes \in Nat /\ tree[ZipFile] \in Seq(Things)
    BY <1>1 DEF PfTypes, Files
  <2>2. Begins(r.got, tree[ZipFile])
    BY <2>1 DEF Begins
  <2> QED
    BY <1>1, <1>2, <2>1, <2>2 DEF ReadRight, Begins
<1>15. WrittenRight'
  BY <1>1, <1>2 DEF WrittenRight, Is
<1> QED
  BY <1>9, <1>10, <1>11, <1>12, <1>13, <1>14, <1>15 DEF PfInv

\* Opening a file of the host.
LEMMA HostAdded ==
    ASSUME PfInv, NEW r \in HandleRecord, NEW n, Added(n, r),
           r.fs = "host", r.kind = "fd", r.file = DiskFile, r.state = "open",
           r.got = << >>, r.since = writes, r.fd = Smallest(nodeFds),
           NEW v, v.cursor = 0, nodeFds' = Put(nodeFds, Smallest(nodeFds), v),
           UNCHANGED <<tree, writes, fds, fdMap>>
    PROVE  PfInv'
<1>1. /\ PfTypes /\ HandleShape /\ NumbersGrow /\ TablesLive /\ CursorsRight
      /\ ReadRight /\ WrittenRight
  BY DEF PfInv
<1>2. /\ n \notin DOMAIN handles /\ DOMAIN handles' = DOMAIN handles \cup {n}
      /\ handles' \in Seq(HandleRecord) /\ handles'[n] = r
      /\ \A h \in DOMAIN handles : handles'[h] = handles[h]
  BY DEF Added
<1>3. /\ LiveHandles \subseteq DOMAIN handles /\ LiveFds \subseteq DOMAIN handles
      /\ HostFds \subseteq DOMAIN handles
  BY DEF LiveHandles, LiveFds, HostFds
<1> DEFINE s == Smallest(nodeFds)
<1>4. s \in Nat \ DOMAIN nodeFds
  BY <1>1, FirstFree DEF PfTypes, Smallest
<1>5. /\ DOMAIN nodeFds' = DOMAIN nodeFds \cup {s} /\ nodeFds'[s] = v
      /\ \A x \in DOMAIN nodeFds : nodeFds'[x] = nodeFds[x]
  BY <1>4 DEF Put
<1>6. r.fd = s
  OBVIOUS
<1> HIDE DEF s
<1>7. LiveHandles' = LiveHandles /\ LiveFds' = LiveFds /\ HostFds' = HostFds \cup {n}
  BY <1>2 DEF LiveHandles, LiveFds, HostFds, Live
<1>8. PfTypes'
  <2>1. IsFiniteSet(DOMAIN nodeFds')
    BY <1>1, <1>5, FS_AddElement DEF PfTypes
  <2> QED
    BY <1>1, <1>2, <2>1 DEF PfTypes, HandleRecord, Things, Files
<1>9. HandleShape'
  BY <1>1, <1>2 DEF HandleShape
<1>10. NumbersGrow'
  BY NumbersGrowOn
<1>11. TablesLive'
  BY <1>1, <1>2, <1>3, <1>7 DEF TablesLive
<1>12. CursorsRight'
  <2>1. \A h \in LiveFds' : fds'[handles'[h].inner].cursor = Len(handles'[h].got)
    BY <1>1, <1>2, <1>3, <1>7 DEF CursorsRight
  <2>2. \A h \in HostFds : handles'[h] = handles[h] /\ handles[h].fd \in DOMAIN nodeFds
    BY <1>1, <1>2, <1>3 DEF CursorsRight
  <2>3. \A h \in HostFds : /\ handles'[h].fd \in DOMAIN nodeFds'
                           /\ nodeFds'[handles'[h].fd].cursor = Len(handles'[h].got)
    BY <1>1, <1>5, <2>2 DEF CursorsRight
  <2>4. Len(<< >>) = 0
    OBVIOUS
  <2>5. /\ handles'[n].fd \in DOMAIN nodeFds'
        /\ nodeFds'[handles'[n].fd].cursor = Len(handles'[n].got)
    BY <1>2, <1>5, <1>6, <2>4
  <2>6. \A h \in HostFds : handles'[h].fd # handles'[n].fd
    BY <1>2, <1>4, <1>6, <2>2
  <2>7. \A g, h \in HostFds : handles'[g].fd = handles'[h].fd => g = h
    BY <1>1, <2>2 DEF CursorsRight
  <2>8. \A g, h \in HostFds' : handles'[g].fd = handles'[h].fd => g = h
    BY <1>7, <2>6, <2>7
  <2>9. \A h \in HostFds' : /\ handles'[h].fd \in DOMAIN nodeFds'
                            /\ nodeFds'[handles'[h].fd].cursor = Len(handles'[h].got)
    BY <1>7, <2>3, <2>5
  <2> QED
    BY <2>1, <2>8, <2>9 DEF CursorsRight
<1>13. ReadRight'
  <2>1. Len(<< >>) = 0 /\ writes \in Nat /\ tree[DiskFile] \in Seq(Things)
    BY <1>1 DEF PfTypes, Files
  <2>2. Begins(r.got, tree[DiskFile])
    BY <2>1 DEF Begins
  <2> QED
    BY <1>1, <1>2, <2>1, <2>2 DEF ReadRight, Begins
<1>14. WrittenRight'
  BY <1>1, <1>2 DEF WrittenRight, Is
<1> QED
  BY <1>8, <1>9, <1>10, <1>11, <1>12, <1>13, <1>14 DEF PfInv

\* Opening a file keeps it.
LEMMA OpeningKeeps ==
    ASSUME PfInv,
           \/ \E v \in {"yes", "no"} : OpenZip(v) \/ OpenHost(v)
           \/ OpenDir \/ CreateReadStream \/ CreateWriteStream
    PROVE  PfInv'
<1>1. /\ writes \in Nat /\ handles \in Seq(HandleRecord) /\ ZipFile \in Things
      /\ << >> \in Seq(Things) /\ <<ZipFile>> \in Seq(Things)
  BY DEF PfInv, PfTypes, Things, Files
<1>2. NextZip \in Nat /\ NextRemapped \in Nat
  BY <1>1, NextNumbers
<1>3. Smallest(nodeFds) \in Nat
  BY FirstFree DEF PfInv, PfTypes, Smallest
<1> DEFINE zero == [cursor |-> 0, file |-> ZipFile]
           nought == [cursor |-> 0, file |-> DiskFile]
           n == Len(handles) + 1
<1>4. zero.cursor = 0 /\ nought.cursor = 0
  OBVIOUS
<1>5. ASSUME NEW v, OpenZip(v) PROVE PfInv'
  <2> DEFINE r == Handle("fd", "zip", NextRemapped, NextZip, ZipFile)
  <2>1. /\ r \in HandleRecord /\ r.fs = "zip" /\ r.file = ZipFile /\ r.state = "open"
        /\ r.got = << >> /\ r.since = writes /\ r.inner = NextZip /\ r.kind = "fd"
        /\ r.fd = NextRemapped
    BY <1>1, <1>2 DEF Handle, HandleRecord, Files
  <2>2. /\ Hold(r) /\ fds' = Put(fds, NextZip, zero) /\ fdMap' = Put(fdMap, NextRemapped, NextZip)
        /\ UNCHANGED <<tree, writes, nodeFds>>
    BY <1>5 DEF OpenZip
  <2> HIDE DEF r, zero
  <2>3. Added(n, r)
    BY <2>1, <2>2, HoldAdds
  <2> HIDE DEF n
  <2> QED
    BY <1>4, <2>1, <2>2, <2>3, ZipAdded
<1>6. ASSUME NEW v, OpenHost(v) PROVE PfInv'
  <2> DEFINE r == Handle("fd", "host", Smallest(nodeFds), 0, DiskFile)
  <2>1. /\ r \in HandleRecord /\ r.fs = "host" /\ r.file = DiskFile /\ r.state = "open"
        /\ r.got = << >> /\ r.since = writes /\ r.kind = "fd" /\ r.fd = Smallest(nodeFds)
    BY <1>1, <1>3 DEF Handle, HandleRecord, Files
  <2>2. /\ Hold(r) /\ nodeFds' = Put(nodeFds, Smallest(nodeFds), nought)
        /\ UNCHANGED <<tree, writes, fds, fdMap>>
    BY <1>6 DEF OpenHost
  <2> HIDE DEF r, nought
  <2>3. Added(n, r)
    BY <2>1, <2>2, HoldAdds
  <2> HIDE DEF n
  <2> QED
    BY <1>4, <2>1, <2>2, <2>3, HostAdded
<1>7. ASSUME NEW r \in HandleRecord, Hold(r), r.fs = "zip", r.kind # "fd", r.file = ZipFile,
             r.state = "open", r.got = << >>, r.since = writes, r.inner = NextZip,
             fds' = Put(fds, NextZip, zero), UNCHANGED <<tree, writes, fdMap, nodeFds>>
      PROVE  PfInv'
  <2>1. Added(n, r)
    BY <1>7, HoldAdds
  <2> HIDE DEF n, zero
  <2> QED
    BY <1>4, <1>7, <2>1, ZipAdded
<1>8. CASE OpenDir
  <2> DEFINE r == [Handle("dir", "zip", 0, NextZip, ZipFile) EXCEPT
                      !.chunks = IF tree[ZipFile] = Absent THEN << >> ELSE <<ZipFile>>]
  <2>1. /\ r \in HandleRecord /\ r.fs = "zip" /\ r.kind # "fd" /\ r.file = ZipFile
        /\ r.state = "open" /\ r.got = << >> /\ r.since = writes /\ r.inner = NextZip
    BY <1>1, <1>2 DEF Handle, HandleRecord, Files
  <2>2. Hold(r) /\ fds' = Put(fds, NextZip, zero) /\ UNCHANGED <<tree, writes, fdMap, nodeFds>>
    BY <1>8 DEF OpenDir
  <2> HIDE DEF r, zero
  <2> QED
    BY <1>7, <2>1, <2>2
<1>9. ASSUME NEW kind \in {"reader", "writer"}, Inside(kind),
             fds' = Put(fds, NextZip, zero), UNCHANGED <<tree, writes, fdMap, nodeFds>>
      PROVE  PfInv'
  <2> DEFINE r == Handle(kind, "zip", 0, NextZip, ZipFile)
  <2>1. /\ r \in HandleRecord /\ r.fs = "zip" /\ r.kind # "fd" /\ r.file = ZipFile
        /\ r.state = "open" /\ r.got = << >> /\ r.since = writes /\ r.inner = NextZip
    BY <1>1, <1>2 DEF Handle, HandleRecord, Files
  <2>2. Hold(r)
    BY <1>9 DEF Inside
  <2> HIDE DEF r, zero
  <2> QED
    BY <1>7, <1>9, <2>1, <2>2
<1>10. CASE CreateReadStream
  <2>1. Inside("reader") /\ fds' = Put(fds, NextZip, zero) /\ UNCHANGED <<tree, writes, fdMap, nodeFds>>
    BY <1>10 DEF CreateReadStream
  <2> QED
    BY <1>9, <2>1
<1>11. CASE CreateWriteStream
  <2>1. Inside("writer") /\ fds' = Put(fds, NextZip, zero) /\ UNCHANGED <<tree, writes, fdMap, nodeFds>>
    BY <1>11 DEF CreateWriteStream
  <2> QED
    BY <1>9, <2>1
<1> QED
  BY <1>5, <1>6, <1>8, <1>10, <1>11

\* One handle changed, but not what it stands for.
Touched(h, r) ==
    /\ h \in DOMAIN handles /\ DOMAIN handles' = DOMAIN handles
    /\ handles' \in Seq(HandleRecord) /\ handles'[h] = r
    /\ \A g \in DOMAIN handles \ {h} : handles'[g] = handles[g]
    /\ r.kind = handles[h].kind /\ r.fs = handles[h].fs /\ r.fd = handles[h].fd
    /\ r.inner = handles[h].inner /\ r.file = handles[h].file

\* What a change of a file touches.
LEMMA ChangeTouches ==
    ASSUME PfInv, NEW h \in DOMAIN handles, NEW r \in HandleRecord,
           handles' = [handles EXCEPT ![h] = r],
           r.kind = handles[h].kind, r.fs = handles[h].fs, r.fd = handles[h].fd,
           r.inner = handles[h].inner, r.file = handles[h].file
    PROVE  Touched(h, r)
<1>1. handles \in Seq(HandleRecord)
  BY DEF PfInv, PfTypes
<1> QED
  BY <1>1 DEF Touched

\* The numbers, and the shape of the handles, are not touched.
LEMMA NumbersStay ==
    ASSUME PfInv, NEW h, NEW r, Touched(h, r)
    PROVE  NumbersGrow' /\ ZipHandles' = ZipHandles /\ ZipFds' = ZipFds
<1>1. \A g \in DOMAIN handles : /\ handles'[g].kind = handles[g].kind
                                /\ handles'[g].fs = handles[g].fs /\ handles'[g].fd = handles[g].fd
                                /\ handles'[g].inner = handles[g].inner
  BY DEF Touched
<1>2. ZipHandles' = ZipHandles /\ ZipFds' = ZipFds
  BY <1>1 DEF Touched, ZipHandles, ZipFds
<1>3. ZipHandles \subseteq DOMAIN handles /\ ZipFds \subseteq DOMAIN handles
  BY DEF ZipHandles, ZipFds
<1> QED
  BY <1>1, <1>2, <1>3 DEF PfInv, NumbersGrow

\* Closing what is open in the archive; a write stream may have stored its
\* chunks at the same time.
LEMMA ZipClosed ==
    ASSUME PfInv, NEW h, NEW r \in HandleRecord, Touched(h, r), Live(h),
           \/ r.state = "closed"
           \/ r.state = "failed" /\ r.kind = "writer",
           fds' = Drop(fds, handles[h].inner),
           r.kind = "fd" => fdMap' = Drop(fdMap, handles[h].fd) /\ r.got = handles[h].got
                            /\ r.since = handles[h].since,
           r.kind # "fd" => fdMap' = fdMap,
           UNCHANGED nodeFds, tree' \in [Files -> Seq(Things)],
           \/ tree' = tree /\ writes' = writes
           \/ writes' = writes + 1,
           r.kind = "writer" /\ r.state = "closed" =>
               r.since <= writes' /\ tree'[ZipFile] = r.chunks
    PROVE  PfInv'
<1>1. /\ PfTypes /\ HandleShape /\ NumbersGrow /\ TablesLive /\ CursorsRight
      /\ ReadRight /\ WrittenRight
  BY DEF PfInv
<1>2. /\ h \in DOMAIN handles /\ DOMAIN handles' = DOMAIN handles
      /\ handles' \in Seq(HandleRecord) /\ handles'[h] = r
      /\ \A g \in DOMAIN handles \ {h} : handles'[g] = handles[g]
      /\ r.kind = handles[h].kind /\ r.fs = handles[h].fs /\ r.fd = handles[h].fd
      /\ r.inner = handles[h].inner /\ r.file = handles[h].file
  BY DEF Touched
<1>3. /\ LiveHandles \subseteq ZipHandles /\ LiveFds \subseteq ZipFds
      /\ LiveFds \subseteq LiveHandles /\ LiveHandles \subseteq DOMAIN handles
      /\ HostFds \subseteq DOMAIN handles /\ h \in LiveHandles /\ h \notin HostFds
      /\ (h \in LiveFds <=> r.kind = "fd") /\ handles[h].fs = "zip"
  BY <1>2 DEF LiveHandles, LiveFds, ZipHandles, ZipFds, HostFds, Live
<1>4. LiveHandles' = LiveHandles \ {h} /\ LiveFds' = LiveFds \ {h} /\ HostFds' = HostFds
  <2>1. handles'[h].state \notin {"open", "ended"}
    BY <1>2
  <2>2. \A g \in DOMAIN handles \ {h} : (Live(g)' <=> Live(g))
    BY <1>2 DEF Live
  <2>3. ~Live(h)'
    BY <2>1 DEF Live
  <2>4. LiveHandles' = LiveHandles \ {h}
    BY <1>2, <2>2, <2>3 DEF LiveHandles
  <2>5. LiveFds' = LiveFds \ {h}
    BY <1>2, <2>2, <2>3 DEF LiveFds
  <2>6. HostFds' = HostFds
    BY <1>2, <1>3, <2>1 DEF HostFds
  <2> QED
    BY <2>4, <2>5, <2>6
<1>5. /\ \A g \in LiveHandles : handles[g].inner = handles[h].inner => g = h
      /\ r.kind = "fd" => \A g \in LiveFds : handles[g].fd = handles[h].fd => g = h
  BY <1>1, <1>3 DEF NumbersGrow
<1> DEFINE z == handles[h].inner
           m == handles[h].fd
<1>6. DOMAIN fds' = DOMAIN fds \ {z} /\ \A x \in DOMAIN fds' : fds'[x] = fds[x]
  BY DEF Drop
<1>7. r.kind = "fd" => /\ DOMAIN fdMap' = DOMAIN fdMap \ {m}
                       /\ \A x \in DOMAIN fdMap' : fdMap'[x] = fdMap[x]
  BY DEF Drop
<1>8. \A g \in LiveHandles' : handles'[g] = handles[g]
  BY <1>2, <1>3, <1>4
<1> HIDE DEF z, m
<1>9. PfTypes'
  <2>1. writes' \in Nat
    BY <1>1 DEF PfTypes
  <2> QED
    BY <1>1, <1>2, <2>1 DEF PfTypes, HandleRecord, Things, Files
<1>10. HandleShape'
  BY <1>1, <1>2, <1>3 DEF HandleShape
<1>11. NumbersGrow'
  BY NumbersStay
<1>12. TablesLive'
  <2>1. DOMAIN fds' = {handles'[g].inner : g \in LiveHandles'}
    <3>1. {handles'[g].inner : g \in LiveHandles'} = {handles[g].inner : g \in LiveHandles \ {h}}
      BY <1>4, <1>8
    <3>2. DOMAIN fds = {handles[g].inner : g \in LiveHandles}
      BY <1>1 DEF TablesLive
    <3>3. {handles[g].inner : g \in LiveHandles \ {h}} = {handles[g].inner : g \in LiveHandles} \ {z}
      BY <1>3, <1>5 DEF z
    <3> QED
      BY <1>6, <3>1, <3>2, <3>3
  <2>2. {handles'[g].fd : g \in LiveFds'} = {handles[g].fd : g \in LiveFds \ {h}}
    BY <1>3, <1>4, <1>8
  <2>3. DOMAIN fdMap = {handles[g].fd : g \in LiveFds}
    BY <1>1 DEF TablesLive
  <2>4. CASE r.kind = "fd"
    <3>1. {handles[g].fd : g \in LiveFds \ {h}} = {handles[g].fd : g \in LiveFds} \ {m}
      BY <1>3, <1>5, <2>4 DEF m
    <3>2. DOMAIN fdMap' = {handles'[g].fd : g \in LiveFds'}
      BY <1>7, <2>2, <2>3, <2>4, <3>1
    <3>3. \A g \in LiveFds' : fdMap'[handles'[g].fd] = handles'[g].inner
      <4>1. \A g \in LiveFds' : /\ handles'[g] = handles[g] /\ g \in LiveFds
                                /\ handles[g].fd \in DOMAIN fdMap'
        BY <1>3, <1>4, <1>8, <2>2, <3>2
      <4> QED
        BY <1>1, <1>7, <2>4, <4>1 DEF TablesLive
    <3> QED
      BY <2>1, <3>2, <3>3 DEF TablesLive
  <2>5. CASE r.kind # "fd"
    <3>1. LiveFds' = LiveFds /\ fdMap' = fdMap /\ \A g \in LiveFds : handles'[g] = handles[g]
      BY <1>3, <1>4, <1>8, <2>5
    <3>2. LiveFds \ {h} = LiveFds
      BY <1>3, <2>5
    <3>3. DOMAIN fdMap' = {handles'[g].fd : g \in LiveFds'}
      BY <2>2, <2>3, <3>1, <3>2
    <3>4. \A g \in LiveFds' : fdMap'[handles'[g].fd] = handles'[g].inner
      BY <1>1, <3>1 DEF TablesLive
    <3> QED
      BY <2>1, <3>3, <3>4 DEF TablesLive
  <2> QED
    BY <2>4, <2>5
<1>13. CursorsRight'
  <2>1. \A g \in LiveFds' : fds'[handles'[g].inner].cursor = Len(handles'[g].got)
    <3>1. \A g \in LiveFds' : /\ handles'[g] = handles[g] /\ g \in LiveFds
                              /\ handles[g].inner \in DOMAIN fds'
      BY <1>3, <1>4, <1>8, <1>12 DEF TablesLive
    <3> QED
      BY <1>1, <1>6, <3>1 DEF CursorsRight
  <2>2. \A g \in HostFds : handles'[g] = handles[g]
    BY <1>2, <1>3
  <2> QED
    BY <1>1, <1>4, <2>1, <2>2 DEF CursorsRight
<1>14. ReadRight'
  <2>1. \A g \in DOMAIN handles : handles[g] \in HandleRecord
    BY <1>1 DEF PfTypes
  <2>2. \A g \in DOMAIN handles : handles[g].since \in Nat
    BY <2>1 DEF HandleRecord
  <2>3. \A g \in DOMAIN handles : handles'[g].kind = "fd" =>
           /\ handles[g].kind = "fd" /\ handles'[g].since = handles[g].since
           /\ handles'[g].got = handles[g].got /\ handles'[g].file = handles[g].file
    BY <1>2
  <2>4. CASE tree' = tree /\ writes' = writes
    <3>1. \A g \in DOMAIN handles : handles'[g].kind = "fd" =>
             /\ handles'[g].since <= writes
             /\ handles'[g].since = writes /\ tree[handles'[g].file] # Absent =>
                   Begins(handles'[g].got, tree[handles'[g].file])
      BY <1>1, <2>3 DEF ReadRight
    <3> QED
      BY <1>2, <2>4, <3>1 DEF ReadRight, Begins
  <2>5. CASE writes' = writes + 1
    <3>1. \A g \in DOMAIN handles : handles'[g].kind = "fd" =>
             handles'[g].since <= writes' /\ handles'[g].since # writes'
      BY <1>1, <2>2, <2>3, <2>5 DEF ReadRight, PfTypes
    <3> QED
      BY <1>2, <3>1 DEF ReadRight
  <2> QED
    BY <2>4, <2>5
<1>15. WrittenRight'
  <2>1. \A g \in DOMAIN handles : handles[g] \in HandleRecord
    BY <1>1 DEF PfTypes
  <2>2. \A g \in DOMAIN handles : handles[g].since \in Nat
    BY <2>1 DEF HandleRecord
  <2>3. \A g \in DOMAIN handles \ {h} : Is(g, "writer", "closed")' =>
           /\ handles'[g].since <= writes'
           /\ handles'[g].since = writes' => tree'[ZipFile] = handles'[g].chunks
    <3>1. CASE tree' = tree /\ writes' = writes
      BY <1>1, <1>2, <3>1 DEF WrittenRight, Is
    <3>2. CASE writes' = writes + 1
      BY <1>1, <1>2, <2>2, <3>2 DEF WrittenRight, Is, PfTypes
    <3> QED
      BY <3>1, <3>2
  <2> QED
    BY <1>2, <2>3 DEF WrittenRight, Is
<1> QED
  BY <1>9, <1>10, <1>11, <1>12, <1>13, <1>14, <1>15 DEF PfInv

\* A sequence of one byte.
LEMMA OneByte ==
    ASSUME NEW S, NEW d \in Seq(S), NEW m \in 1..Len(d)
    PROVE  /\ SubSeq(d, m, m) \in Seq(S) /\ Len(SubSeq(d, m, m)) = 1
           /\ SubSeq(d, m, m)[1] = d[m]
<1>1. Len(SubSeq(d, m, m)) = 1
  OBVIOUS
<1>2. SubSeq(d, m, m)[1] = d[m]
  OBVIOUS
<1>3. SubSeq(d, m, m) \in Seq(S)
  OBVIOUS
<1> QED
  BY <1>1, <1>2, <1>3

\* What a read of at most one byte gives goes on where the reads have come to.
LEMMA ReadGoesOn ==
    ASSUME NEW got \in Seq(Things), NEW d \in Seq(Things), NEW n \in 0..1
    PROVE  LET bytes == From(Len(got), d, n)
           IN /\ bytes \in Seq(Things) /\ got \o bytes \in Seq(Things)
              /\ Len(got \o bytes) = Len(got) + Len(bytes)
              /\ Begins(got, d) => Begins(got \o bytes, d)
<1> DEFINE c == Len(got)
           bytes == From(c, d, n)
<1>1. c \in Nat /\ Len(d) \in Nat
  OBVIOUS
<1>2. CASE n = 1 /\ c < Len(d)
  <2>1. bytes = SubSeq(d, c + 1, c + 1)
    BY <1>1, <1>2 DEF From
  <2>2. bytes \in Seq(Things) /\ Len(bytes) = 1 /\ bytes[1] = d[c + 1]
    <3> DEFINE m == c + 1
    <3>1. m \in 1..Len(d)
      BY <1>1, <1>2
    <3> HIDE DEF c, m
    <3> QED
      BY <2>1, <3>1, OneByte DEF m
  <2> HIDE DEF bytes
  <2>3. /\ got \o bytes \in Seq(Things) /\ Len(got \o bytes) = c + 1
        /\ (got \o bytes)[c + 1] = d[c + 1]
        /\ \A i \in 1..c : (got \o bytes)[i] = got[i]
    <3>1. /\ got \o bytes \in Seq(Things) /\ Len(got \o bytes) = Len(got) + Len(bytes)
          /\ \A i \in 1..(Len(got) + Len(bytes)) :
                (got \o bytes)[i] = IF i <= Len(got) THEN got[i] ELSE bytes[i - Len(got)]
      BY <2>2, ConcatProperties
    <3>2. \A i \in 1..c : (got \o bytes)[i] = got[i]
      BY <1>1, <2>2, <3>1
    <3>3. (got \o bytes)[c + 1] = bytes[1]
      BY <1>1, <2>2, <3>1
    <3> QED
      BY <2>2, <3>1, <3>2, <3>3
  <2>4. Begins(got, d) => Begins(got \o bytes, d)
    <3>1. \A i \in 1..(c + 1) : i \in 1..c \/ i = c + 1
      BY <1>1
    <3> QED
      BY <1>1, <1>2, <2>3, <3>1 DEF Begins
  <2> QED
    BY <2>2, <2>3, <2>4 DEF bytes
<1>3. CASE ~(n = 1 /\ c < Len(d))
  <2> DEFINE e == IF c + n > Len(d) THEN Len(d) ELSE c + n
  <2>1. e \in Nat /\ e < c + 1
    BY <1>1, <1>3
  <2>2. bytes = SubSeq(d, c + 1, e)
    BY DEF From
  <2> HIDE DEF e
  <2>3. bytes = << >>
    BY <1>1, <2>1, <2>2
  <2> HIDE DEF bytes
  <2>4. got \o bytes = got /\ Len(bytes) = 0 /\ bytes \in Seq(Things)
    BY <2>3
  <2> QED
    BY <2>4 DEF bytes
<1> QED
  BY <1>2, <1>3

\* What goes on inside a directory handle or a stream that stays open.
LEMMA InsideTouched ==
    ASSUME PfInv, NEW h, NEW r \in HandleRecord, Touched(h, r), Live(h), r.kind # "fd",
           \/ r.state = "open"
           \/ r.state = "ended" /\ r.kind = "reader",
           UNCHANGED <<tree, writes, fds, fdMap, nodeFds>>
    PROVE  PfInv'
<1>1. /\ PfTypes /\ HandleShape /\ NumbersGrow /\ TablesLive /\ CursorsRight
      /\ ReadRight /\ WrittenRight
  BY DEF PfInv
<1>2. /\ h \in DOMAIN handles /\ DOMAIN handles' = DOMAIN handles
      /\ handles' \in Seq(HandleRecord) /\ handles'[h] = r
      /\ \A g \in DOMAIN handles \ {h} : handles'[g] = handles[g]
      /\ r.kind = handles[h].kind /\ r.fs = handles[h].fs /\ r.fd = handles[h].fd
      /\ r.inner = handles[h].inner /\ r.file = handles[h].file
  BY DEF Touched
<1>3. \A g \in DOMAIN handles : (Live(g)' <=> Live(g))
  BY <1>2 DEF Live
<1>4. LiveHandles' = LiveHandles
  BY <1>2, <1>3 DEF LiveHandles
<1>5. LiveFds' = LiveFds /\ h \notin LiveFds /\ LiveFds \subseteq DOMAIN handles
  BY <1>2, <1>3 DEF LiveFds
<1>6. HostFds' = HostFds /\ h \notin HostFds /\ HostFds \subseteq DOMAIN handles
  BY <1>2 DEF HostFds, Live
<1>7. PfTypes'
  BY <1>1, <1>2 DEF PfTypes, HandleRecord, Things, Files
<1>8. HandleShape'
  BY <1>1, <1>2 DEF HandleShape
<1>9. NumbersGrow'
  BY NumbersStay
<1>10. TablesLive'
  <2>1. \A g \in LiveHandles : handles'[g].inner = handles[g].inner
    BY <1>2 DEF LiveHandles
  <2>2. {handles'[g].inner : g \in LiveHandles'} = {handles[g].inner : g \in LiveHandles}
    BY <1>4, <2>1
  <2>3. \A g \in LiveFds : handles'[g] = handles[g]
    BY <1>2, <1>5
  <2>4. {handles'[g].fd : g \in LiveFds'} = {handles[g].fd : g \in LiveFds}
    BY <1>5, <2>3
  <2> QED
    BY <1>1, <1>5, <2>2, <2>3, <2>4 DEF TablesLive
<1>11. CursorsRight'
  <2>1. \A g \in LiveFds \cup HostFds : handles'[g] = handles[g]
    BY <1>2, <1>5, <1>6
  <2> QED
    BY <1>1, <1>5, <1>6, <2>1 DEF CursorsRight
<1>12. ReadRight'
  <2>1. \A g \in DOMAIN handles : handles'[g].kind = "fd" =>
           handles[g].kind = "fd" /\ handles'[g] = handles[g]
    BY <1>2
  <2> QED
    BY <1>1, <1>2, <2>1 DEF ReadRight, Begins
<1>13. WrittenRight'
  <2>1. \A g \in DOMAIN handles : handles'[g].state = "closed" => handles'[g] = handles[g]
    BY <1>2
  <2> QED
    BY <1>1, <1>2, <2>1 DEF WrittenRight, Is
<1> QED
  BY <1>7, <1>8, <1>9, <1>10, <1>11, <1>12, <1>13 DEF PfInv

\* A read through a descriptor moves its cursor by what the program was given.
LEMMA ReadMoves ==
    ASSUME PfInv, NEW h, NEW r \in HandleRecord, Touched(h, r), Is(h, "fd", "open"),
           r.state = "open", r.since = handles[h].since,
           tree[handles[h].file] # Absent,
           Begins(handles[h].got, tree[handles[h].file]) => Begins(r.got, tree[handles[h].file]),
           \/ /\ handles[h].fs = "zip" /\ nodeFds' = nodeFds
              /\ DOMAIN fds' = DOMAIN fds /\ fds'[handles[h].inner].cursor = Len(r.got)
              /\ \A x \in DOMAIN fds \ {handles[h].inner} : fds'[x] = fds[x]
           \/ /\ handles[h].fs = "host" /\ fds' = fds
              /\ DOMAIN nodeFds' = DOMAIN nodeFds /\ nodeFds'[handles[h].fd].cursor = Len(r.got)
              /\ \A x \in DOMAIN nodeFds \ {handles[h].fd} : nodeFds'[x] = nodeFds[x],
           UNCHANGED <<tree, writes, fdMap>>
    PROVE  PfInv'
<1>1. /\ PfTypes /\ HandleShape /\ NumbersGrow /\ TablesLive /\ CursorsRight
      /\ ReadRight /\ WrittenRight
  BY DEF PfInv
<1>2. /\ h \in DOMAIN handles /\ DOMAIN handles' = DOMAIN handles
      /\ handles' \in Seq(HandleRecord) /\ handles'[h] = r
      /\ \A g \in DOMAIN handles \ {h} : handles'[g] = handles[g]
      /\ r.kind = handles[h].kind /\ r.fs = handles[h].fs /\ r.fd = handles[h].fd
      /\ r.inner = handles[h].inner /\ r.file = handles[h].file
  BY DEF Touched
<1>3. \A g \in DOMAIN handles :
         /\ handles'[g].kind = handles[g].kind /\ handles'[g].fs = handles[g].fs
         /\ handles'[g].fd = handles[g].fd /\ handles'[g].inner = handles[g].inner
         /\ handles'[g].file = handles[g].file /\ handles'[g].state = handles[g].state
         /\ handles'[g].since = handles[g].since
  BY <1>2 DEF Is
<1>4. LiveHandles' = LiveHandles /\ LiveFds' = LiveFds /\ HostFds' = HostFds
  BY <1>2, <1>3 DEF LiveHandles, LiveFds, HostFds, Live
<1>5. /\ LiveHandles \subseteq ZipHandles /\ LiveFds \subseteq LiveHandles
      /\ LiveHandles \subseteq DOMAIN handles /\ HostFds \subseteq DOMAIN handles
      /\ handles[h].fs = "zip" => h \in LiveFds
      /\ handles[h].fs = "host" => h \in HostFds
      /\ HostFds \cap LiveFds = {}
  BY <1>2 DEF LiveHandles, LiveFds, ZipHandles, HostFds, Live, Is
<1>6. PfTypes'
  BY <1>1, <1>2 DEF PfTypes, HandleRecord, Things, Files
<1>7. HandleShape'
  BY <1>1, <1>2, <1>3 DEF HandleShape
<1>8. NumbersGrow'
  BY NumbersStay
<1>9. TablesLive'
  <2>1. {handles'[g].inner : g \in LiveHandles'} = {handles[g].inner : g \in LiveHandles}
    BY <1>3, <1>4, <1>5
  <2>2. {handles'[g].fd : g \in LiveFds'} = {handles[g].fd : g \in LiveFds}
    BY <1>3, <1>4, <1>5
  <2>3. DOMAIN fds' = DOMAIN fds
    OBVIOUS
  <2> QED
    BY <1>1, <1>3, <1>4, <1>5, <2>1, <2>2, <2>3 DEF TablesLive
<1>10. CursorsRight'
  <2>1. \A g, k \in HostFds' : handles'[g].fd = handles'[k].fd => g = k
    BY <1>1, <1>3, <1>4, <1>5 DEF CursorsRight
  <2>2. \A g \in (LiveFds \cup HostFds) \ {h} : handles'[g] = handles[g]
    BY <1>2, <1>5
  <2>3. CASE handles[h].fs = "zip"
    <3>1. /\ nodeFds' = nodeFds /\ fds'[handles[h].inner].cursor = Len(r.got)
          /\ \A x \in DOMAIN fds \ {handles[h].inner} : fds'[x] = fds[x]
      BY <2>3
    <3>2. h \in LiveFds /\ h \notin HostFds
      BY <1>5, <2>3
    <3>3. \A g \in LiveFds \ {h} : handles[g].inner \in DOMAIN fds \ {handles[h].inner}
      BY <1>1, <1>5, <3>2 DEF TablesLive, NumbersGrow
    <3>4. \A g \in LiveFds \ {h} : fds'[handles'[g].inner].cursor = Len(handles'[g].got)
      BY <1>1, <2>2, <3>1, <3>3 DEF CursorsRight
    <3>5. fds'[handles'[h].inner].cursor = Len(handles'[h].got)
      BY <1>2, <3>1
    <3>6. \A g \in HostFds : /\ handles'[g].fd \in DOMAIN nodeFds'
                             /\ nodeFds'[handles'[g].fd].cursor = Len(handles'[g].got)
      BY <1>1, <2>2, <3>1, <3>2 DEF CursorsRight
    <3> QED
      BY <1>4, <2>1, <3>4, <3>5, <3>6 DEF CursorsRight
  <2>4. CASE handles[h].fs = "host"
    <3>1. /\ fds' = fds /\ nodeFds'[handles[h].fd].cursor = Len(r.got)
          /\ DOMAIN nodeFds' = DOMAIN nodeFds
          /\ \A x \in DOMAIN nodeFds \ {handles[h].fd} : nodeFds'[x] = nodeFds[x]
      BY <2>4
    <3>2. h \in HostFds /\ h \notin LiveFds
      BY <1>5, <2>4
    <3>3. \A g \in HostFds \ {h} : handles[g].fd \in DOMAIN nodeFds \ {handles[h].fd}
      BY <1>1, <3>2 DEF CursorsRight
    <3>4. \A g \in HostFds \ {h} : /\ handles'[g].fd \in DOMAIN nodeFds'
                                   /\ nodeFds'[handles'[g].fd].cursor = Len(handles'[g].got)
      BY <1>1, <2>2, <3>1, <3>3 DEF CursorsRight
    <3>5. /\ handles'[h].fd \in DOMAIN nodeFds'
          /\ nodeFds'[handles'[h].fd].cursor = Len(handles'[h].got)
      BY <1>1, <1>2, <3>1, <3>2 DEF CursorsRight
    <3>6. \A g \in LiveFds : fds'[handles'[g].inner].cursor = Len(handles'[g].got)
      BY <1>1, <2>2, <3>1, <3>2 DEF CursorsRight
    <3> QED
      BY <1>4, <2>1, <3>4, <3>5, <3>6 DEF CursorsRight
  <2> QED
    BY <2>3, <2>4
<1>11. ReadRight'
  <2>1. \A g \in DOMAIN handles \ {h} : handles'[g] = handles[g]
    BY <1>2
  <2>2. handles[h].kind = "fd"
    BY DEF Is
  <2>3. handles[h].since = writes => Begins(r.got, tree[handles[h].file])
    BY <1>1, <1>2, <2>2 DEF ReadRight
  <2> QED
    BY <1>1, <1>2, <2>1, <2>2, <2>3 DEF ReadRight, Begins
<1>12. WrittenRight'
  <2>1. \A g \in DOMAIN handles : handles'[g].state = "closed" => handles'[g] = handles[g]
    BY <1>2
  <2> QED
    BY <1>1, <1>2, <2>1 DEF WrittenRight, Is
<1> QED
  BY <1>6, <1>7, <1>8, <1>9, <1>10, <1>11, <1>12 DEF PfInv

\* Closing a descriptor of the host.
LEMMA HostClosed ==
    ASSUME PfInv, NEW h, NEW r \in HandleRecord, Touched(h, r), Is(h, "fd", "open"),
           handles[h].fs = "host", r.state = "closed", r.since = handles[h].since,
           r.got = handles[h].got, nodeFds' = Drop(nodeFds, handles[h].fd),
           UNCHANGED <<tree, writes, fds, fdMap>>
    PROVE  PfInv'
<1>1. /\ PfTypes /\ HandleShape /\ NumbersGrow /\ TablesLive /\ CursorsRight
      /\ ReadRight /\ WrittenRight
  BY DEF PfInv
<1>2. /\ h \in DOMAIN handles /\ DOMAIN handles' = DOMAIN handles
      /\ handles' \in Seq(HandleRecord) /\ handles'[h] = r
      /\ \A g \in DOMAIN handles \ {h} : handles'[g] = handles[g]
      /\ r.kind = "fd" /\ r.fs = "host" /\ r.file = handles[h].file
  BY DEF Touched, Is
<1>3. /\ LiveHandles \subseteq DOMAIN handles \ {h} /\ LiveFds \subseteq LiveHandles
      /\ HostFds \subseteq DOMAIN handles /\ h \in HostFds
  BY <1>2 DEF LiveHandles, LiveFds, HostFds, Live, Is
<1>4. LiveHandles' = LiveHandles /\ LiveFds' = LiveFds /\ HostFds' = HostFds \ {h}
  BY <1>2, <1>3 DEF LiveHandles, LiveFds, HostFds, Live
<1>5. /\ DOMAIN nodeFds' = DOMAIN nodeFds \ {handles[h].fd}
      /\ \A x \in DOMAIN nodeFds' : nodeFds'[x] = nodeFds[x]
  BY DEF Drop
<1>6. PfTypes'
  <2>1. IsFiniteSet(DOMAIN nodeFds')
    <3> DEFINE m == handles[h].fd
    <3>1. IsFiniteSet(DOMAIN nodeFds) /\ DOMAIN nodeFds' = DOMAIN nodeFds \ {m}
      BY <1>1, <1>5 DEF PfTypes
    <3> HIDE DEF m
    <3> QED
      BY <3>1, FS_RemoveElement
  <2> QED
    BY <1>1, <1>2, <2>1 DEF PfTypes, HandleRecord, Things, Files
<1>7. HandleShape'
  BY <1>1, <1>2 DEF HandleShape
<1>8. NumbersGrow'
  BY NumbersStay
<1>9. \A g \in LiveHandles \cup (HostFds \ {h}) : handles'[g] = handles[g]
  BY <1>2, <1>3
<1>10. TablesLive'
  BY <1>1, <1>3, <1>4, <1>9 DEF TablesLive
<1>11. CursorsRight'
  <2>1. \A g \in HostFds \ {h} : handles[g].fd \in DOMAIN nodeFds'
    BY <1>1, <1>3, <1>5 DEF CursorsRight
  <2> QED
    BY <1>1, <1>3, <1>4, <1>5, <1>9, <2>1 DEF CursorsRight
<1>12. ReadRight'
  <2>1. handles[h].kind = "fd"
    BY DEF Is
  <2> QED
    BY <1>1, <1>2, <2>1 DEF ReadRight, Begins
<1>13. WrittenRight'
  BY <1>1, <1>2 DEF WrittenRight, Is
<1> QED
  BY <1>6, <1>7, <1>8, <1>10, <1>11, <1>12, <1>13 DEF PfInv

\* A file that was changed by its path is no longer what handles have read.
LEMMA ChangeKeeps ==
    ASSUME PfInv, NEW f \in Files, NEW d \in Seq(Things), tree' = [tree EXCEPT ![f] = d],
           writes' = writes + 1, UNCHANGED <<fds, fdMap, nodeFds, handles>>
    PROVE  PfInv'
<1>1. /\ PfTypes /\ HandleShape /\ NumbersGrow /\ TablesLive /\ CursorsRight
      /\ ReadRight /\ WrittenRight
  BY DEF PfInv
<1>2. PfTypes'
  BY <1>1 DEF PfTypes, HandleRecord, Things, Files
<1>3. HandleShape' /\ NumbersGrow' /\ TablesLive' /\ CursorsRight'
  BY <1>1 DEF HandleShape, NumbersGrow, TablesLive, CursorsRight, ZipHandles, ZipFds,
              LiveHandles, LiveFds, HostFds, Live
<1>4. \A h \in DOMAIN handles : handles[h] \in HandleRecord
  BY <1>1 DEF PfTypes
<1>5. \A h \in DOMAIN handles : handles[h].since \in Nat
  BY <1>4 DEF HandleRecord
<1>6. ReadRight' /\ WrittenRight'
  BY <1>1, <1>5 DEF ReadRight, WrittenRight, Is, PfTypes
<1> QED
  BY <1>2, <1>3, <1>6 DEF PfInv

\* What neither changes the files nor what is open.
LEMMA AllSame ==
    ASSUME PfInv, tree' = tree, fds' = fds, fdMap' = fdMap, nodeFds' = nodeFds,
           handles' = handles, writes' = writes
    PROVE  PfInv'
<1>1. PfTypes'
  BY DEF PfInv, PfTypes, HandleRecord, Things, Files
<1>2. HandleShape' /\ NumbersGrow'
  BY DEF PfInv, HandleShape, NumbersGrow, ZipHandles, ZipFds
<1>3. TablesLive' /\ CursorsRight'
  BY DEF PfInv, TablesLive, CursorsRight, LiveHandles, LiveFds, HostFds, Live
<1>4. ReadRight' /\ WrittenRight'
  BY DEF PfInv, ReadRight, WrittenRight, Begins, Is
<1> QED
  BY <1>1, <1>2, <1>3, <1>4 DEF PfInv

\* Each descriptor has a cursor.
Cursored ==
    /\ \A z \in DOMAIN fds : "cursor" \in DOMAIN fds[z]
    /\ \A n \in DOMAIN nodeFds : "cursor" \in DOMAIN nodeFds[n]

\* What is done with one handle.
LEMMA OnHandleKeeps ==
    ASSUME PfInv, Cursored, NEW h \in DOMAIN handles, OnHandle(h)
    PROVE  PfInv'
<1> DEFINE x == handles[h]
<1>1. handles \in Seq(HandleRecord) /\ x \in HandleRecord /\ tree \in [Files -> Seq(Things)]
  BY DEF PfInv, PfTypes
<1>2. /\ x.fs = "host" => x.kind = "fd"
      /\ x.state = "ended" => x.kind = "reader"
      /\ x.state = "failed" => x.kind = "writer"
      /\ x.fs = "zip" => x.file = ZipFile
      /\ x.fs = "host" => x.file = DiskFile
  BY DEF PfInv, HandleShape
<1>3. x.kind # "fd" => x.fs = "zip"
  BY <1>1, <1>2 DEF HandleRecord
<1>4. /\ writes \in Nat /\ ZipFile \in Things /\ ZipFile \in Files /\ DiskFile \in Files
      /\ tree[ZipFile] \in Seq(Things) /\ tree[DiskFile] \in Seq(Things)
  BY <1>1 DEF PfInv, PfTypes, Things, Files
<1>5. \A s \in {"open", "ended", "closed", "failed"} :
         LET r == [x EXCEPT !.state = s]
         IN /\ r \in HandleRecord /\ r.state = s /\ r.kind = x.kind /\ r.fs = x.fs
            /\ r.fd = x.fd /\ r.inner = x.inner /\ r.file = x.file /\ r.since = x.since
            /\ r.got = x.got /\ r.chunks = x.chunks
  BY <1>1 DEF HandleRecord
<1>6. ASSUME NEW s \in {"open", "ended", "closed", "failed"}, Become(h, s)
      PROVE  Touched(h, [x EXCEPT !.state = s])
  <2> DEFINE r == [x EXCEPT !.state = s]
  <2>1. handles' = [handles EXCEPT ![h] = r]
    BY <1>6 DEF Become
  <2>2. /\ r \in HandleRecord /\ r.kind = x.kind /\ r.fs = x.fs
        /\ r.fd = x.fd /\ r.inner = x.inner /\ r.file = x.file
    BY <1>5
  <2> HIDE DEF r
  <2>3. Touched(h, r)
    BY <2>1, <2>2, ChangeTouches
  <2> QED
    BY <2>3 DEF r
<1>7. ASSUME Live(h), x.kind # "fd", Become(h, "closed"), CloseInner(h),
             UNCHANGED <<tree, writes>>, x.kind # "writer"
      PROVE  PfInv'
  <2> DEFINE r == [x EXCEPT !.state = "closed"]
  <2>1. /\ r \in HandleRecord /\ r.state = "closed" /\ r.kind = x.kind /\ Touched(h, r)
    BY <1>5, <1>6, <1>7
  <2>2. fds' = Drop(fds, x.inner) /\ UNCHANGED <<fdMap, nodeFds>>
    BY <1>7 DEF CloseInner
  <2> HIDE DEF r
  <2> QED
    BY <1>1, <1>7, <2>1, <2>2, ZipClosed
<1>8. ASSUME NEW n \in 0..1, NEW move \in BOOLEAN, ReadZip(h, n, move) PROVE PfInv'
  <2>1. /\ Is(h, "fd", "open") /\ x.fs = "zip" /\ tree[ZipFile] # Absent
        /\ UNCHANGED <<tree, writes, fdMap, nodeFds>>
    BY <1>8, Zenon DEF ReadZip, world, paths
  <2>2. h \in LiveFds
    BY <2>1 DEF LiveFds, Live, Is
  <2> DEFINE z == x.inner
             d == tree[ZipFile]
             bytes == From(Len(x.got), d, n)
             r == IF move THEN [x EXCEPT !.got = x.got \o bytes] ELSE x
  <2>3. fdMap[x.fd] = z /\ z \in DOMAIN fds /\ fds[z].cursor = Len(x.got)
    <3>1. LiveFds \subseteq LiveHandles
      BY DEF LiveFds, LiveHandles
    <3> QED
      BY <2>2, <3>1 DEF PfInv, TablesLive, CursorsRight
  <2>4. /\ x.got \in Seq(Things) /\ bytes \in Seq(Things) /\ x.got \o bytes \in Seq(Things)
        /\ Len(x.got \o bytes) = Len(x.got) + Len(bytes)
        /\ Begins(x.got, d) => Begins(x.got \o bytes, d)
    <3>1. x.got \in Seq(Things)
      BY <1>1 DEF HandleRecord
    <3> QED
      BY <1>4, <3>1, ReadGoesOn
  <2>5. /\ fds' = [fds EXCEPT ![z].cursor = Cursor(fds[z].cursor, bytes, move)]
        /\ handles' = IF move THEN [handles EXCEPT ![h].got = x.got \o bytes] ELSE handles
    BY <1>8, <2>3 DEF ReadZip, Given
  <2> HIDE DEF bytes, d, z
  <2>6. /\ r \in HandleRecord /\ r.state = x.state /\ r.kind = x.kind /\ r.fs = x.fs
        /\ r.fd = x.fd /\ r.inner = x.inner /\ r.file = x.file /\ r.since = x.since
    BY <1>1, <2>4 DEF HandleRecord
  <2>7. r.got = IF move THEN x.got \o bytes ELSE x.got
    BY <1>1 DEF HandleRecord
  <2>8. handles' = [handles EXCEPT ![h] = r]
    <3>1. CASE move
      BY <2>5, <3>1
    <3>2. CASE ~move
      BY <1>1, <2>5, <3>2
    <3> QED
      BY <3>1, <3>2
  <2> HIDE DEF r
  <2>9. Touched(h, r)
    BY <2>6, <2>8, ChangeTouches
  <2>10. /\ DOMAIN fds' = DOMAIN fds
         /\ \A y \in DOMAIN fds \ {z} : fds'[y] = fds[y]
    BY <2>5
  <2>11. fds'[z].cursor = Cursor(fds[z].cursor, bytes, move)
    <3>1. fds'[z] = [fds[z] EXCEPT !.cursor = Cursor(fds[z].cursor, bytes, move)]
      BY <2>3, <2>5
    <3>2. "cursor" \in DOMAIN fds[z]
      BY <2>3 DEF Cursored
    <3> QED
      BY <3>1, <3>2
  <2>12. fds'[z].cursor = Len(r.got)
    BY <2>3, <2>4, <2>7, <2>11 DEF Cursor
  <2>13. Begins(x.got, tree[x.file]) => Begins(r.got, tree[x.file])
    BY <1>2, <2>1, <2>4, <2>7 DEF d
  <2>14. x.state = "open" /\ tree[x.file] # Absent
    BY <1>2, <2>1 DEF Is
  <2> QED
    BY <2>1, <2>6, <2>9, <2>10, <2>12, <2>13, <2>14, ReadMoves DEF z
<1>9. ASSUME NEW n \in 0..1, NEW move \in BOOLEAN, ReadHost(h, n, move) PROVE PfInv'
  <2>1. /\ Is(h, "fd", "open") /\ x.fs = "host" /\ tree[DiskFile] # Absent
        /\ UNCHANGED <<tree, writes, fds, fdMap>>
    BY <1>9, Zenon DEF ReadHost, world, paths
  <2>2. h \in HostFds
    BY <2>1 DEF HostFds, Is
  <2> DEFINE z == x.fd
             d == tree[DiskFile]
             bytes == From(Len(x.got), d, n)
             r == IF move THEN [x EXCEPT !.got = x.got \o bytes] ELSE x
  <2>3. z \in DOMAIN nodeFds /\ nodeFds[z].cursor = Len(x.got)
    BY <2>2 DEF PfInv, CursorsRight
  <2>4. /\ x.got \in Seq(Things) /\ bytes \in Seq(Things) /\ x.got \o bytes \in Seq(Things)
        /\ Len(x.got \o bytes) = Len(x.got) + Len(bytes)
        /\ Begins(x.got, d) => Begins(x.got \o bytes, d)
    <3>1. x.got \in Seq(Things)
      BY <1>1 DEF HandleRecord
    <3> QED
      BY <1>4, <3>1, ReadGoesOn
  <2>5. /\ nodeFds' = [nodeFds EXCEPT ![z].cursor = Cursor(nodeFds[z].cursor, bytes, move)]
        /\ handles' = IF move THEN [handles EXCEPT ![h].got = x.got \o bytes] ELSE handles
    BY <1>9, <2>3 DEF ReadHost, Given, Cursor
  <2> HIDE DEF bytes, d, z
  <2>6. /\ r \in HandleRecord /\ r.state = x.state /\ r.kind = x.kind /\ r.fs = x.fs
        /\ r.fd = x.fd /\ r.inner = x.inner /\ r.file = x.file /\ r.since = x.since
    BY <1>1, <2>4 DEF HandleRecord
  <2>7. r.got = IF move THEN x.got \o bytes ELSE x.got
    BY <1>1 DEF HandleRecord
  <2>8. handles' = [handles EXCEPT ![h] = r]
    <3>1. CASE move
      BY <2>5, <3>1
    <3>2. CASE ~move
      BY <1>1, <2>5, <3>2
    <3> QED
      BY <3>1, <3>2
  <2> HIDE DEF r
  <2>9. Touched(h, r)
    BY <2>6, <2>8, ChangeTouches
  <2>10. /\ DOMAIN nodeFds' = DOMAIN nodeFds
         /\ \A y \in DOMAIN nodeFds \ {z} : nodeFds'[y] = nodeFds[y]
    BY <2>5
  <2>11. nodeFds'[z].cursor = Cursor(nodeFds[z].cursor, bytes, move)
    <3>1. nodeFds'[z] = [nodeFds[z] EXCEPT !.cursor = Cursor(nodeFds[z].cursor, bytes, move)]
      BY <2>3, <2>5
    <3>2. "cursor" \in DOMAIN nodeFds[z]
      BY <2>3 DEF Cursored
    <3> QED
      BY <3>1, <3>2
  <2>12. nodeFds'[z].cursor = Len(r.got)
    BY <2>3, <2>4, <2>7, <2>11 DEF Cursor
  <2>13. Begins(x.got, tree[x.file]) => Begins(r.got, tree[x.file])
    BY <1>2, <2>1, <2>4, <2>7 DEF d
  <2>14. x.state = "open" /\ tree[x.file] # Absent
    BY <1>2, <2>1 DEF Is
  <2> QED
    BY <2>1, <2>6, <2>9, <2>10, <2>12, <2>13, <2>14, ReadMoves DEF z
<1>10. CASE CloseZip(h)
  <2>1. /\ x.kind = "fd" /\ x.fs = "zip" /\ Become(h, "closed")
        /\ UNCHANGED <<tree, nodeFds, writes>>
    BY <1>10 DEF CloseZip
  <2>2. CASE Live(h)
    <3> DEFINE r == [x EXCEPT !.state = "closed"]
    <3>1. /\ r \in HandleRecord /\ r.state = "closed" /\ r.kind = x.kind /\ Touched(h, r)
          /\ r.got = x.got /\ r.since = x.since
      BY <1>5, <1>6, <2>1
    <3>2. x.fd \in DOMAIN fdMap /\ fdMap[x.fd] = x.inner
      BY <2>1, <2>2 DEF PfInv, TablesLive, LiveFds
    <3>3. fds' = Drop(fds, x.inner) /\ fdMap' = Drop(fdMap, x.fd)
      BY <1>10, <3>2 DEF CloseZip
    <3> HIDE DEF r
    <3> QED
      BY <1>1, <2>1, <2>2, <3>1, <3>3, ZipClosed
  <2>3. CASE ~Live(h)
    <3>1. x.state = "closed"
      BY <1>1, <1>2, <2>1, <2>3 DEF Live, HandleRecord
    <3>2. x.fd \notin DOMAIN fdMap
      <4>1. h \in ZipFds /\ h \notin LiveFds /\ LiveFds \subseteq ZipFds
        BY <2>1, <2>3 DEF ZipFds, LiveFds, Live
      <4> QED
        BY <4>1 DEF PfInv, TablesLive, NumbersGrow
    <3>3. fds' = fds /\ fdMap' = fdMap
      BY <1>10, <3>2 DEF CloseZip
    <3>4. [x EXCEPT !.state = "closed"] = x
      BY <1>1, <3>1 DEF HandleRecord
    <3>5. handles' = handles
      BY <1>1, <2>1, <3>4 DEF Become
    <3> QED
      BY <2>1, <3>3, <3>5, AllSame
  <2> QED
    BY <2>2, <2>3
<1>11. CASE CloseHost(h)
  <2> DEFINE r == [x EXCEPT !.state = "closed"]
  <2>1. /\ Is(h, "fd", "open") /\ x.fs = "host" /\ Become(h, "closed")
        /\ nodeFds' = Drop(nodeFds, x.fd) /\ UNCHANGED <<tree, fds, fdMap, writes>>
    BY <1>11 DEF CloseHost
  <2>2. /\ r \in HandleRecord /\ r.state = "closed" /\ Touched(h, r)
        /\ r.got = x.got /\ r.since = x.since
    BY <1>5, <1>6, <2>1
  <2> HIDE DEF r
  <2> QED
    BY <2>1, <2>2, HostClosed
<1>12. ASSUME NEW r \in HandleRecord, handles' = [handles EXCEPT ![h] = r], Live(h), x.kind # "fd",
              r.state = "open" \/ (r.state = "ended" /\ r.kind = "reader"),
              r.kind = x.kind, r.fs = x.fs, r.fd = x.fd, r.inner = x.inner, r.file = x.file,
              UNCHANGED <<tree, writes, fds, fdMap, nodeFds>>
       PROVE  PfInv'
  <2>1. Touched(h, r)
    BY <1>12, ChangeTouches
  <2> QED
    BY <1>12, <2>1, InsideTouched
<1>13. CASE ReadDir(h)
  <2>1. x.kind = "dir" /\ x.state = "open" /\ UNCHANGED <<tree, writes, fds, fdMap, nodeFds>>
    BY <1>13, Zenon DEF ReadDir, Is, world, paths
  <2> DEFINE got == IF tree[ZipFile] = Absent THEN x.got ELSE Append(x.got, ZipFile)
             r == [x EXCEPT !.chunks = << >>, !.got = got]
  <2>2. handles' = [handles EXCEPT ![h] = r]
    BY <1>1, <1>13 DEF ReadDir
  <2>3. got \in Seq(Things) /\ << >> \in Seq(Things)
    BY <1>1, <1>4 DEF HandleRecord
  <2> HIDE DEF got
  <2>4. /\ r \in HandleRecord /\ r.state = "open" /\ r.kind = x.kind /\ r.fs = x.fs
        /\ r.fd = x.fd /\ r.inner = x.inner /\ r.file = x.file
    BY <1>1, <2>1, <2>3 DEF HandleRecord
  <2>5. Live(h)
    BY <1>3, <2>1 DEF Live
  <2> HIDE DEF r
  <2> QED
    BY <1>12, <2>1, <2>2, <2>4, <2>5
<1>14. CASE CloseDir(h)
  <2>1. Live(h) /\ x.kind = "dir"
    BY <1>3, <1>14 DEF CloseDir, Is, Live
  <2> QED
    BY <1>7, <1>14, <2>1 DEF CloseDir
<1>15. CASE Immediate(h)
  <2>1. Live(h) /\ x.kind = "reader" /\ UNCHANGED <<tree, writes>>
    BY <1>3, <1>15 DEF Immediate, Is, Live
  <2>2. CASE tree[ZipFile] = Absent
    BY <1>7, <1>15, <2>1, <2>2 DEF Immediate
  <2>3. CASE tree[ZipFile] # Absent
    <3> DEFINE r == [x EXCEPT !.state = "ended", !.got = tree[ZipFile]]
    <3>1. handles' = [handles EXCEPT ![h] = r] /\ UNCHANGED <<fds, fdMap, nodeFds>>
      BY <1>1, <1>15, <2>3 DEF Immediate
    <3>2. /\ r \in HandleRecord /\ r.state = "ended" /\ r.kind = x.kind /\ r.fs = x.fs
          /\ r.fd = x.fd /\ r.inner = x.inner /\ r.file = x.file
      BY <1>1, <1>4 DEF HandleRecord
    <3> HIDE DEF r
    <3> QED
      BY <1>12, <2>1, <3>1, <3>2
  <2> QED
    BY <2>2, <2>3
<1>16. CASE DestroyReader(h)
  <2>1. Live(h) /\ x.kind = "reader"
    BY <1>1, <1>2, <1>3, <1>16 DEF DestroyReader, Live, HandleRecord
  <2> QED
    BY <1>7, <1>16, <2>1 DEF DestroyReader
<1>17. ASSUME NEW wrong \in BOOLEAN, DestroyWriter(h, wrong) PROVE PfInv'
  <2>1. Live(h) /\ x.kind = "writer" /\ fds' = Drop(fds, x.inner) /\ UNCHANGED <<fdMap, nodeFds>>
    BY <1>3, <1>17 DEF DestroyWriter, Is, Live, CloseInner
  <2> DEFINE s == IF wrong THEN "failed" ELSE "closed"
             r == [x EXCEPT !.state = s, !.since = writes + 1]
  <2>2. handles' = [handles EXCEPT ![h] = r]
    BY <1>1, <1>17 DEF DestroyWriter
  <2>3. /\ r \in HandleRecord /\ r.state = s /\ r.kind = x.kind /\ r.fs = x.fs
        /\ r.fd = x.fd /\ r.inner = x.inner /\ r.file = x.file
        /\ r.since = writes + 1 /\ r.chunks = x.chunks /\ x.chunks \in Seq(Things)
    <3>1. writes + 1 \in Nat /\ s \in {"failed", "closed"}
      BY <1>4
    <3> HIDE DEF s
    <3> QED
      BY <1>1, <3>1 DEF HandleRecord
  <2> HIDE DEF r
  <2>4. Touched(h, r)
    BY <2>2, <2>3, ChangeTouches
  <2>5. CASE wrong
    <3>1. tree' = tree /\ writes' = writes /\ r.state = "failed"
      BY <1>17, <2>3, <2>5 DEF DestroyWriter
    <3> QED
      BY <1>1, <2>1, <2>3, <2>4, <3>1, ZipClosed
  <2>6. CASE ~wrong
    <3>1. /\ tree' = [tree EXCEPT ![ZipFile] = x.chunks] /\ writes' = writes + 1
          /\ r.state = "closed"
      BY <1>17, <2>3, <2>6 DEF DestroyWriter
    <3>2. tree' \in [Files -> Seq(Things)] /\ tree'[ZipFile] = r.chunks /\ r.since <= writes'
      BY <1>1, <1>4, <2>3, <3>1
    <3> QED
      BY <2>1, <2>3, <2>4, <3>1, <3>2, ZipClosed
  <2> QED
    BY <2>5, <2>6
<1>18. ASSUME NEW c \in {"a", "b"}, WriteChunk(h, c) PROVE PfInv'
  <2>1. /\ Live(h) /\ x.kind = "writer" /\ x.state = "open"
        /\ UNCHANGED <<tree, writes, fds, fdMap, nodeFds>>
    BY <1>3, <1>18 DEF WriteChunk, Is, Live
  <2> DEFINE r == [x EXCEPT !.chunks = Append(x.chunks, c)]
  <2>2. handles' = [handles EXCEPT ![h] = r]
    BY <1>1, <1>18 DEF WriteChunk
  <2>3. Append(x.chunks, c) \in Seq(Things)
    <3>1. x.chunks \in Seq(Things) /\ c \in Things
      BY <1>1 DEF HandleRecord, Things
    <3> QED
      BY <3>1
  <2>4. /\ r \in HandleRecord /\ r.state = "open" /\ r.kind = x.kind /\ r.fs = x.fs
        /\ r.fd = x.fd /\ r.inner = x.inner /\ r.file = x.file
    BY <1>1, <2>1, <2>3 DEF HandleRecord
  <2> HIDE DEF r
  <2> QED
    BY <1>12, <2>1, <2>2, <2>4
<1> QED
  BY <1>8, <1>9, <1>10, <1>11, <1>13, <1>14, <1>15, <1>16, <1>17, <1>18 DEF OnHandle

\* Descriptors come with a cursor and keep it.
LEMMA CursoredNext ==
    ASSUME Cursored, [PfNext]_pfVars
    PROVE  Cursored'
<1>1. ASSUME NEW f, NEW x, NEW v, "cursor" \in DOMAIN v, \A y \in DOMAIN f : "cursor" \in DOMAIN f[y]
      PROVE  \A y \in DOMAIN Put(f, x, v) : "cursor" \in DOMAIN Put(f, x, v)[y]
  BY <1>1 DEF Put
<1>2. ASSUME NEW f, NEW x, \A y \in DOMAIN f : "cursor" \in DOMAIN f[y]
      PROVE  \A y \in DOMAIN Drop(f, x) : "cursor" \in DOMAIN Drop(f, x)[y]
  BY <1>2 DEF Drop
<1>3. ASSUME NEW f, NEW x, NEW c, \A y \in DOMAIN f : "cursor" \in DOMAIN f[y]
      PROVE  \A y \in DOMAIN [f EXCEPT ![x].cursor = c] :
                "cursor" \in DOMAIN [f EXCEPT ![x].cursor = c][y]
  BY <1>3
<1>4. ASSUME NEW f \in Files PROVE "cursor" \in DOMAIN [cursor |-> 0, file |-> f]
  OBVIOUS
<1>5. ZipFile \in Files /\ DiskFile \in Files
  BY DEF Files
<1>6. ASSUME fds' = fds, nodeFds' = nodeFds PROVE Cursored'
  BY <1>6 DEF Cursored
<1>7. ASSUME NEW x, fds' = Put(fds, x, [cursor |-> 0, file |-> ZipFile]), nodeFds' = nodeFds
      PROVE  Cursored'
  BY <1>1, <1>4, <1>5, <1>7 DEF Cursored
<1>8. ASSUME NEW x, fds' = Drop(fds, x), nodeFds' = nodeFds PROVE Cursored'
  BY <1>2, <1>8 DEF Cursored
<1>9. ASSUME NEW h \in DOMAIN handles, OnHandle(h) PROVE Cursored'
  <2>1. ASSUME NEW n \in 0..1, NEW move \in BOOLEAN, ReadZip(h, n, move) PROVE Cursored'
    <3>1. /\ nodeFds' = nodeFds
          /\ \E x, c : fds' = [fds EXCEPT ![x].cursor = c]
      BY <2>1 DEF ReadZip
    <3> QED
      BY <1>3, <3>1 DEF Cursored
  <2>2. ASSUME NEW n \in 0..1, NEW move \in BOOLEAN, ReadHost(h, n, move) PROVE Cursored'
    <3>1. /\ fds' = fds
          /\ \E x, c : nodeFds' = [nodeFds EXCEPT ![x].cursor = c]
      BY <2>2 DEF ReadHost
    <3> QED
      BY <1>3, <3>1 DEF Cursored
  <2>3. CASE CloseZip(h)
    BY <1>6, <1>8, <2>3 DEF CloseZip
  <2>4. CASE CloseHost(h)
    <3>1. fds' = fds /\ nodeFds' = Drop(nodeFds, handles[h].fd)
      BY <2>4 DEF CloseHost
    <3> QED
      BY <1>2, <3>1 DEF Cursored
  <2>5. CASE CloseDir(h) \/ DestroyReader(h)
    BY <1>8, <2>5 DEF CloseDir, DestroyReader, CloseInner
  <2>6. CASE Immediate(h)
    BY <1>6, <1>8, <2>6 DEF Immediate, CloseInner
  <2>7. ASSUME NEW wrong \in BOOLEAN, DestroyWriter(h, wrong) PROVE Cursored'
    BY <1>8, <2>7 DEF DestroyWriter, CloseInner
  <2>8. CASE ReadDir(h)
    BY <1>6, <2>8, Zenon DEF ReadDir
  <2>9. ASSUME NEW c \in {"a", "b"}, WriteChunk(h, c) PROVE Cursored'
    BY <1>6, <2>9 DEF WriteChunk
  <2> QED
    BY <1>9, <2>1, <2>2, <2>3, <2>4, <2>5, <2>6, <2>7, <2>8, <2>9 DEF OnHandle
<1>10. ASSUME NEW f \in Files, NEW v \in {"yes", "no"}, OnPath(f, v) PROVE Cursored'
  BY <1>6, <1>10 DEF OnPath, QueryPath, AskPath, ChangePath
<1>11. ASSUME NEW v \in {"yes", "no"}, NEW w \in {"yes", "no"}, PairPaths(v, w) PROVE Cursored'
  BY <1>6, <1>11 DEF PairPaths
<1>12. ASSUME NEW v \in {"yes", "no"}, OpenZip(v) PROVE Cursored'
  BY <1>7, <1>12 DEF OpenZip
<1>13. ASSUME NEW v \in {"yes", "no"}, OpenHost(v) PROVE Cursored'
  BY <1>1, <1>4, <1>5, <1>13 DEF OpenHost, Cursored
<1>14. CASE OpenDir \/ CreateReadStream \/ CreateWriteStream
  BY <1>7, <1>14 DEF OpenDir, CreateReadStream, CreateWriteStream
<1>15. CASE UNCHANGED pfVars
  BY <1>6, <1>15 DEF pfVars
<1> QED
  BY <1>9, <1>10, <1>11, <1>12, <1>13, <1>14, <1>15 DEF PfNext

\* Every step keeps it.
LEMMA PfStepInv == PfInv /\ Cursored /\ [PfNext]_pfVars => PfInv' /\ Cursored'
<1> SUFFICES ASSUME PfInv, Cursored, [PfNext]_pfVars PROVE PfInv' /\ Cursored'
  OBVIOUS
<1>1. Datas \cup {Absent} \subseteq Seq(Things)
  <2>1. <<"absent">> \in Seq(Things)
    BY DEF Things
  <2>2. Datas \subseteq Seq(Things)
    BY FilesAssumption DEF Things
  <2> QED
    BY <2>1, <2>2 DEF Absent
<1>2. ASSUME NEW f \in Files, NEW v \in {"yes", "no"}, OnPath(f, v) PROVE PfInv'
  <2>1. ASSUME NEW d \in Datas \cup {Absent}, ChangePath(f, v, d) PROVE PfInv'
    <3>1. d \in Seq(Things)
      BY <1>1
    <3>2. /\ tree' = [tree EXCEPT ![f] = d] /\ writes' = writes + 1
          /\ UNCHANGED <<fds, fdMap, nodeFds, handles>>
      BY <2>1 DEF ChangePath
    <3> QED
      BY <3>1, <3>2, ChangeKeeps
  <2>2. CASE QueryPath(f, v) \/ AskPath(f, v)
    BY <2>2, AllSame DEF QueryPath, AskPath
  <2> QED
    BY <1>2, <2>1, <2>2 DEF OnPath
<1>3. ASSUME NEW v \in {"yes", "no"}, NEW w \in {"yes", "no"}, PairPaths(v, w) PROVE PfInv'
  BY <1>3, AllSame DEF PairPaths
<1>4. ASSUME UNCHANGED pfVars PROVE PfInv'
  <2>1. /\ tree' = tree /\ fds' = fds /\ fdMap' = fdMap /\ nodeFds' = nodeFds
        /\ handles' = handles /\ writes' = writes
    BY <1>4 DEF pfVars
  <2> QED
    BY <2>1, AllSame
<1>5. PfInv'
  BY <1>2, <1>3, <1>4, OnHandleKeeps, OpeningKeeps DEF PfNext
<1> QED
  BY <1>5, CursoredNext

\* What has begun as another does is what the other begins with.
LEMMA BeginsIsSubSeq ==
    ASSUME NEW S, NEW s \in Seq(S), NEW t \in Seq(S), Begins(s, t)
    PROVE  s = SubSeq(t, 1, Len(s))
<1> DEFINE n == Len(s)
           u == SubSeq(t, 1, n)
<1>1. n \in Nat /\ n <= Len(t) /\ Len(t) \in Nat /\ \A i \in 1..n : s[i] = t[i]
  BY DEF Begins
<1>2. u \in Seq(S) /\ Len(u) = n
  BY <1>1
<1>3. \A i \in 1..n : u[i] = t[i]
  BY <1>1
<1> HIDE DEF u
<1>4. s = u
  BY <1>1, <1>2, <1>3
<1> QED
  BY <1>4 DEF u

\* For any number of handles opened, read, closed twice and destroyed in any
\* order, and any changes of the files: the archive holds a descriptor for
\* each thing that is open and for nothing else, reads one after the other
\* give the file in order, and a stream has stored what it was given.
THEOREM HandlesTrueAlways == PfSpec => []HandlesTrue
<1>1. PfInv => HandlesTrue
  <2> SUFFICES ASSUME PfInv PROVE HandlesTrue
    OBVIOUS
  <2>1. FdsHeld
    <3>1. \A g, h \in DOMAIN handles :
             Live(g) /\ Live(h) /\ handles[g].inner = handles[h].inner => g = h
      BY DEF PfInv, NumbersGrow, ZipHandles, Live
    <3>2. /\ DOMAIN fds = {handles[h].inner : h \in {g \in DOMAIN handles : Live(g)}}
          /\ DOMAIN fdMap = {handles[h].fd : h \in
                               {g \in DOMAIN handles : Live(g) /\ handles[g].kind = "fd"}}
      BY DEF PfInv, TablesLive, LiveHandles, LiveFds
    <3> QED
      BY <3>1, <3>2 DEF FdsHeld
  <2>2. ReadsInOrder
    <3> SUFFICES ASSUME NEW h \in DOMAIN handles, handles[h].kind = "fd",
                        handles[h].since = writes, tree[handles[h].file] # Absent
                 PROVE  handles[h].got = SubSeq(tree[handles[h].file], 1, Len(handles[h].got))
      BY DEF ReadsInOrder
    <3>1. handles[h] \in HandleRecord
      BY DEF PfInv, PfTypes
    <3>2. handles[h].got \in Seq(Things) /\ tree[handles[h].file] \in Seq(Things)
      BY <3>1 DEF PfInv, PfTypes, HandleRecord
    <3>3. Begins(handles[h].got, tree[handles[h].file])
      BY DEF PfInv, ReadRight
    <3> QED
      BY <3>2, <3>3, BeginsIsSubSeq
  <2>3. StreamStored
    BY DEF PfInv, WrittenRight, StreamStored
  <2> QED
    BY <2>1, <2>2, <2>3 DEF HandlesTrue
<1>2. PfInit => Cursored
  BY DEF PfInit, Cursored
<1> QED
  BY <1>1, <1>2, PfInitInv, PfStepInv, PTL DEF PfSpec
=============================================================================
