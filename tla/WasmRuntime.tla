----------------------------- MODULE WasmRuntime ----------------------------
(* The one instance of libzip in a process: how it is loaded, its memory,   *)
(* which grows, and what ZipFS does through that memory.  One call runs     *)
(* after the other, but whatever it asks of libzip may let the memory grow, *)
(* and then every view of it there was is of no use.  External: libzip's    *)
(* own code, and whether the engine has the memory it is asked for.         *)
EXTENDS Naturals, Sequences, FiniteSets, FiniteSetsExt

CONSTANTS
    Page, MinHeap, MaxHeap,     \* sizes, all in one unit
    MaxTries, MaxLeaks          \* bounds: attempts to load libzip, memory lost by aborts

ASSUME HeapAssumption ==
    /\ Page \in Nat \ {0} /\ MinHeap \in Nat \ {0}
    /\ MaxHeap \in Nat /\ MinHeap <= MaxHeap

VARIABLES
    cached,     \* webpack's cache of the module: "absent", "partial", "loaded"
    mod,        \* of getLibzipSync: "null" or "interface"
    tries,      \* how often getLibzipSync began to load it
    size,       \* of the memory
    buffer,     \* the ArrayBuffer of the memory, counted
    views,      \* the one HEAP8, HEAPU8... are views of
    used,       \* what malloc has given out
    owned,      \* what of it belongs to libzip
    leaked,     \* history: what nobody will free
    stack,      \* the stack pointer, from its base
    call        \* the call that runs

wrVars == <<cached, mod, tries, size, buffer, views, used, owned, leaked, stack, call>>
loading == <<cached, mod, tries>>
memory == <<size, buffer, views>>

NoCall == [op |-> "none", todo |-> << >>, n |-> 0, block |-> "none", view |-> 0]

WrInit ==
    /\ cached = "absent" /\ mod = "null" /\ tries = 0
    /\ size = 0 /\ buffer = 0 /\ views = 0
    /\ used = 0 /\ owned = 0 /\ leaked = 0 /\ stack = 0 /\ call = NoCall

-----------------------------------------------------------------------------
(* getLibzipSync, the module cache and the start of the runtime.            *)

\* The instance and its memory; initRuntime, preMain, postRun; the interface
\* takes its four scratch variables at once.
createWasm == size' = MinHeap /\ buffer' = 1 /\ views' = 1
run == cached' = "loaded"
makeInterface == mod' = "interface" /\ used' = 1 /\ owned' = 1

\* getLibzipSync
Load ==
    /\ cached = "absent" /\ tries < MaxTries /\ tries' = tries + 1
    /\ createWasm /\ run /\ makeInterface
    /\ UNCHANGED <<leaked, stack, call>>

\* No memory, or no instance: what was exported so far stays in the cache.
LoadFails ==
    /\ cached = "absent" /\ tries < MaxTries /\ tries' = tries + 1
    /\ cached' = "partial"
    /\ UNCHANGED <<mod, memory, used, owned, leaked, stack, call>>

\* The next attempt gets that, and makeInterface finds no _malloc in it.
LoadAgain ==
    /\ cached = "partial" /\ tries < MaxTries /\ tries' = tries + 1
    /\ UNCHANGED <<cached, mod, memory, used, owned, leaked, stack, call>>

-----------------------------------------------------------------------------
(* emscripten_resize_heap: a fifth more than there was, or a tenth, or a    *)
(* twentieth, but what was requested at least.                              *)

alignUp(x, multiple) == ((x + multiple - 1) \div multiple) * multiple
OverGrown(cutDown) == size + (size \div (5 * cutDown))
NewSize(requested, cutDown) ==
    Min({MaxHeap, alignUp(Max({MinHeap, requested, OverGrown(cutDown)}), Page)})

\* emscripten_realloc_buffer and updateGlobalBufferAndViews
Grow(new) == size' = new /\ buffer' = buffer + 1 /\ views' = buffer'

\* What n more takes: nothing, a growth that one of the attempts gets, or
\* there is none to be had.
Enough(n) == used + n <= size /\ UNCHANGED memory
Grows(n) ==
    /\ used + n > size /\ used + n <= MaxHeap
    /\ \E cutDown \in {1, 2, 4} : Grow(NewSize(used + n, cutDown))
Room(n) == Enough(n) \/ Grows(n)
NoRoom(n) == used + n > size /\ UNCHANGED memory

-----------------------------------------------------------------------------
(* The calls of ZipFS, step by step.                                        *)

\* Mutant: the view is taken before the read.
OrderViewFirst(op) ==
    CASE op = "store" -> <<"malloc", "view", "set", "give">>
      [] op = "load" -> <<"malloc", "open", "view", "read", "copy", "free">>
      [] op = "name" -> <<"push", "ask", "pop">>

\* allocateBuffer for a source; getFileSource and getBufferAndClose; a
\* function of libzip that takes strings
Order(op) ==
    CASE op = "store" -> <<"malloc", "view", "set", "give">>
      [] op = "load" -> <<"malloc", "open", "read", "view", "copy", "free">>
      [] op = "name" -> <<"push", "ask", "pop">>

Call(op, n) ==
    /\ mod = "interface" /\ call = NoCall
    /\ call' = [op |-> op, todo |-> Order(op), n |-> n, block |-> "none", view |-> 0]
    /\ UNCHANGED <<loading, memory, used, owned, leaked, stack>>

Doing(step) == call.todo # << >> /\ Head(call.todo) = step
Done(c) == IF Tail(c.todo) = << >> THEN NoCall ELSE [c EXCEPT !.todo = Tail(@)]

Malloc ==
    /\ Doing("malloc") /\ Room(call.n) /\ used' = used + call.n
    /\ call' = Done([call EXCEPT !.block = "own"])
    /\ UNCHANGED <<loading, owned, leaked, stack>>

\* allocateBuffer throws; getFileSource goes on with address zero.
MallocFails ==
    /\ Doing("malloc") /\ NoRoom(call.n)
    /\ call' = IF call.op = "store" THEN NoCall ELSE Done([call EXCEPT !.block = "null"])
    /\ UNCHANGED <<loading, used, owned, leaked, stack>>

\* A call into libzip, which may take memory for itself and keep it.
Libzip ==
    /\ call.todo # << >> /\ Head(call.todo) \in {"open", "read", "ask"}
    /\ \E m \in 0..1 : Room(m) /\ used' = used + m /\ owned' = owned + m
    /\ call' = Done(call)
    /\ UNCHANGED <<loading, leaked, stack>>

FreeBlock == IF call.block = "own" THEN call.n ELSE 0

\* Mutant: the buffer is not freed on an error.
LibzipFailsLeaking ==
    /\ (Doing("open") \/ Doing("read")) /\ call' = NoCall
    /\ UNCHANGED <<loading, memory, used, owned, leaked, stack>>

\* An error of libzip's is thrown; finally frees the buffer.
LibzipFails ==
    /\ (Doing("open") \/ Doing("read")) /\ call' = NoCall /\ used' = used - FreeBlock
    /\ UNCHANGED <<loading, memory, owned, leaked, stack>>

\* abort() throws through ccall, which does not put the stack back.
Aborts ==
    /\ Doing("ask") /\ leaked < MaxLeaks /\ call' = NoCall /\ leaked' = leaked + call.n
    /\ UNCHANGED <<loading, memory, used, owned, stack>>

\* HEAPU8 through the getter, or the buffer of it
View ==
    /\ Doing("view") /\ call' = Done([call EXCEPT !.view = views])
    /\ UNCHANGED <<loading, memory, used, owned, leaked, stack>>
SetOrCopy ==
    /\ Doing("set") \/ Doing("copy")
    /\ call' = Done(call) /\ UNCHANGED <<loading, memory, used, owned, leaked, stack>>

\* The source takes the block, or cannot be made: then one of the two who ask
\* frees the block and the other forgets it.
Give ==
    /\ Doing("give") /\ call' = NoCall
    /\ \/ owned' = owned + call.n /\ UNCHANGED <<used, leaked>>
       \/ used' = used - call.n /\ UNCHANGED <<owned, leaked>>
       \/ leaked' = leaked + call.n /\ UNCHANGED <<used, owned>>
    /\ UNCHANGED <<loading, memory, stack>>
Free ==
    /\ Doing("free") /\ call' = NoCall /\ used' = used - FreeBlock
    /\ UNCHANGED <<loading, memory, owned, leaked, stack>>

\* stackSave and stackAlloc, stackRestore
Push ==
    /\ Doing("push") /\ stack' = stack + call.n /\ call' = Done(call)
    /\ UNCHANGED <<loading, memory, used, owned, leaked>>
Pop ==
    /\ Doing("pop") /\ stack' = stack - call.n /\ call' = NoCall
    /\ UNCHANGED <<loading, memory, used, owned, leaked>>

\* libzip frees what it owns when an archive is closed.
CloseArchive ==
    /\ call = NoCall /\ owned > 1 /\ used' = used - (owned - 1) /\ owned' = 1
    /\ UNCHANGED <<loading, memory, leaked, stack, call>>

WrNext ==
    \/ Load \/ LoadFails \/ LoadAgain
    \/ \E op \in {"store", "load", "name"}, n \in 1..3 : Call(op, n)
    \/ Malloc \/ MallocFails \/ Libzip \/ LibzipFails \/ View \/ SetOrCopy \/ Give \/ Free
    \/ Aborts \/ Push \/ Pop \/ CloseArchive

WrSpec == WrInit /\ [][WrNext]_wrVars

-----------------------------------------------------------------------------
\* "Those are getters because they can change after memory growth": whatever
\* libzip does in between, bytes are moved through a view of the memory as it
\* is, and what was given out lies inside.
ViewsFresh ==
    /\ mod = "interface" => cached = "loaded" /\ views = buffer
    /\ Doing("set") \/ Doing("copy") => call.view = buffer
    /\ used <= size /\ size <= MaxHeap

\* Between two calls all memory that is in use is libzip's, but for what the
\* two known paths have lost, the stack of calls that aborted included.
BlocksAccounted ==
    call = NoCall => used + stack = owned + leaked
=============================================================================
