-------------------------------- MODULE Goof --------------------------------
(* The to-do application of yarn2-goof: requests that read and write to-dos *)
(* in MongoDB between callbacks, a chat kept in memory, and what a start    *)
(* puts into its two databases.  An exception in a callback of mongoose     *)
(* ends the process; whoever started it starts it again.                    *)
EXTENDS Naturals, Sequences, Filters, Functions

CONSTANTS
    Requests,       \* the requests in one run, each for a to-do of its own name
    Todos,
    MaxMessages,    \* bounds: messages of the chat, starts of the process
    MaxStarts

VARIABLES
    about,          \* what a behaviour is about: "todos", or the "chat" and the start
    todos,          \* the to-dos in the database, with a version of the content
    request,        \* what each request asks for and where it is
    answer,         \* what it was answered
    saving,         \* saves of an import nobody waits for
    kept,           \* to-dos that were in the database at one time
    people,         \* requests whose user MySQL has
    messages,       \* the chat
    lastId,
    taken,          \* how many messages the last deletion took
    up, starts, admins, seeded

todoVars == <<todos, request, answer, saving, kept, people>>
chatVars == <<messages, lastId, taken>>
processVars == <<up, starts, admins, seeded>>
gfVars == <<about, todoVars, chatVars, processVars>>

-----------------------------------------------------------------------------
NoRequest == [kind |-> "none", at |-> "none", todo |-> "none", doc |-> 0]

GfInit ==
    /\ about \in {"todos", "chat"}
    /\ todos = [t \in Todos |-> 0] /\ kept = {} /\ saving = {} /\ people = {}
    /\ request = [r \in Requests |-> NoRequest] /\ answer = [r \in Requests |-> << >>]
    /\ messages = << >> /\ lastId = 1 /\ taken = 0
    /\ up = "yes" /\ starts = 1 /\ admins = "looking" /\ seeded = 0

Kinds == {"index", "edit", "create", "destroy", "update", "import", "admin", "users", "addUser"}

Receive(r, kind, t) ==
    /\ up = "yes" /\ request[r].kind = "none" /\ (about = "chat" => kind = "update")
    /\ request' = [request EXCEPT ![r] = [kind |-> kind, at |-> "called", todo |-> t, doc |-> 0]]
    /\ UNCHANGED <<about, todos, answer, saving, kept, people, chatVars, processVars>>

Is(r, kinds, at) == up = "yes" /\ request[r].kind \in kinds /\ request[r].at = at
Goes(r, at) == request' = [request EXCEPT ![r].at = at]
Says(r, what) == answer' = [answer EXCEPT ![r] = Append(@, what)]
Stores(t, v) == todos' = [todos EXCEPT ![t] = v] /\ kept' = kept \cup {t}

-----------------------------------------------------------------------------
(* routes/index.js                                                          *)

\* index and edit render what they find.
Find(r) ==
    /\ Is(r, {"index", "edit"}, "called") /\ Goes(r, "done")
    /\ \E what \in {"page", "error"} : Says(r, what)
    /\ UNCHANGED <<todos, saving, kept>>

\* Mutant: the answer does not wait for the save.
CreateAtOnce(r) ==
    /\ Is(r, {"create"}, "called") /\ Goes(r, "done") /\ Says(r, "stored")
    /\ saving' = saving \cup {<<r, request[r].todo>>} /\ UNCHANGED <<todos, kept>>

Create(r) ==
    /\ Is(r, {"create"}, "called") /\ Goes(r, "done") /\ UNCHANGED saving
    /\ \/ Stores(request[r].todo, 1) /\ Says(r, "stored")
       \/ Says(r, "error") /\ UNCHANGED <<todos, kept>>

\* A to-do that is not there is null: remove() of it throws into an empty
\* catch, so there is no answer.
DestroyFinds(r) ==
    /\ Is(r, {"destroy"}, "called") /\ UNCHANGED <<todos, answer, saving, kept>>
    /\ Goes(r, IF todos[request[r].todo] = 0 THEN "silent" ELSE "found")
DestroyRemoves(r) ==
    /\ Is(r, {"destroy"}, "found") /\ Goes(r, "done") /\ UNCHANGED <<saving, kept>>
    /\ \/ todos' = [todos EXCEPT ![request[r].todo] = 0] /\ Says(r, "redirect")
       \/ Says(r, "error") /\ UNCHANGED todos

\* The same null in update throws out of mongoose's callback.
UpdateFinds(r) ==
    /\ Is(r, {"update"}, "called") /\ todos[request[r].todo] # 0
    /\ Goes(r, "found") /\ UNCHANGED <<todos, answer, saving, kept>>
UpdateThrows(r) == Is(r, {"update"}, "called") /\ todos[request[r].todo] = 0
UpdateSaves(r) ==
    LET t == request[r].todo
    IN /\ Is(r, {"update"}, "found") /\ Goes(r, "done") /\ UNCHANGED <<saving, kept>>
       /\ \/ /\ todos' = IF todos[t] = 0 THEN todos ELSE [todos EXCEPT ![t] = 2]
             /\ Says(r, "redirect")
          \/ Says(r, "error") /\ UNCHANGED todos

\* import answers while its to-dos are being saved; an error comes too late
\* for an answer, but next() is called with it.
Import(r) ==
    /\ Is(r, {"import"}, "called") /\ Goes(r, "done") /\ UNCHANGED <<todos, kept>>
    /\ \/ saving' = saving \cup {<<r, request[r].todo>>} /\ Says(r, "redirect")
       \/ saving' = saving /\ Says(r, "nothing")
SaveEnds(r, t) ==
    /\ <<r, t>> \in saving /\ saving' = saving \ {<<r, t>>} /\ UNCHANGED request
    /\ \/ Stores(t, 1) /\ UNCHANGED answer
       \/ Says(r, "late") /\ UNCHANGED <<todos, kept>>

\* A query that fails leaves users undefined, and the callback of mongoose
\* throws at users.length.
AdminFinds(r) ==
    /\ Is(r, {"admin"}, "called") /\ Goes(r, "done") /\ Says(r, "page")
    /\ UNCHANGED <<todos, saving, kept>>
AdminThrows(r) == Is(r, {"admin"}, "called")

\* routes/users.js: nobody catches what find() rejects with, so there is no
\* answer then; a failed save ends in next(), which finds no page.
UsersFind(r) ==
    /\ Is(r, {"users"}, "called") /\ UNCHANGED <<todos, saving, kept>>
    /\ \/ Goes(r, "done") /\ Says(r, "page")
       \/ Goes(r, "silent") /\ UNCHANGED answer
AddUser(r) ==
    /\ Is(r, {"addUser"}, "called") /\ Goes(r, "done") /\ UNCHANGED <<todos, saving, kept>>
    /\ \/ people' = people \cup {r} /\ Says(r, "added")
       \/ UNCHANGED people /\ Says(r, "next")

TodoRoute(r) ==
    \/ Find(r) \/ Create(r) \/ DestroyFinds(r) \/ DestroyRemoves(r)
    \/ UpdateFinds(r) \/ UpdateSaves(r) \/ Import(r) \/ AdminFinds(r) \/ UsersFind(r)
    \/ \E t \in Todos : up = "yes" /\ SaveEnds(r, t)

TodoStep(r) ==
    /\ AddUser(r) \/ (UNCHANGED people /\ TodoRoute(r))
    /\ UNCHANGED <<about, chatVars, processVars>>

-----------------------------------------------------------------------------
(* The chat: what a message brings itself is merged first, so the           *)
(* application's own id wins.                                               *)

MessageId(own, id) == id

ChatAdd(user, own) ==
    /\ about = "chat" /\ up = "yes" /\ Len(messages) < MaxMessages /\ lastId <= 2 * MaxMessages
    /\ messages' = Append(messages, [id |-> MessageId(own, lastId), user |-> user])
    /\ lastId' = lastId + 1 /\ taken' = 0
    /\ UNCHANGED <<about, todoVars, processVars>>
ChatDelete(id) ==
    /\ about = "chat" /\ up = "yes" /\ messages' = Only(messages, {m \in Range(messages) : m.id # id})
    /\ taken' = Len(messages) - Len(messages')
    /\ UNCHANGED <<about, lastId, todoVars, processVars>>

-----------------------------------------------------------------------------
(* The process: mongoose-db.js looks for the admin and adds it when there   *)
(* is none, typeorm-db.js inserts its two users at every start.             *)

Seed ==
    /\ about = "chat" /\ up = "yes" /\ UNCHANGED <<about, up, starts, todoVars, chatVars>>
    /\ \/ admins = "looking" /\ admins' \in {"missing", "there"} /\ UNCHANGED seeded
       \/ admins = "missing" /\ admins' = "there" /\ UNCHANGED seeded
       \/ seeded < 2 * starts /\ seeded' = seeded + 1 /\ UNCHANGED admins

Crash(r) ==
    /\ UpdateThrows(r) \/ AdminThrows(r)
    /\ up' = "no"
    /\ request' = [q \in Requests |-> IF request[q].at \in {"called", "found"} THEN [request[q] EXCEPT !.at = "cut"]
                                      ELSE request[q]]
    /\ UNCHANGED <<about, todos, answer, saving, kept, people, chatVars, starts, admins, seeded>>
\* What was sent to the database before a crash arrives there or not.
Restart ==
    /\ up = "no" /\ starts < MaxStarts /\ up' = "yes" /\ starts' = starts + 1
    /\ \E done \in SUBSET saving :
          /\ todos' = [t \in Todos |-> IF \E r \in Requests : <<r, t>> \in done THEN 1 ELSE todos[t]]
          /\ kept' = kept \cup {t \in Todos : \E r \in Requests : <<r, t>> \in done}
    /\ saving' = {} /\ messages' = << >> /\ lastId' = 1 /\ taken' = 0
    /\ admins' = "looking" /\ UNCHANGED <<about, request, answer, people, seeded>>

-----------------------------------------------------------------------------
GfNext ==
    \/ \E r \in Requests, t \in Todos, kind \in Kinds : Receive(r, kind, t)
    \/ \E r \in Requests : TodoStep(r) \/ Crash(r)
    \/ \E user \in {"user", "admin"}, own \in 0..1 : ChatAdd(user, own)
    \/ \E id \in 1..(2 * MaxMessages) : ChatDelete(id)
    \/ Seed \/ Restart

GfSpec == GfInit /\ [][GfNext]_gfVars

-----------------------------------------------------------------------------
\* Whoever was told that a to-do or a user is stored will find that it was: nothing is
\* told before the database has it.
Told(r, what) == \E i \in DOMAIN answer[r] : answer[r][i] = what
ToldIsStored == \A r \in Requests :
    /\ Told(r, "stored") => request[r].todo \in kept
    /\ Told(r, "added") => r \in people

\* A deletion in the chat takes one message at most, whatever ids messages
\* bring along.
DeletesOne == taken <= 1

\* What users store is there, and only what they delete goes.
DataKept == ToldIsStored /\ DeletesOne
=============================================================================
