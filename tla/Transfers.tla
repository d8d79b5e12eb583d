------------------------------ MODULE Transfers ------------------------------
(***************************************************************************)
(* Books put on the card, moved and deleted over Wi-Fi, and the reading    *)
(* caches made of them (InkAgentWebServer, WebDAVHandler, clearBookCache). *)
(*                                                                         *)
(* One task serves everything.  An HTTP or WebDAV request has it to itself *)
(* until it ends, its body included; a WebSocket upload is a message at a  *)
(* time, with requests and other clients' messages in between.  Both work  *)
(* on paths, so a request can replace, move or delete what is being        *)
(* uploaded.  A cache is found by the path of its book.                    *)
(***************************************************************************)
EXTENDS Naturals

CONSTANTS Path,       \* of books, in folders that are there
          Body,       \* what a book's file can hold
          WsClient,   \* slots of the WebSocket server
          None,
          MaxChunks,  \* bound: messages of an upload
          MaxFaults   \* bound: card operations that fail, and power cuts

VARIABLES
  file,     \* of each path: the file, and whether all of it is there
  cache,    \* of each path: the body its reading cache was made of
  serving,  \* the File Transfer activity runs the server
  conn,     \* the WebSocket clients that are connected
  ws,       \* wsUploadInProgress and its client, path, and what is left to come
  http,     \* the request being served
  tainted,  \* history: paths whose cache was left behind by what replaced the file
  faults

vars == <<file, cache, serving, conn, ws, http, tainted, faults>>

-----------------------------------------------------------------------------
File    == [body : Body, whole : BOOLEAN]
Part(b) == [body |-> b, whole |-> FALSE]
All(b)  == [body |-> b, whole |-> TRUE]

\* orphan: the file that is open for the upload is no longer the one at its path.
Upload  == [client : WsClient, path : Path, body : Body, left : 1..MaxChunks, orphan : BOOLEAN]
Request == [op : {"upload", "put", "move", "copy", "delete", "discard"}, path : Path, dst : Path,
            body : Body \cup {None}, step : {"data", "rename", "clear", "remove"}]

ASSUME TransfersAssumption ==
  /\ None \notin Body \cup File \cup Upload \cup Request
  /\ MaxChunks \in Nat \ {0} /\ MaxFaults \in Nat

TypeOK ==
  /\ file \in [Path -> File \cup {None}]
  /\ cache \in [Path -> Body \cup {None}]
  /\ serving \in BOOLEAN /\ conn \subseteq WsClient
  /\ ws \in Upload \cup {None}
  /\ http \in Request \cup {None}
  /\ tainted \subseteq Path
  /\ faults \in Nat

Init ==
  /\ file = [p \in Path |-> None] /\ cache = [p \in Path |-> None]
  /\ serving = FALSE /\ conn = {} /\ ws = None /\ http = None
  /\ tainted = {} /\ faults = 0

Fault == faults < MaxFaults /\ faults' = faults + 1

\* A change of the files at some paths, under the upload if it is at one of them.
Becomes(p, f) == file' = [file EXCEPT ![p] = f]
UnderUpload(paths) ==
  ws' = IF ws # None /\ ws.path \in paths THEN [ws EXCEPT !.orphan = TRUE] ELSE ws

\* clearBookCache.
Clear(p)  == cache' = [cache EXCEPT ![p] = None] /\ tainted' = tainted \ {p}
Taint(p)  == tainted' = IF cache[p] # None THEN tainted \cup {p} ELSE tainted

-----------------------------------------------------------------------------
\* The server is started and stopped; books are read while it does not run.

\* abortWsUpload: by path, whatever is there.
Abort ==
  /\ ws' = None
  /\ \/ Becomes(ws.path, None) /\ UNCHANGED faults
     \/ Fault /\ UNCHANGED file

Start ==
  /\ ~serving /\ serving' = TRUE
  /\ UNCHANGED <<file, cache, conn, ws, http, tainted, faults>>

Stop ==
  /\ serving /\ http = None
  /\ serving' = FALSE /\ conn' = {}
  /\ IF ws # None THEN Abort ELSE UNCHANGED <<file, ws, faults>>
  /\ UNCHANGED <<cache, http, tainted>>

\* A cache that is there is used as it is.
Read(p) ==
  /\ ~serving /\ file[p] # None /\ file[p].whole /\ cache[p] = None
  /\ cache' = [cache EXCEPT ![p] = file[p].body]
  /\ UNCHANGED <<file, serving, conn, ws, http, tainted, faults>>

-----------------------------------------------------------------------------
\* onWebSocketEvent.

Message == serving /\ http = None
From(c) == Message /\ ws # None /\ ws.client = c

Connect(c) ==
  /\ Message /\ c \notin conn /\ conn' = conn \cup {c}
  /\ UNCHANGED <<file, cache, serving, ws, http, tainted, faults>>

\* START: one upload at a time, and never onto a file that is there.  An empty
\* file is complete at once.
WsStart(c, p, b, n) ==
  /\ Message /\ c \in conn /\ ws = None /\ file[p] = None
  /\ IF n = 0
     THEN Becomes(p, All(b)) /\ Clear(p) /\ UNCHANGED ws
     ELSE /\ Becomes(p, Part(b)) /\ UNCHANGED <<cache, tainted>>
          /\ ws' = [client |-> c, path |-> p, body |-> b, left |-> n, orphan |-> FALSE]
  /\ UNCHANGED <<serving, conn, http, faults>>

\* Mutant: a message is taken that was not announced.
WsChunkBeyond(c) ==
  /\ From(c)
  /\ ws' = [ws EXCEPT !.left = @ - 1]
  /\ UNCHANGED <<file, cache, serving, conn, http, tainted, faults>>
WsChunk(c) ==
  /\ From(c) /\ ws.left > 1
  /\ ws' = [ws EXCEPT !.left = @ - 1]
  /\ UNCHANGED <<file, cache, serving, conn, http, tainted, faults>>

\* Mutant: the slot is not given back.
WsDoneKeepingSlot(c) ==
  /\ From(c) /\ ws.left = 1
  /\ IF ws.orphan THEN UNCHANGED file ELSE Becomes(ws.path, All(ws.body))
  /\ Clear(ws.path)
  /\ UNCHANGED <<serving, conn, ws, http, faults>>
WsDone(c) ==
  /\ From(c) /\ ws.left = 1
  /\ IF ws.orphan THEN UNCHANGED file ELSE Becomes(ws.path, All(ws.body))
  /\ Clear(ws.path) /\ ws' = None
  /\ UNCHANGED <<serving, conn, http, faults>>

\* More than was announced, or a short write.
WsError(c) ==
  /\ From(c) /\ Abort
  /\ UNCHANGED <<cache, serving, conn, http, tainted>>

\* Mutant: the upload of a client that is gone is left to go on.
DisconnectOnly(c) ==
  /\ Message /\ c \in conn /\ conn' = conn \ {c}
  /\ UNCHANGED <<file, cache, serving, ws, http, tainted, faults>>
Disconnect(c) ==
  /\ Message /\ c \in conn /\ conn' = conn \ {c}
  /\ IF ws # None /\ ws.client = c THEN Abort ELSE UNCHANGED <<file, ws, faults>>
  /\ UNCHANGED <<cache, serving, http, tainted>>

-----------------------------------------------------------------------------
\* Requests: what each begins with, and the steps it goes through.

Begin(op, p, d, b, step) ==
  /\ Message
  /\ http' = [op |-> op, path |-> p, dst |-> d, body |-> b, step |-> step]
  /\ UNCHANGED <<serving, conn, faults>>

At(op, step) == http # None /\ http.op = op /\ http.step = step
Goes(step)   == http' = [http EXCEPT !.step = step] /\ UNCHANGED <<serving, conn>>
Ends         == http' = None /\ UNCHANGED <<serving, conn>>

\* handleUpload: never onto a file that is there; a write that fails leaves the
\* part that was written, an abort removes it.
BeginUpload(p, b) ==
  /\ file[p] = None
  /\ Begin("upload", p, p, b, "data") /\ Becomes(p, Part(b))
  /\ UNCHANGED <<cache, ws, tainted>>

UploadEnds ==
  /\ At("upload", "data") /\ Ends
  /\ \/ Becomes(http.path, All(http.body)) /\ Clear(http.path) /\ UNCHANGED faults
     \/ Becomes(http.path, None) /\ UNCHANGED <<cache, tainted, faults>>
     \/ Fault /\ UNCHANGED <<file, cache, tainted>>
  /\ UNCHANGED ws

\* WebDAV PUT: into a temporary file, which then takes the place of the old one;
\* the cache is cleared by the handler of the finished request.
BeginPut(p, b) ==
  /\ Begin("put", p, p, b, "data")
  /\ UNCHANGED <<file, cache, ws, tainted>>

PutAborts ==
  /\ At("put", "data") /\ Ends
  /\ UNCHANGED <<file, cache, ws, tainted, faults>>

PutArrives ==
  /\ At("put", "data") /\ Goes("rename")
  /\ Becomes(http.path, None)
  /\ IF file[http.path] = None THEN UNCHANGED ws ELSE UnderUpload({http.path})
  /\ UNCHANGED <<cache, tainted, faults>>

PutRenames ==
  /\ At("put", "rename")
  /\ \/ Becomes(http.path, All(http.body)) /\ Goes("clear") /\ UNCHANGED <<tainted, faults>>
     \/ Fault /\ Ends /\ Taint(http.path) /\ UNCHANGED file
  /\ UNCHANGED <<cache, ws>>

\* handleRename and handleMove, onto no file; WebDAV MOVE, which removes one.
\* The cache that is cleared is that of the path the book leaves.
BeginMove(p, d) ==
  /\ p # d /\ file[p] # None
  /\ Begin("move", p, d, None, "clear")
  /\ IF file[d] = None THEN UNCHANGED <<file, ws, tainted>>
     ELSE Becomes(d, None) /\ UnderUpload({d}) /\ Taint(d)
  /\ UNCHANGED cache

MoveRenames ==
  /\ At("move", "rename") /\ Ends
  /\ \/ /\ file' = [file EXCEPT ![http.dst] = file[http.path], ![http.path] = None]
        /\ UnderUpload({http.path}) /\ UNCHANGED faults
     \/ Fault /\ UNCHANGED <<file, ws>>
  /\ UNCHANGED <<cache, tainted>>

\* WebDAV COPY: onto a removed file; a read that fails ends it like the end of the file.
BeginCopy(p, d) ==
  /\ p # d /\ file[p] # None
  /\ Begin("copy", p, d, None, "data")
  /\ Becomes(d, Part(file[p].body)) /\ Taint(d)
  /\ IF file[d] = None THEN UNCHANGED ws ELSE UnderUpload({d})
  /\ UNCHANGED cache

CopyEnds ==
  /\ At("copy", "data") /\ Ends
  /\ \/ Becomes(http.dst, file[http.path]) /\ UNCHANGED faults
     \/ Fault /\ Becomes(http.dst, None)
     \/ Fault /\ UNCHANGED file
  /\ UNCHANGED <<cache, ws, tainted>>

\* handleDelete removes and clears ("delete"), WebDAV DELETE the other way round
\* ("discard").
BeginDelete(p) ==
  /\ file[p] # None
  /\ \/ Begin("delete", p, p, None, "remove") \/ Begin("discard", p, p, None, "clear")
  /\ UNCHANGED <<file, cache, ws, tainted>>

Removes ==
  /\ \/ At("delete", "remove") /\ Goes("clear")
     \/ At("discard", "remove") /\ Ends
  /\ \/ Becomes(http.path, None) /\ UnderUpload({http.path}) /\ UNCHANGED faults
     \/ Fault /\ UNCHANGED <<file, ws>>
  /\ UNCHANGED <<cache, tainted>>

\* The step of four requests that clears the cache.  One that cannot be cleared
\* is left, and the request goes on.
AfterClear ==
  \/ (At("put", "clear") \/ At("delete", "clear")) /\ Ends
  \/ At("move", "clear") /\ Goes("rename")
  \/ At("discard", "clear") /\ Goes("remove")

\* Mutant: the cache is kept.
ClearsNothing == AfterClear /\ UNCHANGED <<file, cache, ws, tainted, faults>>
Clears ==
  /\ AfterClear
  /\ \/ Clear(http.path) /\ UNCHANGED faults
     \/ Fault /\ Taint(http.path) /\ UNCHANGED cache
  /\ UNCHANGED <<file, ws>>

\* The power goes: partial files stay, and a cache that was about to be cleared.
PowerCut ==
  /\ serving /\ Fault
  /\ serving' = FALSE /\ conn' = {} /\ ws' = None /\ http' = None
  /\ IF http # None THEN Taint(http.path) ELSE UNCHANGED tainted
  /\ UNCHANGED <<file, cache>>

Next ==
  \/ Start \/ Stop
  \/ \E p \in Path : Read(p) \/ BeginDelete(p)
  \/ \E p, d \in Path : BeginMove(p, d) \/ BeginCopy(p, d)
  \/ \E p \in Path, b \in Body : BeginUpload(p, b) \/ BeginPut(p, b)
  \/ \E c \in WsClient : Connect(c) \/ WsChunk(c) \/ WsDone(c) \/ WsError(c) \/ Disconnect(c)
  \/ \E c \in WsClient, p \in Path, b \in Body, n \in 0..MaxChunks : WsStart(c, p, b, n)
  \/ UploadEnds \/ PutAborts \/ PutArrives \/ PutRenames \/ MoveRenames \/ CopyEnds \/ Removes \/ Clears
  \/ PowerCut

Spec == Init /\ [][Next]_vars

-----------------------------------------------------------------------------
\* Between requests, a cache was made of the file that is now at its path, unless
\* WebDAV put another one there by MOVE or COPY, or the card or the power failed
\* before the cache was cleared (clearBookCache and its callers).
CacheOfItsFile ==
  http = None => \A p \in Path \ tainted : cache[p] # None => file[p] = All(cache[p])

\* A book that is all there is changed or lost only by a request that names its
\* path as what it replaces or moves away, or by the abort of an upload whose own file was
\* replaced or taken away before - not by an upload, by a client that goes, or by
\* a server that stops (onWebSocketEvent, abortWsUpload, handleUpload).
Replaced(h) == {p \in Path : h # None /\ h.op # "upload" /\ (p = h.dst \/ (p = h.path /\ h.op # "copy"))}
NothingLost ==
  [][\A p \in Path : file[p] # None /\ file[p].whole /\ file'[p] # file[p]
       => p \in Replaced(http) \cup Replaced(http') \/ (ws # None /\ ws.orphan /\ ws.path = p)]_vars

\* The one slot for uploads is held only by a client that is there and has more
\* to send, so it is never refused to everybody (wsUploadInProgress).
SlotFollowsItsClient == ws # None => serving /\ ws.client \in conn

\* "When EPUB files are overwritten, moved, renamed, or deleted through the web
\* server, the matching book cache is cleared so stale metadata is not reused"
\* (docs/webserver.md:110-112): no cache is there for another book's file.
StaleIsNotReused ==
  \A p \in Path : http = None /\ file[p] # None /\ cache[p] # None => file[p].body = cache[p]
=============================================================================
