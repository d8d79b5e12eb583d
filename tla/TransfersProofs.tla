--------------------------- MODULE TransfersProofs ---------------------------
(***************************************************************************)
(* What is proved of Transfers: its types, that a cache is of its file,    *)
(* that the slot for uploads follows its client, and that no whole book is *)
(* lost but by what replaces it.                                           *)
(***************************************************************************)
EXTENDS Transfers, TLAPS

\* The request that is on its way to clear the cache of a path.
Pending(p) == http # None /\ http.path = p /\ http.op \in {"put", "delete"} /\ http.step \in {"rename", "clear"}

CachesMatch == \A p \in Path \ tainted : cache[p] # None => file[p] = All(cache[p]) \/ Pending(p)

Uncached(p) == cache[p] = None \/ p \in tainted

\* Nothing goes on without the server.
Stopped == ~serving => ws = None /\ http = None

\* An upload's own file is not whole, and its path has had no cache from the start.
Uploading ==
  ws # None => /\ ws.client \in conn /\ Uncached(ws.path)
               /\ ~ws.orphan => file[ws.path] = Part(ws.body)

\* The upload at a path, if any, has lost its file.
Orphaned(p) == ws # None /\ ws.path = p => ws.orphan

\* What a request has done so far.
Is(op) == http # None /\ http.op = op
Serving ==
  /\ Is("upload") \/ Is("put") => http.body # None
  /\ Is("upload") => file[http.path] # None /\ ~file[http.path].whole /\ Orphaned(http.path)
  /\ Is("copy")   => file[http.dst] # None /\ ~file[http.dst].whole /\ Orphaned(http.dst)
  /\ Is("move")   => file[http.dst] = None /\ http.dst # http.path
  /\ At("put", "rename") => file[http.path] = None
  /\ At("move", "rename") \/ At("discard", "remove") => Uncached(http.path)

Parts == CachesMatch /\ Stopped /\ Uploading /\ Serving
IInv  == TypeOK /\ Parts

-----------------------------------------------------------------------------
\* A change at one path keeps the types of the files.
LEMMA BecomesType ==
  ASSUME TypeOK, NEW p \in Path, NEW f \in File \cup {None}, Becomes(p, f)
  PROVE  /\ file' \in [Path -> File \cup {None}]
         /\ file'[p] = f /\ \A q \in Path \ {p} : file'[q] = file[q]
  BY DEF TypeOK, Becomes

\* So do clearing, tainting and the change under an upload.
LEMMA ClearType ==
  ASSUME TypeOK, NEW p \in Path, Clear(p)
  PROVE  /\ cache' \in [Path -> Body \cup {None}] /\ tainted' \subseteq Path
         /\ cache'[p] = None /\ tainted' = tainted \ {p} /\ \A q \in Path \ {p} : cache'[q] = cache[q]
  BY DEF TypeOK, Clear
LEMMA TaintType ==
  ASSUME TypeOK, NEW p \in Path, Taint(p)
  PROVE  /\ tainted' \subseteq Path /\ tainted \subseteq tainted' /\ tainted' \subseteq tainted \cup {p}
         /\ cache[p] = None \/ p \in tainted'
  BY DEF TypeOK, Taint
LEMMA UnderUploadType ==
  ASSUME TypeOK, NEW S, UnderUpload(S)
  PROVE  /\ ws' \in Upload \cup {None}
         /\ ws' = None <=> ws = None
         /\ ws # None => /\ ws'.client = ws.client /\ ws'.path = ws.path /\ ws'.body = ws.body
                         /\ ~ws'.orphan => ~ws.orphan /\ ws.path \notin S
<1>1. CASE ws # None /\ ws.path \in S
  <2>1. ws \in Upload
    BY <1>1 DEF TypeOK
  <2>2. ws' = [ws EXCEPT !.orphan = TRUE]
    BY <1>1 DEF UnderUpload
  <2>3. ws' \in Upload /\ ws'.client = ws.client /\ ws'.path = ws.path /\ ws'.body = ws.body /\ ws'.orphan = TRUE
    BY <2>1, <2>2 DEF Upload
  <2> QED
    BY <1>1, <2>3, TransfersAssumption
<1>2. CASE ~(ws # None /\ ws.path \in S)
  BY <1>2 DEF TypeOK, UnderUpload
<1> QED
  BY <1>1, <1>2

\* Contents are files, and None is none of them.
LEMMA Contents ==
  /\ None \notin File
  /\ \A b \in Body : Part(b) \in File /\ All(b) \in File /\ ~Part(b).whole /\ All(b).whole
  /\ \A b \in Body : Part(b).body = b /\ All(b).body = b
  BY TransfersAssumption DEF Part, All, File

\* A request that begins, or goes on, is a request.
LEMMA BeginType ==
  ASSUME NEW op \in {"upload", "put", "move", "copy", "delete", "discard"}, NEW p \in Path, NEW d \in Path,
         NEW b \in Body \cup {None}, NEW step \in {"data", "rename", "clear", "remove"},
         Begin(op, p, d, b, step)
  PROVE  /\ http' \in Request /\ http' # None
         /\ http'.op = op /\ http'.path = p /\ http'.dst = d /\ http'.body = b /\ http'.step = step
         /\ serving /\ http = None /\ UNCHANGED <<serving, conn, faults>>
  BY TransfersAssumption DEF Begin, Message, Request
LEMMA GoesType ==
  ASSUME TypeOK, http # None, NEW step \in {"data", "rename", "clear", "remove"}, Goes(step)
  PROVE  /\ http' \in Request /\ http' # None
         /\ http'.op = http.op /\ http'.path = http.path /\ http'.dst = http.dst /\ http'.step = step
         /\ UNCHANGED <<serving, conn>>
  BY TransfersAssumption DEF TypeOK, Goes, Request
LEMMA RequestType ==
  ASSUME TypeOK, http # None
  PROVE  /\ http.path \in Path /\ http.dst \in Path /\ http.body \in Body \cup {None}
         /\ http.op \in {"upload", "put", "move", "copy", "delete", "discard"}
  BY DEF TypeOK, Request
LEMMA UploadType ==
  ASSUME TypeOK, ws # None
  PROVE  ws \in Upload /\ ws.path \in Path /\ ws.body \in Body /\ ws.client \in WsClient
  BY DEF TypeOK, Upload
LEMMA AbortType ==
  ASSUME TypeOK, ws # None, Abort
  PROVE  /\ file' \in [Path -> File \cup {None}] /\ faults' \in Nat /\ ws' = None
         /\ \A q \in Path \ {ws.path} : file'[q] = file[q]
         /\ file'[ws.path] \in {None, file[ws.path]}
<1> ws.path \in Path
  BY UploadType
<1>1. CASE Becomes(ws.path, None) /\ UNCHANGED faults
  BY <1>1, BecomesType DEF Abort, TypeOK
<1>2. CASE Fault /\ UNCHANGED file
  BY <1>2 DEF Abort, Fault, TypeOK
<1> QED
  BY <1>1, <1>2 DEF Abort

-----------------------------------------------------------------------------
\* The WebSocket's messages keep the types.
LEMMA MessageTypes ==
  ASSUME TypeOK, NEW c \in WsClient,
         Connect(c) \/ WsChunk(c) \/ WsDone(c) \/ WsError(c) \/ Disconnect(c)
  PROVE  TypeOK'
<1>1. CASE Connect(c)
  BY <1>1 DEF Connect, TypeOK
<1>2. CASE WsChunk(c)
  <2>1. ws \in Upload /\ ws.left > 1 /\ ws' = [ws EXCEPT !.left = ws.left - 1]
    BY <1>2, UploadType DEF WsChunk, From
  <2>2. ws.left - 1 \in 1..MaxChunks
    BY <2>1, TransfersAssumption DEF Upload
  <2>3. ws' \in Upload
    BY <2>1, <2>2 DEF Upload
  <2> QED
    BY <1>2, <2>3 DEF WsChunk, TypeOK
<1>3. CASE WsDone(c)
  <2>1. ws # None /\ ws.path \in Path /\ All(ws.body) \in File
    BY <1>3, UploadType, Contents DEF WsDone, From
  <2>2. file' \in [Path -> File \cup {None}]
    BY <1>3, <2>1, BecomesType DEF WsDone, TypeOK
  <2> QED
    BY <1>3, <2>1, <2>2, ClearType DEF WsDone, TypeOK
<1>4. CASE WsError(c)
  BY <1>4, AbortType DEF WsError, From, TypeOK
<1>5. CASE Disconnect(c)
  <2>1. file' \in [Path -> File \cup {None}] /\ faults' \in Nat /\ ws' \in Upload \cup {None}
    BY <1>5, AbortType DEF Disconnect, TypeOK
  <2> QED
    BY <1>5, <2>1 DEF Disconnect, TypeOK
<1> QED
  BY <1>1, <1>2, <1>3, <1>4, <1>5

LEMMA StartTypes ==
  ASSUME TypeOK, NEW c \in WsClient, NEW p \in Path, NEW b \in Body, NEW n \in 0..MaxChunks,
         WsStart(c, p, b, n)
  PROVE  TypeOK'
<1>1. CASE n = 0
  BY <1>1, BecomesType, ClearType, Contents DEF WsStart, TypeOK
<1>2. CASE n # 0
  <2>1. n \in 1..MaxChunks
    BY <1>2, TransfersAssumption
  <2>2. [client |-> c, path |-> p, body |-> b, left |-> n, orphan |-> FALSE] \in Upload
    BY <2>1 DEF Upload
  <2> QED
    BY <1>2, <2>2, BecomesType, Contents DEF WsStart, TypeOK
<1> QED
  BY <1>1, <1>2

\* The beginnings of requests.
LEMMA BeginTypes ==
  ASSUME TypeOK, NEW p \in Path, NEW d \in Path, NEW b \in Body,
         BeginUpload(p, b) \/ BeginPut(p, b) \/ BeginMove(p, d) \/ BeginCopy(p, d) \/ BeginDelete(p)
  PROVE  TypeOK'
<1>1. CASE BeginUpload(p, b)
  BY <1>1, BeginType, BecomesType, Contents DEF BeginUpload, TypeOK
<1>2. CASE BeginPut(p, b)
  BY <1>2, BeginType DEF BeginPut, TypeOK
<1>3. CASE BeginMove(p, d)
  <2>1. /\ http' \in Request /\ UNCHANGED <<serving, conn, faults>>
    BY <1>3, BeginType DEF BeginMove
  <2>2. CASE file[d] = None
    BY <1>3, <2>1, <2>2 DEF BeginMove, TypeOK
  <2>3. CASE file[d] # None
    BY <1>3, <2>1, <2>3, BecomesType, UnderUploadType, TaintType DEF BeginMove, TypeOK
  <2> QED
    BY <2>2, <2>3
<1>4. CASE BeginCopy(p, d)
  <2>1. /\ http' \in Request /\ UNCHANGED <<serving, conn, faults>>
    BY <1>4, BeginType DEF BeginCopy
  <2>2. Part(file[p].body) \in File
    BY <1>4, Contents DEF BeginCopy, TypeOK, File
  <2>3. ws' \in Upload \cup {None}
    BY <1>4, UnderUploadType DEF BeginCopy, TypeOK
  <2> QED
    BY <1>4, <2>1, <2>2, <2>3, BecomesType, TaintType DEF BeginCopy, TypeOK
<1>5. CASE BeginDelete(p)
  <2>1. /\ http' \in Request /\ UNCHANGED <<serving, conn, faults>>
    BY <1>5, BeginType DEF BeginDelete
  <2> QED
    BY <1>5, <2>1 DEF BeginDelete, TypeOK
<1> QED
  BY <1>1, <1>2, <1>3, <1>4, <1>5

\* Their steps, and the power cut.
LEMMA StepTypes ==
  ASSUME TypeOK, Serving,
         UploadEnds \/ PutAborts \/ PutArrives \/ PutRenames \/ MoveRenames \/ CopyEnds \/ Removes \/ Clears
  PROVE  TypeOK'
<1>0. http # None /\ http.path \in Path /\ http.dst \in Path
  BY RequestType DEF UploadEnds, PutAborts, PutArrives, PutRenames, MoveRenames, CopyEnds, Removes, Clears,
     AfterClear, At
<1>1. CASE UploadEnds
  <2>1. http' = None /\ UNCHANGED <<serving, conn, ws>>
    BY <1>1 DEF UploadEnds, Ends
  <2>2. http.body \in Body
    BY <1>0, <1>1, RequestType DEF UploadEnds, At, Serving, Is
  <2>3. All(http.body) \in File
    BY <2>2, Contents
  <2>4. file' \in [Path -> File \cup {None}] /\ faults' \in Nat
    BY <1>0, <1>1, <2>3, BecomesType DEF UploadEnds, TypeOK, Fault
  <2>5. cache' \in [Path -> Body \cup {None}] /\ tainted' \subseteq Path
    BY <1>0, <1>1, ClearType DEF UploadEnds, TypeOK
  <2> QED
    BY <1>1, <2>1, <2>4, <2>5 DEF UploadEnds, TypeOK
<1>2. CASE PutAborts
  BY <1>2 DEF PutAborts, Ends, TypeOK
<1>3. CASE PutArrives
  <2>1. http' \in Request /\ UNCHANGED <<serving, conn>>
    BY <1>0, <1>3, GoesType DEF PutArrives
  <2>2. ws' \in Upload \cup {None}
    BY <1>3, UnderUploadType DEF PutArrives, TypeOK
  <2> QED
    BY <1>0, <1>3, <2>1, <2>2, BecomesType DEF PutArrives, TypeOK
<1>4. CASE PutRenames
  <2>1. All(http.body) \in File
    BY <1>0, <1>4, RequestType, Contents DEF PutRenames, At, Serving, Is
  <2>2. http' \in Request \cup {None} /\ UNCHANGED <<serving, conn>>
    BY <1>0, <1>4, GoesType DEF PutRenames, Ends
  <2>3. file' \in [Path -> File \cup {None}] /\ faults' \in Nat /\ tainted' \subseteq Path
    BY <1>0, <1>4, <2>1, BecomesType, TaintType DEF PutRenames, TypeOK, Fault
  <2> QED
    BY <1>4, <2>2, <2>3 DEF PutRenames, TypeOK
<1>5. CASE MoveRenames
  <2>1. file' \in [Path -> File \cup {None}]
    BY <1>0, <1>5 DEF MoveRenames, TypeOK
  <2> QED
    BY <1>0, <1>5, <2>1, UnderUploadType DEF MoveRenames, Ends, Fault, TypeOK
<1>6. CASE CopyEnds
  <2>1. file[http.path] \in File \cup {None}
    BY <1>0 DEF TypeOK
  <2> QED
    BY <1>0, <1>6, <2>1, BecomesType DEF CopyEnds, Ends, Fault, TypeOK
<1>7. CASE Removes
  <2>1. http' \in Request \cup {None} /\ UNCHANGED <<serving, conn>>
    BY <1>0, <1>7, GoesType DEF Removes, Ends
  <2> QED
    BY <1>0, <1>7, <2>1, BecomesType, UnderUploadType DEF Removes, Fault, TypeOK
<1>8. CASE Clears
  <2>1. http' \in Request \cup {None} /\ UNCHANGED <<serving, conn>>
    BY <1>0, <1>8, GoesType DEF Clears, AfterClear, Ends
  <2> QED
    BY <1>0, <1>8, <2>1, ClearType, TaintType DEF Clears, Fault, TypeOK
<1> QED
  BY <1>1, <1>2, <1>3, <1>4, <1>5, <1>6, <1>7, <1>8

LEMMA TypeStep == ASSUME TypeOK, Serving, [Next]_vars PROVE TypeOK'
<1>1. CASE PowerCut
  <2>1. tainted' \subseteq Path
    BY <1>1, RequestType, TaintType DEF PowerCut, TypeOK
  <2>2. conn' \subseteq WsClient /\ faults' \in Nat
    BY <1>1 DEF PowerCut, Fault, TypeOK
  <2>3. serving' \in BOOLEAN
    BY <1>1 DEF PowerCut
  <2> QED
    BY <1>1, <2>1, <2>2, <2>3 DEF PowerCut, TypeOK
<1>2. CASE UNCHANGED vars
  BY <1>2 DEF vars, TypeOK
<1>3. ASSUME NEW c \in WsClient, Connect(c) \/ WsChunk(c) \/ WsDone(c) \/ WsError(c) \/ Disconnect(c) PROVE TypeOK'
  BY <1>3, MessageTypes
<1>4. CASE Start
  BY <1>4 DEF Start, TypeOK
<1>5. CASE Stop
  <2>1. file' \in [Path -> File \cup {None}] /\ faults' \in Nat /\ ws' \in Upload \cup {None}
    BY <1>5, AbortType DEF Stop, TypeOK
  <2> QED
    BY <1>5, <2>1 DEF Stop, TypeOK
<1>6. ASSUME NEW p \in Path, Read(p) PROVE TypeOK'
  <2>1. file[p].body \in Body
    BY <1>6 DEF Read, TypeOK, File
  <2> QED
    BY <1>6, <2>1 DEF Read, TypeOK
<1>7. ASSUME NEW p \in Path, NEW d \in Path, NEW b \in Body,
             BeginUpload(p, b) \/ BeginPut(p, b) \/ BeginMove(p, d) \/ BeginCopy(p, d) PROVE TypeOK'
  BY <1>7, BeginTypes
<1>8. ASSUME NEW p \in Path, BeginDelete(p) PROVE TypeOK'
  <2>1. PICK b \in Body : TRUE
    BY <1>8 DEF BeginDelete, TypeOK, File
  <2> QED
    BY <1>8, <2>1, BeginTypes
<1>9. ASSUME NEW p \in Path, NEW d \in Path, BeginMove(p, d) \/ BeginCopy(p, d) PROVE TypeOK'
  <2>1. PICK b \in Body : TRUE
    BY <1>9 DEF BeginMove, BeginCopy, TypeOK, File
  <2> QED
    BY <1>9, <2>1, BeginTypes
<1>10. ASSUME NEW c \in WsClient, NEW p \in Path, NEW b \in Body, NEW n \in 0..MaxChunks, WsStart(c, p, b, n) PROVE TypeOK'
  BY <1>10, StartTypes
<1>11. CASE UploadEnds \/ PutAborts \/ PutArrives \/ PutRenames \/ MoveRenames \/ CopyEnds \/ Removes \/ Clears
  BY <1>11, StepTypes
<1> QED
  BY <1>1, <1>2, <1>3, <1>4, <1>5, <1>6, <1>7, <1>8, <1>9, <1>10, <1>11 DEF Next
-----------------------------------------------------------------------------
\* A path without a whole file has no cache but one that is known to be stale,
\* as long as no request is about to clear it.
LEMMA NoneCached ==
  ASSUME TypeOK, CachesMatch, NEW p \in Path, ~Pending(p), file[p] = None \/ ~file[p].whole
  PROVE  Uncached(p)
  BY Contents DEF TypeOK, CachesMatch, Uncached

\* An upload that has its file has it at its path.
LEMMA OwnFile ==
  ASSUME TypeOK, Uploading, NEW p \in Path, file[p] = None
  PROVE  Orphaned(p)
  BY Contents, UploadType DEF Uploading, Orphaned, TypeOK, Upload

\* What keeps an upload's path without a cache, and its file if it still has it, keeps it.
LEMMA UploadKept ==
  ASSUME TypeOK, Uploading, UNCHANGED conn,
         ws' = None <=> ws = None,
         ws # None => /\ ws'.client = ws.client /\ ws'.path = ws.path /\ ws'.body = ws.body
                      /\ ~ws'.orphan => ~ws.orphan /\ file'[ws.path] = file[ws.path]
                      /\ cache'[ws.path] = None \/ ws.path \in tainted'
  PROVE  Uploading'
<1>1. SUFFICES ASSUME ws' # None
               PROVE  /\ ws'.client \in conn' /\ Uncached(ws.path)'
                      /\ ~ws'.orphan => file'[ws'.path] = Part(ws'.body)
  BY DEF Uploading
<1>2. ws # None
  BY <1>1
<1> QED
  BY <1>2 DEF Uploading, Uncached

\* The abort of an upload leaves no cache without its book.
LEMMA AbortParts ==
  ASSUME TypeOK, Parts, http = None, ws # None, Abort, UNCHANGED <<cache, tainted, http>>
  PROVE  CachesMatch' /\ Uploading' /\ Serving'
<1>1. Uncached(ws.path) /\ ws' = None /\ \A q \in Path \ {ws.path} : file'[q] = file[q]
  BY AbortType DEF Parts, Uploading
<1>2. CachesMatch'
  BY <1>1 DEF Parts, CachesMatch, Uncached, Pending
<1> QED
  BY <1>1, <1>2 DEF Uploading, Serving, Is, At

LEMMA ServerParts ==
  ASSUME IInv, Start \/ Stop \/ PowerCut \/ \E p \in Path : Read(p)
  PROVE  Parts'
<1> USE DEF IInv
<1>1. CASE Start
  BY <1>1 DEF Start, Parts, CachesMatch, Pending, Stopped, Uploading, Uncached, Serving, Is, At, Orphaned
<1>2. CASE Stop
  <2>1. CASE ws # None
    BY <1>2, <2>1, AbortParts DEF Stop, Abort, Parts, Stopped
  <2>2. CASE ws = None
    BY <1>2, <2>2 DEF Stop, Parts, CachesMatch, Pending, Stopped, Uploading, Serving, Is, At
  <2> QED
    BY <2>1, <2>2
<1>3. CASE PowerCut
  <2>1. ws' = None /\ http' = None /\ UNCHANGED <<file, cache>>
    BY <1>3 DEF PowerCut
  <2>2. tainted \subseteq tainted' /\ (http # None => cache[http.path] = None \/ http.path \in tainted')
    BY <1>3, RequestType, TaintType DEF PowerCut
  <2>3. CachesMatch'
    BY <2>1, <2>2 DEF Parts, CachesMatch, Pending, Uncached
  <2> QED
    BY <2>1, <2>3 DEF Parts, Stopped, Uploading, Serving, Is, At
<1>4. ASSUME NEW p \in Path, Read(p) PROVE Parts'
  <2>1. ws = None /\ http = None
    BY <1>4 DEF Read, Parts, Stopped
  <2>2. file[p] = All(file[p].body)
    BY <1>4 DEF Read, TypeOK, File, All
  <2>3. cache'[p] = file[p].body /\ \A q \in Path \ {p} : cache'[q] = cache[q]
    BY <1>4 DEF Read, TypeOK
  <2>4. CachesMatch'
    BY <1>4, <2>1, <2>2, <2>3 DEF Read, Parts, CachesMatch, Pending
  <2> QED
    BY <1>4, <2>1, <2>4 DEF Read, Parts, Stopped, Uploading, Serving, Is, At
<1> QED
  BY <1>1, <1>2, <1>3, <1>4

LEMMA MessageParts ==
  ASSUME IInv, NEW c \in WsClient,
         Connect(c) \/ WsChunk(c) \/ WsDone(c) \/ WsError(c) \/ Disconnect(c)
  PROVE  Parts'
<1> USE DEF IInv
<1>1. CASE Connect(c)
  BY <1>1 DEF Connect, Message, Parts, CachesMatch, Pending, Stopped, Uploading, Uncached, Serving, Is, At
<1>2. CASE WsChunk(c)
  <2>1. ws \in Upload /\ ws' = [ws EXCEPT !.left = ws.left - 1]
    BY <1>2, UploadType DEF WsChunk, From
  <2>2. ws'.client = ws.client /\ ws'.path = ws.path /\ ws'.body = ws.body /\ ws'.orphan = ws.orphan
    BY <2>1 DEF Upload
  <2>3. UNCHANGED <<file, cache, serving, conn, http, tainted>> /\ serving /\ http = None /\ ws # None
    BY <1>2 DEF WsChunk, From, Message
  <2> QED
    BY <2>2, <2>3 DEF Parts, CachesMatch, Pending, Stopped, Uploading, Uncached, Serving, Is, At
<1>3. CASE WsDone(c)
  <2>1. ws # None /\ ws.path \in Path /\ ws' = None /\ http' = None /\ http = None
    BY <1>3, UploadType DEF WsDone, From, Message
  <2>2. \A q \in Path \ {ws.path} : file'[q] = file[q]
    BY <1>3, <2>1, BecomesType, Contents DEF WsDone, TypeOK, Becomes
  <2>3. cache'[ws.path] = None /\ tainted' = tainted \ {ws.path} /\ \A q \in Path \ {ws.path} : cache'[q] = cache[q]
    BY <1>3, <2>1, ClearType DEF WsDone
  <2>4. CachesMatch'
    BY <2>1, <2>2, <2>3 DEF Parts, CachesMatch, Pending
  <2> QED
    BY <2>1, <2>4 DEF Parts, Stopped, Uploading, Serving, Is, At
<1>4. CASE WsError(c)
  BY <1>4, AbortParts DEF WsError, From, Message, Abort, Parts, Stopped
<1>5. CASE Disconnect(c)
  <2>1. CASE ws # None /\ ws.client = c
    BY <1>5, <2>1, AbortParts DEF Disconnect, Message, Abort, Parts, Stopped
  <2>2. CASE ~(ws # None /\ ws.client = c)
    <3>1. UNCHANGED <<file, cache, ws, serving, http, tainted>> /\ conn' = conn \ {c} /\ serving /\ http = None
      BY <1>5, <2>2 DEF Disconnect, Message
    <3> QED
      BY <2>2, <3>1 DEF Parts, CachesMatch, Pending, Stopped, Uploading, Uncached, Serving, Is, At
  <2> QED
    BY <2>1, <2>2
<1> QED
  BY <1>1, <1>2, <1>3, <1>4, <1>5

LEMMA StartParts ==
  ASSUME IInv, NEW c \in WsClient, NEW p \in Path, NEW b \in Body, NEW n \in 0..MaxChunks,
         WsStart(c, p, b, n)
  PROVE  Parts'
<1> USE DEF IInv
<1>1. http = None /\ http' = None /\ serving /\ serving' /\ conn' = conn /\ c \in conn /\ ws = None
  BY DEF WsStart, Message
<1>2. \A q \in Path \ {p} : file'[q] = file[q]
  BY BecomesType, Contents DEF WsStart
<1>3. CASE n = 0
  <2>1. cache'[p] = None /\ tainted' = tainted \ {p} /\ \A q \in Path \ {p} : cache'[q] = cache[q]
    BY <1>3, ClearType DEF WsStart
  <2>2. CachesMatch' /\ ws' = None
    BY <1>1, <1>2, <1>3, <2>1 DEF WsStart, Parts, CachesMatch, Pending
  <2> QED
    BY <1>1, <2>2 DEF Parts, Stopped, Uploading, Serving, Is, At
<1>4. CASE n # 0
  <2>1. UNCHANGED <<cache, tainted>> /\ Uncached(p) /\ file'[p] = Part(b)
    BY <1>1, <1>4, NoneCached, BecomesType, Contents DEF WsStart, Parts, Pending
  <2>2. ws'.client = c /\ ws'.path = p /\ ws'.body = b
    BY <1>4 DEF WsStart
  <2>3. CachesMatch' /\ Uploading'
    BY <1>1, <1>2, <2>1, <2>2 DEF Parts, CachesMatch, Uploading, Uncached, Pending
  <2> QED
    BY <1>1, <2>3 DEF Parts, Stopped, Serving, Is, At
<1> QED
  BY <1>3, <1>4
\* The beginnings of requests.
LEMMA BeginParts ==
  ASSUME IInv, NEW p \in Path, NEW d \in Path, NEW b \in Body,
         BeginUpload(p, b) \/ BeginPut(p, b) \/ BeginMove(p, d) \/ BeginCopy(p, d) \/ BeginDelete(p)
  PROVE  Parts'
<1> USE DEF IInv
<1>1. CASE BeginUpload(p, b)
  <2>1. /\ serving /\ http = None /\ UNCHANGED <<serving, conn, ws, cache, tainted>>
        /\ http'.op = "upload" /\ http'.path = p /\ http'.dst = p /\ http'.body = b /\ http'.step = "data"
    BY <1>1, BeginType DEF BeginUpload
  <2>2. file'[p] = Part(b) /\ \A q \in Path \ {p} : file'[q] = file[q]
    BY <1>1, BecomesType, Contents DEF BeginUpload
  <2>3. Uncached(p) /\ Orphaned(p)
    BY <1>1, <2>1, NoneCached, OwnFile DEF BeginUpload, Parts, Pending
  <2>4. CachesMatch'
    BY <2>1, <2>2, <2>3 DEF Parts, CachesMatch, Uncached, Pending
  <2>5. Uploading'
    BY <2>1, <2>2, <2>3, UploadType DEF Parts, Uploading, Uncached, Orphaned
  <2>6. Serving'
    BY <2>1, <2>2, <2>3, Contents, TransfersAssumption DEF Serving, Is, At, Orphaned
  <2> QED
    BY <2>1, <2>4, <2>5, <2>6 DEF Parts, Stopped
<1>2. CASE BeginPut(p, b)
  <2>1. /\ serving /\ http = None /\ UNCHANGED <<serving, conn, ws, cache, tainted, file>>
        /\ http'.op = "put" /\ http'.path = p /\ http'.body = b /\ http'.step = "data"
    BY <1>2, BeginType DEF BeginPut
  <2>2. CachesMatch' /\ Uploading' /\ Serving' /\ Stopped'
    BY <2>1, TransfersAssumption DEF Parts, CachesMatch, Uncached, Pending, Uploading, Serving, Is, At, Stopped
  <2> QED
    BY <2>2 DEF Parts
<1>3. CASE BeginMove(p, d)
  <2>1. /\ serving /\ http = None /\ UNCHANGED <<serving, conn, cache>> /\ p # d
        /\ http'.op = "move" /\ http'.path = p /\ http'.dst = d /\ http'.step = "clear"
    BY <1>3, BeginType DEF BeginMove
  <2>2. CASE file[d] = None
    <3>1. UNCHANGED <<file, ws, tainted>>
      BY <1>3, <2>2 DEF BeginMove
    <3> QED
      BY <2>1, <2>2, <3>1 DEF Parts, CachesMatch, Uncached, Pending, Uploading, Serving, Is, At, Stopped
  <2>3. CASE file[d] # None
    <3>1. file'[d] = None /\ \A q \in Path \ {d} : file'[q] = file[q]
      BY <1>3, <2>3, BecomesType DEF BeginMove
    <3>2. tainted \subseteq tainted' /\ (cache[d] = None \/ d \in tainted')
      BY <1>3, <2>3, TaintType DEF BeginMove
    <3>3. /\ ws' = None <=> ws = None
          /\ ws # None => /\ ws'.client = ws.client /\ ws'.path = ws.path /\ ws'.body = ws.body
                          /\ ~ws'.orphan => ~ws.orphan /\ ws.path \notin {d}
      BY <1>3, <2>3, UnderUploadType DEF BeginMove
    <3>4. CachesMatch'
      BY <2>1, <3>1, <3>2 DEF Parts, CachesMatch, Uncached, Pending
    <3>5. Uploading'
      <4>1. ws # None => ws.path \in Path /\ (cache[ws.path] = None \/ ws.path \in tainted)
        BY UploadType DEF Parts, Uploading, Uncached
      <4> QED
        BY <2>1, <3>1, <3>2, <3>3, <4>1, UploadKept DEF Parts
    <3> QED
      BY <2>1, <3>1, <3>3, <3>4, <3>5 DEF Parts, Serving, Is, At, Stopped
  <2> QED
    BY <2>2, <2>3
<1>4. CASE BeginCopy(p, d)
  <2>1. /\ serving /\ http = None /\ UNCHANGED <<serving, conn, cache>> /\ p # d
        /\ http'.op = "copy" /\ http'.path = p /\ http'.dst = d /\ http'.step = "data"
    BY <1>4, BeginType DEF BeginCopy
  <2>2. file[p].body \in Body
    BY <1>4 DEF BeginCopy, TypeOK, File
  <2>3. file'[d] # None /\ ~file'[d].whole /\ \A q \in Path \ {d} : file'[q] = file[q]
    BY <1>4, <2>2, BecomesType, Contents DEF BeginCopy
  <2>4. tainted \subseteq tainted' /\ (cache[d] = None \/ d \in tainted')
    BY <1>4, TaintType DEF BeginCopy
  <2>5. /\ ws' = None <=> ws = None
        /\ ws # None => /\ ws'.client = ws.client /\ ws'.path = ws.path /\ ws'.body = ws.body
                        /\ ~ws'.orphan => ~ws.orphan /\ ws.path # d
    <3>1. CASE file[d] = None
      BY <1>4, <3>1, OwnFile DEF BeginCopy, Parts, Orphaned
    <3>2. CASE file[d] # None
      BY <1>4, <3>2, UnderUploadType DEF BeginCopy
    <3> QED
      BY <3>1, <3>2
  <2>6. CachesMatch'
    BY <2>1, <2>3, <2>4 DEF Parts, CachesMatch, Uncached, Pending
  <2>7. Uploading'
    <3>1. ws # None => ws.path \in Path /\ (cache[ws.path] = None \/ ws.path \in tainted)
      BY UploadType DEF Parts, Uploading, Uncached
    <3> QED
      BY <2>1, <2>3, <2>4, <2>5, <3>1, UploadKept DEF Parts
  <2>8. Serving'
    <3>1. Orphaned(d)'
      BY <2>5 DEF Orphaned
    <3> QED
      BY <2>1, <2>3, <3>1 DEF Serving, Is, At, Orphaned
  <2> QED
    BY <2>1, <2>5, <2>6, <2>7, <2>8 DEF Parts, Stopped
<1>5. CASE BeginDelete(p)
  <2>1. /\ serving /\ http = None /\ UNCHANGED <<serving, conn, ws, cache, tainted, file>>
        /\ \/ http'.op = "delete" /\ http'.step = "remove"
           \/ http'.op = "discard" /\ http'.step = "clear"
    BY <1>5, BeginType DEF BeginDelete
  <2>2. CachesMatch' /\ Uploading' /\ Serving' /\ Stopped'
    BY <2>1, TransfersAssumption DEF Parts, CachesMatch, Uncached, Pending, Uploading, Serving, Is, At, Stopped
  <2> QED
    BY <2>2 DEF Parts
<1> QED
  BY <1>1, <1>2, <1>3, <1>4, <1>5
\* The steps of requests.
LEMMA StepParts ==
  ASSUME IInv, UploadEnds \/ PutAborts \/ PutArrives \/ PutRenames \/ MoveRenames \/ CopyEnds \/ Removes \/ Clears
  PROVE  Parts'
<1> USE DEF IInv
<1>0. /\ http # None /\ http.path \in Path /\ http.dst \in Path /\ serving
      /\ UNCHANGED <<serving, conn>>
  <2>1. http # None /\ UNCHANGED <<serving, conn>>
    BY DEF UploadEnds, PutAborts, PutArrives, PutRenames, MoveRenames, CopyEnds, Removes, Clears,
       AfterClear, At, Goes, Ends
  <2> QED
    BY <2>1, RequestType DEF Parts, Stopped
<1>t. Stopped'
  <2>1. serving'
    BY <1>0
  <2> QED
    BY <2>1 DEF Stopped
<1>w. ws # None => ws.path \in Path /\ (cache[ws.path] = None \/ ws.path \in tainted)
  BY UploadType DEF Parts, Uploading, Uncached
<1>1. CASE UploadEnds
  <2>1. http' = None /\ UNCHANGED ws /\ ~Pending(http.path) /\ Orphaned(http.path) /\ ~file[http.path].whole
    BY <1>1 DEF UploadEnds, Ends, At, Pending, Parts, Serving, Is
  <2>2. Uncached(http.path)
    BY <1>0, <1>t, <2>1, NoneCached DEF Parts
  <2>3. \A q \in Path \ {http.path} : file'[q] = file[q]
    BY <1>0, <1>1 DEF UploadEnds, Becomes, TypeOK
  <2>4. /\ \/ cache'[http.path] = None /\ tainted' = tainted \ {http.path}
           \/ UNCHANGED <<cache, tainted>>
        /\ \A q \in Path \ {http.path} : cache'[q] = cache[q]
    BY <1>0, <1>1, ClearType DEF UploadEnds
  <2>5. CachesMatch'
    BY <1>1, <2>1, <2>2, <2>3, <2>4 DEF UploadEnds, At, Parts, CachesMatch, Uncached, Pending
  <2>6. Uploading'
    BY <1>0, <1>w, <2>1, <2>2, <2>3, <2>4, UploadKept DEF Parts, Orphaned
  <2> QED
    BY <1>0, <1>t, <2>1, <2>5, <2>6 DEF Parts, Serving, Is, At
<1>2. CASE PutAborts
  <2>1. http' = None /\ UNCHANGED <<file, cache, ws, tainted>> /\ \A p \in Path : ~Pending(p)
    BY <1>2 DEF PutAborts, Ends, At, Pending
  <2>2. CachesMatch'
    BY <2>1 DEF Parts, CachesMatch
  <2>3. Uploading'
    BY <1>0, <1>w, <2>1, UploadKept DEF Parts
  <2> QED
    BY <1>0, <1>t, <2>1, <2>2, <2>3 DEF Parts, Serving, Is, At
<1>3. CASE PutArrives
  <2>1. /\ http'.op = "put" /\ http'.path = http.path /\ http'.body = http.body /\ http'.step = "rename"
        /\ http' # None /\ http.op = "put" /\ http.step = "data" /\ UNCHANGED <<cache, tainted>>
    BY <1>0, <1>3, TransfersAssumption DEF PutArrives, At, Goes, TypeOK, Request
  <2>2. file'[http.path] = None /\ \A q \in Path \ {http.path} : file'[q] = file[q]
    BY <1>0, <1>3, BecomesType DEF PutArrives
  <2>3. /\ ws' = None <=> ws = None
        /\ ws # None => /\ ws'.client = ws.client /\ ws'.path = ws.path /\ ws'.body = ws.body
                        /\ ~ws'.orphan => ~ws.orphan /\ ws.path # http.path
    <3>1. CASE file[http.path] = None
      BY <1>0, <1>3, <3>1, OwnFile DEF PutArrives, Parts, Orphaned
    <3>2. CASE file[http.path] # None
      BY <1>3, <3>2, UnderUploadType DEF PutArrives
    <3> QED
      BY <3>1, <3>2
  <2>4. CachesMatch'
    BY <2>1, <2>2 DEF Parts, CachesMatch, Pending
  <2>5. Uploading'
    BY <1>0, <1>w, <2>1, <2>2, <2>3, UploadKept DEF Parts
  <2>6. Serving'
    BY <1>0, <1>t, <2>1, <2>2 DEF Parts, Serving, Is, At
  <2> QED
    BY <1>0, <1>t, <2>4, <2>5, <2>6 DEF Parts
<1>4. CASE PutRenames
  <2>1. UNCHANGED <<cache, ws>> /\ http.op = "put" /\ http.step = "rename" /\ file[http.path] = None
    BY <1>4 DEF PutRenames, At, Parts, Serving
  <2>2. Orphaned(http.path)
    BY <1>0, <1>t, <2>1, OwnFile DEF Parts
  <2>3. \A q \in Path \ {http.path} : file'[q] = file[q]
    BY <1>0, <1>4 DEF PutRenames, Becomes, TypeOK
  <2>4. \/ /\ http'.op = "put" /\ http'.path = http.path /\ http'.body = http.body /\ http'.step = "clear"
           /\ http' # None /\ UNCHANGED tainted
        \/ http' = None /\ tainted \subseteq tainted' /\ (cache[http.path] = None \/ http.path \in tainted')
    <3>1. CASE Goes("clear") /\ UNCHANGED tainted
      BY <1>0, <3>1, <2>1, TransfersAssumption DEF Goes, TypeOK, Request
    <3>2. CASE Ends /\ Taint(http.path)
      BY <1>0, <3>2, TaintType DEF Ends
    <3> QED
      BY <1>4, <3>1, <3>2 DEF PutRenames
  <2>5. CachesMatch'
    BY <2>1, <2>3, <2>4 DEF Parts, CachesMatch, Pending
  <2>6. Uploading'
    BY <1>0, <1>w, <2>1, <2>2, <2>3, <2>4, UploadKept DEF Parts, Orphaned
  <2>7. Serving'
    BY <1>0, <1>t, <2>1, <2>4 DEF Parts, Serving, Is, At
  <2> QED
    BY <1>0, <1>t, <2>5, <2>6, <2>7 DEF Parts
<1>5. CASE MoveRenames
  <2>1. /\ http' = None /\ http.op = "move" /\ UNCHANGED <<cache, tainted>>
        /\ file[http.dst] = None /\ http.dst # http.path /\ Uncached(http.path)
    BY <1>5 DEF MoveRenames, At, Ends, Parts, Serving, Is
  <2>2. Uncached(http.dst) /\ Orphaned(http.dst)
    BY <1>0, <1>t, <2>1, NoneCached, OwnFile DEF Parts, Pending
  <2>3. \A q \in Path \ {http.path, http.dst} : file'[q] = file[q]
    BY <1>0, <1>5 DEF MoveRenames, TypeOK
  <2>4. /\ ws' = None <=> ws = None
        /\ ws # None => /\ ws'.client = ws.client /\ ws'.path = ws.path /\ ws'.body = ws.body
                        /\ ~ws'.orphan => ~ws.orphan /\ file'[ws.path] = file[ws.path]
    <3>1. CASE UnderUpload({http.path})
      BY <1>w, <2>2, <2>3, <3>1, UnderUploadType DEF Orphaned
    <3>2. CASE UNCHANGED <<file, ws>>
      BY <3>2
    <3> QED
      BY <1>5, <3>1, <3>2 DEF MoveRenames
  <2>5. CachesMatch'
    BY <2>1, <2>2, <2>3 DEF Parts, CachesMatch, Pending, Uncached
  <2>6. Uploading'
    BY <1>0, <1>w, <2>1, <2>4, UploadKept DEF Parts
  <2> QED
    BY <1>0, <1>t, <2>1, <2>5, <2>6 DEF Parts, Serving, Is, At
<1>6. CASE CopyEnds
  <2>1. /\ http' = None /\ http.op = "copy" /\ UNCHANGED <<cache, tainted, ws>>
        /\ ~file[http.dst].whole /\ Orphaned(http.dst)
    BY <1>6 DEF CopyEnds, At, Ends, Parts, Serving, Is
  <2>2. Uncached(http.dst)
    BY <1>0, <1>t, <2>1, NoneCached DEF Parts, Pending
  <2>3. \A q \in Path \ {http.dst} : file'[q] = file[q]
    BY <1>0, <1>6 DEF CopyEnds, Becomes, TypeOK
  <2>4. CachesMatch'
    BY <2>1, <2>2, <2>3 DEF Parts, CachesMatch, Pending, Uncached
  <2>5. Uploading'
    BY <1>0, <1>w, <2>1, <2>3, UploadKept DEF Parts, Orphaned
  <2> QED
    BY <1>0, <1>t, <2>1, <2>4, <2>5 DEF Parts, Serving, Is, At
<1>7. CASE Removes
  <2>1. UNCHANGED <<cache, tainted>> /\ http.step = "remove" /\ http.op \in {"delete", "discard"}
    BY <1>7 DEF Removes, At
  <2>2. \A q \in Path \ {http.path} : file'[q] = file[q]
    BY <1>0, <1>7 DEF Removes, Becomes, TypeOK
  <2>3. /\ ws' = None <=> ws = None
        /\ ws # None => /\ ws'.client = ws.client /\ ws'.path = ws.path /\ ws'.body = ws.body
                        /\ ~ws'.orphan => ~ws.orphan /\ file'[ws.path] = file[ws.path]
    <3>1. CASE UnderUpload({http.path})
      BY <1>w, <2>2, <3>1, UnderUploadType
    <3>2. CASE UNCHANGED <<file, ws>>
      BY <3>2
    <3> QED
      BY <1>7, <3>1, <3>2 DEF Removes
  <2>4. Uploading'
    BY <1>0, <1>w, <2>1, <2>3, UploadKept DEF Parts
  <2>5. CASE http.op = "delete"
    <3>1. http'.op = "delete" /\ http'.path = http.path /\ http'.step = "clear" /\ http' # None
      BY <1>0, <1>7, <2>5, TransfersAssumption DEF Removes, At, Goes, TypeOK, Request
    <3>2. CachesMatch' /\ Serving'
      BY <2>1, <2>2, <3>1 DEF Parts, CachesMatch, Pending, Serving, Is, At
    <3> QED
      BY <1>t, <2>4, <3>2 DEF Parts
  <2>6. CASE http.op = "discard"
    <3>1. http' = None /\ Uncached(http.path)
      BY <1>7, <2>1, <2>6 DEF Removes, At, Ends, Parts, Serving
    <3>2. CachesMatch' /\ Serving'
      BY <2>1, <2>2, <2>6, <3>1 DEF Parts, CachesMatch, Pending, Serving, Is, At, Uncached
    <3> QED
      BY <1>t, <2>4, <3>1, <3>2 DEF Parts
  <2> QED
    BY <2>1, <2>5, <2>6
<1>8. CASE Clears
  <2>1. UNCHANGED <<file, ws>> /\ AfterClear
    BY <1>8 DEF Clears
  <2>2. /\ cache'[http.path] = None \/ http.path \in tainted'
        /\ \A q \in Path \ {http.path} : cache'[q] = cache[q] /\ (q \in tainted => q \in tainted')
    BY <1>0, <1>8, ClearType, TaintType DEF Clears
  <2>3. CachesMatch'
    BY <2>1, <2>2 DEF Parts, CachesMatch, Pending
  <2>4. Uploading'
    BY <1>0, <1>w, <2>1, <2>2, UploadKept DEF Parts
  <2>5. CASE http' = None
    BY <1>0, <1>t, <2>3, <2>4, <2>5 DEF Parts, Serving, Is, At
  <2>6. CASE http' # None
    <3>1. /\ http'.op = http.op /\ http'.path = http.path /\ http'.dst = http.dst
          /\ \/ http'.op = "move" /\ http'.step = "rename"
             \/ http'.op = "discard" /\ http'.step = "remove"
      <4>1. CASE Goes("rename") /\ http.op = "move"
        BY <1>0, <4>1, GoesType
      <4>2. CASE Goes("remove") /\ http.op = "discard"
        BY <1>0, <4>2, GoesType
      <4> QED
        BY <2>1, <2>6, <4>1, <4>2 DEF AfterClear, At, Ends
    <3>2. Serving'
      <4>1. CASE http'.op = "move"
        BY <1>0, <2>1, <2>2, <2>6, <3>1, <4>1 DEF Parts, Serving, Is, At, Uncached
      <4>2. CASE http'.op = "discard"
        BY <1>0, <2>1, <2>2, <2>6, <3>1, <4>2 DEF Parts, Serving, Is, At, Uncached
      <4> QED
        BY <3>1, <4>1, <4>2
    <3> QED
      BY <1>t, <2>3, <2>4, <3>2 DEF Parts
  <2> QED
    BY <2>5, <2>6
<1> QED
  BY <1>1, <1>2, <1>3, <1>4, <1>5, <1>6, <1>7, <1>8
-----------------------------------------------------------------------------
LEMMA PartsStep == ASSUME IInv, [Next]_vars PROVE Parts'
<1>1. CASE UNCHANGED vars
  BY <1>1 DEF vars, IInv, Parts, CachesMatch, Pending, Stopped, Uploading, Uncached, Serving, Orphaned, Is, At
<1>2. CASE Start \/ Stop \/ PowerCut \/ \E p \in Path : Read(p)
  BY <1>2, ServerParts
<1>3. ASSUME NEW c \in WsClient, Connect(c) \/ WsChunk(c) \/ WsDone(c) \/ WsError(c) \/ Disconnect(c) PROVE Parts'
  BY <1>3, MessageParts
<1>4. ASSUME NEW c \in WsClient, NEW p \in Path, NEW b \in Body, NEW n \in 0..MaxChunks, WsStart(c, p, b, n) PROVE Parts'
  BY <1>4, StartParts
<1>5. ASSUME NEW p \in Path, NEW d \in Path, NEW b \in Body, BeginUpload(p, b) \/ BeginPut(p, b) PROVE Parts'
  BY <1>5, BeginParts
<1>6. ASSUME NEW p \in Path, NEW d \in Path, BeginMove(p, d) \/ BeginCopy(p, d) \/ BeginDelete(p) PROVE Parts'
  <2>1. PICK b \in Body : TRUE
    BY <1>6 DEF BeginMove, BeginCopy, BeginDelete, IInv, TypeOK, File
  <2> QED
    BY <1>6, <2>1, BeginParts
<1>7. CASE UploadEnds \/ PutAborts \/ PutArrives \/ PutRenames \/ MoveRenames \/ CopyEnds \/ Removes \/ Clears
  BY <1>7, StepParts
<1> QED
  BY <1>1, <1>2, <1>3, <1>4, <1>5, <1>6, <1>7 DEF Next

\* The invariant holds at first and is kept.
LEMMA IInvInit == Init => IInv
<1> SUFFICES ASSUME Init PROVE IInv
  OBVIOUS
<1>1. serving \in BOOLEAN /\ ~serving
  BY DEF Init
<1>2. TypeOK
  BY <1>1 DEF Init, TypeOK
<1>3. Parts
  BY DEF Init, Parts, CachesMatch, Pending, Stopped, Uploading, Serving, Is, At
<1> QED
  BY <1>2, <1>3 DEF IInv
LEMMA IInvStep == IInv /\ [Next]_vars => IInv'
  BY TypeStep, PartsStep DEF IInv, Parts

\* The inductive invariant: a cache that is not known to be stale is of the file
\* at its path, or about to be cleared; an upload has a path without a cache and
\* a client; and each request has its paths as its next step needs them.
THEOREM Inductive == Spec => []IInv
  BY IInvInit, IInvStep, PTL DEF Spec

\* The card, the slot for uploads and the request have their types.
THEOREM TypeCorrect == Spec => []TypeOK
<1>1. IInv => TypeOK
  BY DEF IInv
<1> QED
  BY <1>1, Inductive, PTL

\* Between requests every cache was made of the file at its path, but for MOVE
\* and COPY onto it, faults and cuts (clearBookCache).
THEOREM CachesAreOfTheirFiles == Spec => []CacheOfItsFile
<1>1. IInv => CacheOfItsFile
  BY DEF IInv, Parts, CachesMatch, Pending, CacheOfItsFile
<1> QED
  BY <1>1, Inductive, PTL

\* The slot for uploads is held by a client that is connected (abortWsUpload,
\* onWebSocketEvent).
THEOREM SlotIsFollowed == Spec => []SlotFollowsItsClient
<1>1. IInv => SlotFollowsItsClient
  BY DEF IInv, Parts, Stopped, Uploading, SlotFollowsItsClient
<1> QED
  BY <1>1, Inductive, PTL

-----------------------------------------------------------------------------
\* What may change a whole file.
Excused(p) ==
  p \in Replaced(http) \cup Replaced(http') \/ (ws # None /\ ws.orphan /\ ws.path = p)
Kept(p) == file[p] # None /\ file[p].whole /\ file'[p] # file[p] => Excused(p)

LEMMA AbortKeeps ==
  ASSUME IInv, ws # None, Abort, NEW p \in Path
  PROVE  Kept(p)
<1>1. \A q \in Path \ {ws.path} : file'[q] = file[q]
  BY AbortType DEF IInv
<1>2. ~ws.orphan => ~file[ws.path].whole
  BY UploadType, Contents DEF IInv, Parts, Uploading
<1> QED
  BY <1>1, <1>2 DEF Kept, Excused

LEMMA StepKeeps == ASSUME IInv, [Next]_vars, NEW p \in Path PROVE Kept(p)
<1> USE DEF Kept, IInv
<1>1. CASE UNCHANGED file
  BY <1>1
<1>2. CASE ws # None /\ Abort
  BY <1>2, AbortKeeps
<1>3. ASSUME NEW c \in WsClient, NEW q \in Path, NEW b \in Body, NEW n \in 0..MaxChunks,
             WsStart(c, q, b, n)
      PROVE  Kept(p)
  BY <1>3 DEF WsStart, Becomes, TypeOK
<1>4. ASSUME NEW c \in WsClient, WsDone(c) PROVE Kept(p)
  <2>1. ~ws.orphan => ~file[ws.path].whole
    BY <1>4, UploadType, Contents DEF WsDone, From, Parts, Uploading
  <2> QED
    BY <1>4, <2>1 DEF WsDone, From, Becomes, TypeOK, Excused
<1>5. ASSUME NEW q \in Path, NEW b \in Body, BeginUpload(q, b) PROVE Kept(p)
  BY <1>5 DEF BeginUpload, Becomes, TypeOK
<1>6. ASSUME NEW q \in Path, NEW d \in Path, BeginMove(q, d) \/ BeginCopy(q, d) PROVE Kept(p)
  <2>1. http'.dst = d /\ http'.op # "upload" /\ http' # None
    BY <1>6, BeginType DEF BeginMove, BeginCopy
  <2>2. \A r \in Path \ {d} : file'[r] = file[r]
    BY <1>6 DEF BeginMove, BeginCopy, Becomes, TypeOK
  <2> QED
    BY <2>1, <2>2 DEF Excused, Replaced
<1>7. CASE UploadEnds
  <2>1. http.path \in Path /\ ~file[http.path].whole
    BY <1>7, RequestType DEF UploadEnds, At, Parts, Serving, Is
  <2> QED
    BY <1>7, <2>1 DEF UploadEnds, Becomes, TypeOK
<1>8. CASE PutArrives \/ PutRenames \/ MoveRenames \/ Removes
  <2>1. /\ http # None /\ http.op # "upload" /\ http.op # "copy"
        /\ \A r \in Path \ {http.path, http.dst} : file'[r] = file[r]
    BY <1>8, RequestType DEF PutArrives, PutRenames, MoveRenames, Removes, At, Becomes, TypeOK
  <2> QED
    BY <2>1 DEF Excused, Replaced
<1>9. CASE CopyEnds
  <2>1. /\ http # None /\ http.op = "copy"
        /\ \A r \in Path \ {http.dst} : file'[r] = file[r]
    BY <1>9, RequestType DEF CopyEnds, At, Becomes, TypeOK
  <2> QED
    BY <2>1 DEF Excused, Replaced
<1>10. ASSUME UNCHANGED vars \/ Start \/ PutAborts \/ Clears \/ PowerCut PROVE Kept(p)
  BY <1>10 DEF vars, Start, PutAborts, Clears, PowerCut
<1>11. ASSUME Stop PROVE Kept(p)
  BY <1>1, <1>2, <1>11 DEF Stop
<1>12. ASSUME NEW q \in Path, Read(q) \/ BeginDelete(q) PROVE Kept(p)
  BY <1>12 DEF Read, BeginDelete
<1>13. ASSUME NEW q \in Path, NEW b \in Body, BeginPut(q, b) PROVE Kept(p)
  BY <1>13 DEF BeginPut
<1>14. ASSUME NEW c \in WsClient, Connect(c) \/ WsChunk(c) \/ WsError(c) \/ Disconnect(c) PROVE Kept(p)
  <2>1. UNCHANGED file \/ (ws # None /\ Abort)
    BY <1>14 DEF Connect, WsChunk, WsError, From, Disconnect
  <2> QED
    BY <1>1, <1>2, <2>1
<1> QED
  BY <1>3, <1>4, <1>5, <1>6, <1>7, <1>8, <1>9, <1>10, <1>11, <1>12, <1>13, <1>14 DEF Next

\* No step changes a book that is all there, but one of a request that replaces
\* or moves it, or the abort of an upload that lost its file before
\* (onWebSocketEvent, abortWsUpload, handleUpload).
THEOREM NoBookIsLost == Spec => NothingLost
<1>1. IInv /\ [Next]_vars =>
        [\A p \in Path : file[p] # None /\ file[p].whole /\ file'[p] # file[p]
           => p \in Replaced(http) \cup Replaced(http') \/ (ws # None /\ ws.orphan /\ ws.path = p)]_vars
  BY StepKeeps DEF Kept, Excused
<1> QED
  BY <1>1, Inductive, PTL DEF Spec, NothingLost

=============================================================================
