------------------------ MODULE InstanceBlobsProofs ------------------------
(***************************************************************************)
(* What InstanceBlobs keeps for any uploads, pieces, webhooks, puts at     *)
(* once, sessions, restarts and moves: a webhook that left as moved is     *)
(* empty, an answer stands for the stored bytes, and the bytes of an       *)
(* upload the log names are neither marked nor deleted.                    *)
(***************************************************************************)
EXTENDS InstanceBlobs, SequenceTheorems, TLAPS

Sent == {"posted", "dropping", "replacing", "replaced"}
Known == 1 .. Len(messages)

Got(b) == client[b[1]].got[b[2]]

\* TypeOK by the parts the steps change.
DbTyped ==
  /\ uploads \in [Upload -> UploadType] /\ blobs \in [Blob -> Row \cup {None}]
  /\ aliases \subseteq OldRow
  /\ hooks \in [Hook -> {"active", "retired", "moved", "removed"}]
MessagesTyped == messages \in Seq(MessageType) /\ Len(messages) <= MaxMessages
ClientTyped == leased \subseteq Upload /\ client \in [Upload -> ClientType]
PutTyped == put \in [Put -> PutType \cup {None}]
EraserTyped == eraser \in [Eraser -> EraserType \cup {None}]
TasksTyped == PutTyped /\ tick \in TickType /\ EraserTyped /\ job \in JobType \cup {None}
HistoryTyped == restarts \in 0..MaxRestarts /\ torn \subseteq Upload /\ raced \subseteq Blob

LEMMA Types ==
  TypeOK <=> DbTyped /\ MessagesTyped /\ ClientTyped /\ TasksTyped /\ HistoryTyped
BY DEF TypeOK, DbTyped, MessagesTyped, ClientTyped, TasksTyped, PutTyped, EraserTyped, HistoryTyped

LEMMA TypesNext ==
  DbTyped' /\ MessagesTyped' /\ ClientTyped' /\ TasksTyped' /\ HistoryTyped' => TypeOK'
BY DEF TypeOK, DbTyped, MessagesTyped, ClientTyped, TasksTyped, PutTyped, EraserTyped, HistoryTyped

\* Beyond the types: what is in hand names messages that were posted, and a
\* task has what its place needs.
RowsKnown == \A b \in Blob : blobs[b] # None => blobs[b].msg \in Known
AnswersKnown == \A b \in Blob : Got(b) # None => Got(b).msg \in Known
PutsKnown ==
  \A p \in Put : put[p] # None =>
    /\ put[p].msg \in Known \cup {None} /\ put[p].old \in Known \cup {None}
    /\ put[p].at \in Sent <=> put[p].msg # None
    /\ put[p].at \in {"replacing", "replaced"} => put[p].old # None
ErasersKnown ==
  \A e \in Eraser : eraser[e] # None =>
    /\ \A r \in eraser[e].rows : r[2] \in Known /\ blobs[<<eraser[e].upload, r[1]>>] # None
    /\ eraser[e].hit # None => blobs[<<eraser[e].upload, eraser[e].hit[1]>>] # None
JobKnown ==
  job # None =>
    /\ job.trash \subseteq Known
    /\ job.msg \in Known \cup {None} /\ (job.at = "switch" <=> job.msg # None)
    /\ job.at = "switch" => job.row # None
    /\ job.row # None => job.row.msg \in Known
    /\ job.at \in {"copy", "switch"} => job.rows \subseteq OldRow /\ \A r \in job.rows : r.msg \in Known
    /\ job.at = "garbage" => job.rows \subseteq Upload
    /\ job.at \in {"off", "settle", "settle2", "trash"} => job.rows = {}
MoverKnown == eraser["mover"] # None => job # None /\ job.at = "garbage"

InHand == RowsKnown /\ AnswersKnown /\ PutsKnown /\ ErasersKnown /\ JobKnown /\ MoverKnown

Typing == TypeOK /\ InHand

-----------------------------------------------------------------------------
(* What the steps do to messages, rows and requests                        *)

\* Messages are posted at the end and lose their bytes; nothing else of them
\* changes.
MessagesKept ==
  /\ Known \subseteq Known'
  /\ \A m \in Known : /\ messages'[m].hook = messages[m].hook
                      /\ messages'[m].hash = messages[m].hash
                      /\ messages'[m].live => messages[m].live

LEMMA KnownAreMessages ==
  ASSUME TypeOK
  PROVE  /\ Known \subseteq Msg /\ None \notin Known /\ Len(messages) \in Nat
         /\ \A m \in Known : messages[m] \in MessageType
<1>1. MessagesTyped  BY Types
<1>2. Len(messages) \in Nat  BY <1>1 DEF MessagesTyped
<1>3. Known \subseteq Msg /\ Known \subseteq Nat
  BY <1>1, <1>2, ConstantsAreTyped DEF MessagesTyped, Known, Msg
<1> QED  BY <1>1, <1>2, <1>3, ConstantsAreTyped DEF MessagesTyped, Known

\* A message that is posted is a new one.
LEMMA Posting ==
  ASSUME TypeOK, NEW h \in Hook, NEW x \in Hash, Post(h, x)
  PROVE  /\ MessagesTyped' /\ MessagesKept /\ \A m \in Known : messages'[m] = messages[m]
         /\ Known' = Known \cup {Len(messages) + 1} /\ Len(messages) + 1 \notin Known
         /\ Len(messages) + 1 \in Msg
         /\ messages'[Len(messages) + 1] = [hook |-> h, hash |-> x, live |-> TRUE]
<1> DEFINE r == [hook |-> h, hash |-> x, live |-> TRUE]
           n == Len(messages)
<1>1. messages \in Seq(MessageType) /\ n \in Nat /\ n + 1 <= MaxMessages
  BY Types, ConstantsAreTyped DEF MessagesTyped, Post
<1>2. r \in MessageType  BY DEF MessageType
<1>3. messages' = Append(messages, r)  BY DEF Post
<1> HIDE DEF r
<1>4. messages' \in Seq(MessageType) /\ Len(messages') = n + 1 /\ messages'[n + 1] = r
  BY <1>1, <1>2, <1>3, AppendProperties
<1>5. \A m \in 1 .. n : messages'[m] = messages[m]
  BY <1>1, <1>2, <1>3, AppendProperties
<1>6. 1 .. n + 1 = 1 .. n \cup {n + 1} /\ n + 1 \notin 1 .. n /\ n + 1 \in 1 .. MaxMessages
  BY <1>1, ConstantsAreTyped
<1> QED  BY <1>1, <1>4, <1>5, <1>6 DEF MessagesTyped, MessagesKept, Known, Msg, r

\* A message that is deleted loses its bytes, and only it.
LEMMA Deleting ==
  ASSUME TypeOK, NEW m \in Known, messages' = Deleted(m)
  PROVE  /\ MessagesTyped' /\ MessagesKept /\ Known' = Known
         /\ \A k \in Known : k # m => messages'[k] = messages[k]
<1> DEFINE r == [messages[m] EXCEPT !.live = FALSE]
<1>1. messages \in Seq(MessageType) /\ Len(messages) \in Nat /\ messages[m] \in MessageType
  BY Types, KnownAreMessages DEF MessagesTyped
<1>2. /\ r \in MessageType
      /\ r.hook = messages[m].hook /\ r.hash = messages[m].hash /\ r.live = FALSE
  BY <1>1 DEF MessageType
<1>3. messages' = [messages EXCEPT ![m] = r]  BY DEF Deleted
<1> HIDE DEF r
<1>4. /\ messages' \in Seq(MessageType) /\ Len(messages') = Len(messages)
      /\ \A k \in Known : messages'[k] = IF k = m THEN r ELSE messages[k]
  BY <1>1, <1>2, <1>3, ExceptSeq DEF Known
<1> QED  BY <1>1, <1>2, <1>4, Types DEF MessagesTyped, MessagesKept, Known

LEMMA MayDeleting ==
  ASSUME TypeOK, NEW m \in Known, MayDelete(m)
  PROVE  /\ MessagesTyped' /\ MessagesKept /\ Known' = Known
         /\ \A k \in Known : k # m => messages'[k] = messages[k]
<1>1. CASE messages' = Deleted(m)  BY <1>1, Deleting
<1>2. CASE UNCHANGED messages
  BY <1>2, Types DEF MessagesTyped, MessagesKept, Known
<1> QED  BY <1>1, <1>2 DEF MayDelete

LEMMA Standing ==
  ASSUME UNCHANGED messages
  PROVE  MessagesKept /\ Known' = Known /\ (MessagesTyped => MessagesTyped')
BY DEF MessagesKept, Known, MessagesTyped

\* What stays as it is stays in hand while messages are only added.
LEMMA KnownStays ==
  ASSUME InHand, Known \subseteq Known'
  PROVE  /\ UNCHANGED blobs => RowsKnown'
         /\ (\A b \in Blob : Got(b)' = Got(b)) => AnswersKnown'
         /\ UNCHANGED put => PutsKnown'
         /\ UNCHANGED eraser /\ (\A b \in Blob : blobs[b] # None => blobs'[b] # None)
            /\ EraserTyped => ErasersKnown'
         /\ UNCHANGED job => JobKnown'
         /\ UNCHANGED <<eraser, job>> => MoverKnown'
<1>1. UNCHANGED blobs => RowsKnown'  BY DEF InHand, RowsKnown
<1>2. (\A b \in Blob : Got(b)' = Got(b)) => AnswersKnown'
  BY DEF InHand, AnswersKnown
<1>3. UNCHANGED put => PutsKnown'  BY DEF InHand, PutsKnown
<1>4. ASSUME UNCHANGED eraser, \A b \in Blob : blobs[b] # None => blobs'[b] # None, EraserTyped
      PROVE  ErasersKnown'
  <2> SUFFICES ASSUME NEW e \in Eraser, eraser[e] # None
               PROVE  /\ \A r \in eraser[e].rows : r[2] \in Known' /\ blobs'[<<eraser[e].upload, r[1]>>] # None
                      /\ eraser[e].hit # None => blobs'[<<eraser[e].upload, eraser[e].hit[1]>>] # None
    BY <1>4 DEF ErasersKnown
  <2>1. eraser[e] \in EraserType  BY <1>4 DEF EraserTyped
  <2>2. /\ eraser[e].upload \in Upload /\ eraser[e].rows \subseteq Piece \X Msg
        /\ eraser[e].hit # None => eraser[e].hit \in Piece \X Msg
    BY <2>1 DEF EraserType
  <2>3. \A r \in Piece \X Msg : <<eraser[e].upload, r[1]>> \in Blob
    BY <2>2 DEF Blob
  <2> QED  BY <1>4, <2>2, <2>3 DEF InHand, ErasersKnown
<1>5. UNCHANGED job => JobKnown'  BY DEF InHand, JobKnown
<1>6. UNCHANGED <<eraser, job>> => MoverKnown'  BY DEF InHand, MoverKnown
<1> QED  BY <1>1, <1>2, <1>3, <1>4, <1>5, <1>6

\* A client that goes on to another stage keeps the rest.
LEMMA AtChanges ==
  ASSUME ClientTyped, NEW u \in Upload, NEW x \in Stage, client' = [client EXCEPT ![u].at = x]
  PROVE  /\ client' \in [Upload -> ClientType]
         /\ \A v \in Upload : /\ client'[v].at = IF v = u THEN x ELSE client[v].at
                              /\ client'[v].safe = client[v].safe
                              /\ client'[v].session = client[v].session
                              /\ client'[v].got = client[v].got
         /\ \A b \in Blob : Got(b)' = Got(b)
<1> DEFINE r == [client[u] EXCEPT !.at = x]
<1>1. client[u] \in ClientType  BY DEF ClientTyped
<1>2. /\ r \in ClientType /\ r.at = x /\ r.safe = client[u].safe
      /\ r.session = client[u].session /\ r.got = client[u].got
  BY <1>1 DEF ClientType
<1>3. client' = [client EXCEPT ![u] = r]  OBVIOUS
<1> HIDE DEF r
<1>4. /\ client' \in [Upload -> ClientType]
      /\ \A v \in Upload : client'[v] = IF v = u THEN r ELSE client[v]
  BY <1>2, <1>3 DEF ClientTyped
<1>5. \A b \in Blob : Got(b)' = Got(b)  BY <1>2, <1>4 DEF Got, Blob
<1> QED  BY <1>2, <1>4, <1>5

\* An entry of an upload changes only its row, which keeps its type.
LEMMA UploadChanges ==
  ASSUME DbTyped, NEW u \in Upload, NEW r \in UploadType, uploads' = [uploads EXCEPT ![u] = r]
  PROVE  /\ uploads' \in [Upload -> UploadType]
         /\ \A v \in Upload : uploads'[v] = IF v = u THEN r ELSE uploads[v]
BY DEF DbTyped

LEMMA StateChanges ==
  ASSUME DbTyped, NEW u \in Upload, NEW x \in {"none", "open", "final", "committed", "released"} \cup Tombstones,
         uploads' = [uploads EXCEPT ![u].state = x]
  PROVE  /\ uploads' \in [Upload -> UploadType]
         /\ \A v \in Upload : /\ State(v)' = IF v = u THEN x ELSE State(v)
                              /\ uploads'[v].guarded = uploads[v].guarded
<1> DEFINE r == [uploads[u] EXCEPT !.state = x]
<1>1. uploads[u] \in UploadType  BY DEF DbTyped
<1>2. r \in UploadType /\ r.state = x /\ r.guarded = uploads[u].guarded
  BY <1>1 DEF UploadType
<1>3. uploads' = [uploads EXCEPT ![u] = r]  OBVIOUS
<1> HIDE DEF r
<1>4. /\ uploads' \in [Upload -> UploadType]
      /\ \A v \in Upload : uploads'[v] = IF v = u THEN r ELSE uploads[v]
  BY <1>2, <1>3, UploadChanges
<1> QED  BY <1>2, <1>4 DEF State

\* What is counted when an entry of the upload is appended.
LEMMA Appending ==
  ASSUME DbTyped, NEW u \in Upload
  PROVE  /\ OnAppend(uploads[u]) \in UploadType
         /\ OnAppend(uploads[u]).guarded >= 1
         /\ OnAppend(uploads[u]).state =
              IF State(u) = "none" THEN "open"
              ELSE IF uploads[u].guarded >= 1 /\ State(u) \in {"open", "final"} THEN "committed"
              ELSE State(u)
<1>1. uploads[u] \in UploadType  BY DEF DbTyped
<1> QED  BY <1>1 DEF OnAppend, UploadType, State, Tombstones

\* deleteBlobs has read the rows of an upload: messages that were posted.
LEMMA RowsRead ==
  ASSUME Typing, NEW u \in Upload
  PROVE  /\ RowsOf(u) \subseteq Piece \X Msg
         /\ \A r \in RowsOf(u) : /\ Stored(<<u, r[1]>>) /\ blobs[<<u, r[1]>>].msg = r[2]
                                 /\ r[2] \in Known
<1> SUFFICES ASSUME NEW r \in RowsOf(u)
             PROVE  /\ r \in Piece \X Msg /\ Stored(<<u, r[1]>>)
                    /\ blobs[<<u, r[1]>>].msg = r[2] /\ r[2] \in Known
  OBVIOUS
<1>1. PICK i \in Piece : Stored(<<u, i>>) /\ r = <<i, blobs[<<u, i>>].msg>>
  BY DEF RowsOf
<1>2. <<u, i>> \in Blob  BY DEF Blob
<1>3. blobs[<<u, i>>].msg \in Known /\ Known \subseteq Msg
  BY <1>1, <1>2, KnownAreMessages DEF Typing, InHand, RowsKnown, Stored
<1> QED  BY <1>1, <1>3

LEMMA Erasing ==
  ASSUME Typing, NEW e \in Eraser, NEW u \in Upload, Erase(e, u), UNCHANGED <<blobs, messages>>
  PROVE  /\ EraserTyped' /\ ErasersKnown'
         /\ \A f \in Eraser : f # e => eraser'[f] = eraser[f]
         /\ eraser'[e] # None => /\ eraser'[e].upload = u /\ eraser'[e].rows = RowsOf(u)
                                 /\ eraser'[e].hit = None
<1> DEFINE x == [upload |-> u, rows |-> RowsOf(u), hit |-> None]
           y == IF RowsOf(u) = {} THEN None ELSE x
<1>1. EraserTyped  BY Types DEF Typing, TasksTyped
<1>2. x \in EraserType /\ x.upload = u /\ x.rows = RowsOf(u) /\ x.hit = None
  BY RowsRead DEF EraserType
<1>3. eraser' = [eraser EXCEPT ![e] = y]  BY DEF Erase
<1>4. y # None => y = x  OBVIOUS
<1>5. y \in EraserType \cup {None}  BY <1>2
<1>6. \A r \in x.rows : r[2] \in Known /\ blobs[<<u, r[1]>>] # None
  BY <1>2, RowsRead DEF Stored
<1> HIDE DEF x, y
<1>7. /\ eraser' \in [Eraser -> EraserType \cup {None}]
      /\ \A f \in Eraser : eraser'[f] = IF f = e THEN y ELSE eraser[f]
  BY <1>1, <1>3, <1>5 DEF EraserTyped
<1>8. ErasersKnown'
  <2> SUFFICES ASSUME NEW f \in Eraser, eraser'[f] # None
               PROVE  /\ \A r \in eraser'[f].rows : r[2] \in Known /\ blobs[<<eraser'[f].upload, r[1]>>] # None
                      /\ eraser'[f].hit # None => blobs[<<eraser'[f].upload, eraser'[f].hit[1]>>] # None
    BY DEF ErasersKnown, Known
  <2>1. CASE f = e  BY <2>1, <1>2, <1>4, <1>6, <1>7
  <2>2. CASE f # e  BY <2>2, <1>7 DEF Typing, InHand, ErasersKnown
  <2> QED  BY <2>1, <2>2
<1> QED  BY <1>2, <1>4, <1>7, <1>8 DEF EraserTyped

\* Put requests that nobody listens to any more are the same requests.
LEMMA Unheard ==
  ASSUME PutTyped, NEW S,
         put' = [p \in Put |-> IF put[p] # None /\ p \in S
                               THEN [put[p] EXCEPT !.heard = FALSE] ELSE put[p]]
  PROVE  /\ PutTyped'
         /\ \A p \in Put : (put'[p] = None <=> put[p] = None)
         /\ \A p \in Put : put[p] # None =>
              /\ put'[p].blob = put[p].blob /\ put'[p].hash = put[p].hash /\ put'[p].at = put[p].at
              /\ put'[p].hooks = put[p].hooks /\ put'[p].old = put[p].old /\ put'[p].msg = put[p].msg
              /\ p \in S => put'[p].heard = FALSE
              /\ p \notin S => put'[p].heard = put[p].heard
<1> SUFFICES ASSUME NEW p \in Put
             PROVE  /\ put'[p] \in PutType \cup {None}
                    /\ put'[p] = None <=> put[p] = None
                    /\ put[p] # None =>
                         /\ put'[p].blob = put[p].blob /\ put'[p].hash = put[p].hash /\ put'[p].at = put[p].at
                         /\ put'[p].hooks = put[p].hooks /\ put'[p].old = put[p].old /\ put'[p].msg = put[p].msg
                         /\ p \in S => put'[p].heard = FALSE
                         /\ p \notin S => put'[p].heard = put[p].heard
  BY DEF PutTyped
<1>1. put[p] \in PutType \cup {None}  BY DEF PutTyped
<1>2. CASE put[p] # None /\ p \in S
  <2> DEFINE r == [put[p] EXCEPT !.heard = FALSE]
  <2>1. put'[p] = r  BY <1>2
  <2>2. /\ r \in PutType /\ r.blob = put[p].blob /\ r.hash = put[p].hash /\ r.at = put[p].at
        /\ r.hooks = put[p].hooks /\ r.old = put[p].old /\ r.msg = put[p].msg /\ r.heard = FALSE
    BY <1>1, <1>2 DEF PutType
  <2>3. r # None  BY <2>2, NoneIsNoRecord
  <2> QED  BY <1>2, <2>1, <2>2, <2>3
<1>3. CASE ~(put[p] # None /\ p \in S)  BY <1>1, <1>3
<1> QED  BY <1>2, <1>3

-----------------------------------------------------------------------------
(* Types, action by action                                                 *)

\* The types of a step that leaves the server's work and the messages alone.
LEMMA ClientStepTypes ==
  ASSUME Typing, uploads' \in [Upload -> UploadType], ClientTyped', AnswersKnown',
         UNCHANGED <<blobs, aliases, hooks, messages, tasks, history>>
  PROVE  Typing'
<1>1. Known' = Known  BY DEF Known
<1>2. DbTyped' /\ MessagesTyped' /\ TasksTyped' /\ HistoryTyped'
  BY Types DEF Typing, DbTyped, MessagesTyped, TasksTyped, PutTyped, EraserTyped, HistoryTyped, tasks, history
<1>3. TypeOK'  BY <1>2, TypesNext
<1>4. EraserTyped  BY Types DEF Typing, TasksTyped
<1>5. RowsKnown' /\ PutsKnown' /\ ErasersKnown' /\ JobKnown' /\ MoverKnown'
  BY <1>1, <1>4, KnownStays DEF Typing, tasks
<1> QED  BY <1>3, <1>5 DEF Typing, InHand

\* Whatever the client takes for the answer to a piece, it takes for it only.
LEMMA Answering ==
  ASSUME Typing, NEW b \in Blob, NEW a \in Placement, a.msg \in Known, NEW heard, Answer(b, a, heard)
  PROVE  /\ client' \in [Upload -> ClientType]
         /\ \A v \in Upload : /\ client'[v].at = client[v].at /\ client'[v].safe = client[v].safe
                              /\ client'[v].session = client[v].session
         /\ \A c \in Blob : \/ Got(c)' = Got(c)
                            \/ c = b /\ Got(c)' = a /\ heard /\ client[b[1]].at = "sending"
         /\ \A c \in Blob : Got(c)' # None => Got(c)'.msg \in Known
<1>1. ClientTyped  BY Types DEF Typing
<1>a. \A c \in Blob : Got(c) # None => Got(c).msg \in Known  BY DEF Typing, InHand, AnswersKnown
<1>2. CASE UNCHANGED client
  <2>1. \A c \in Blob : Got(c)' = Got(c)  BY <1>2 DEF Got
  <2> QED  BY <1>1, <1>a, <1>2, <2>1 DEF ClientTyped
<1>3. CASE heard /\ client[b[1]].at = "sending" /\ client' = [client EXCEPT ![b[1]].got[b[2]] = a]
  <2> DEFINE u == b[1]
             i == b[2]
             g == [client[u].got EXCEPT ![i] = a]
             r == [client[u] EXCEPT !.got = g]
  <2>1. u \in Upload /\ i \in Piece /\ \A c \in Blob : c[1] = u /\ c[2] = i => c = b  BY DEF Blob
  <2>2. client[u] \in ClientType  BY <1>1, <2>1 DEF ClientTyped
  <2>3. client' = [client EXCEPT ![u] = r]  BY <1>3
  <2>4. client[u].got \in [Piece -> Placement \cup {None}]  BY <2>2 DEF ClientType
  <2> HIDE DEF u, i
  <2>5. /\ g \in [Piece -> Placement \cup {None}]
        /\ \A j \in Piece : g[j] = IF j = i THEN a ELSE client[u].got[j]
    BY <2>1, <2>4
  <2> HIDE DEF g
  <2>6. /\ r \in ClientType /\ r.at = client[u].at /\ r.safe = client[u].safe
        /\ r.session = client[u].session /\ r.got = g
    BY <2>2, <2>5 DEF ClientType
  <2> HIDE DEF r
  <2>7. /\ client' \in [Upload -> ClientType]
        /\ \A v \in Upload : client'[v] = IF v = u THEN r ELSE client[v]
    BY <1>1, <2>1, <2>3, <2>6 DEF ClientTyped
  <2>8. ASSUME NEW c \in Blob  PROVE Got(c)' = IF c = b THEN a ELSE Got(c)
    <3>1. c[1] \in Upload /\ c[2] \in Piece  BY DEF Blob
    <3>2. CASE c[1] = u  BY <2>1, <2>5, <2>6, <2>7, <3>1, <3>2 DEF Got, u, i
    <3>3. CASE c[1] # u  BY <2>1, <2>7, <3>1, <3>3 DEF Got, u
    <3> QED  BY <3>2, <3>3
  <2>9. \A c \in Blob : Got(c)' # None => Got(c)'.msg \in Known  BY <1>a, <2>8
  <2>10. \A v \in Upload : /\ client'[v].at = client[v].at /\ client'[v].safe = client[v].safe
                            /\ client'[v].session = client[v].session
    BY <2>6, <2>7
  <2>11. client[b[1]].at = "sending" /\ heard  BY <1>3
  <2> QED  BY <2>7, <2>8, <2>9, <2>10, <2>11
<1> QED  BY <1>2, <1>3 DEF Answer

LEMMA CancelTypes ==
  ASSUME Typing, NEW u \in Upload, Cancel(u)
  PROVE  Typing'
<1>1. DbTyped /\ ClientTyped /\ TasksTyped /\ PutTyped /\ EraserTyped /\ HistoryTyped
  BY Types DEF Typing, TasksTyped
<1>2. Known' = Known  BY DEF Cancel, Known
<1>3. uploads' \in [Upload -> UploadType]
  <2>1. PICK x \in {"none", "open", "final", "committed", "released"} \cup Tombstones :
          uploads' = [uploads EXCEPT ![u].state = x]
    BY <1>1 DEF Cancel, DbTyped, UploadType, Tombstones
  <2> QED  BY <1>1, <2>1, StateChanges
<1>4. DbTyped'  BY <1>1, <1>3 DEF Cancel, DbTyped
<1>5. "gone" \in Stage /\ client' = [client EXCEPT ![u].at = "gone"]  BY DEF Cancel, Stage
<1>6. ClientTyped' /\ \A b \in Blob : Got(b)' = Got(b)
  BY <1>1, <1>5, AtChanges DEF Cancel, ClientTyped
<1> DEFINE S == {p \in Put : put[p] # None /\ put[p].blob[1] = u}
<1>7. put' = [p \in Put |-> IF put[p] # None /\ p \in S THEN [put[p] EXCEPT !.heard = FALSE] ELSE put[p]]
  BY DEF Cancel
<1> HIDE DEF S
<1>8. /\ PutTyped'
      /\ \A p \in Put : (put'[p] = None <=> put[p] = None)
      /\ \A p \in Put : put[p] # None =>
           put'[p].at = put[p].at /\ put'[p].old = put[p].old /\ put'[p].msg = put[p].msg
  BY <1>1, <1>7, Unheard
<1>9. PutsKnown'
  BY <1>2, <1>8 DEF Typing, InHand, PutsKnown
<1>10. EraserTyped' /\ ErasersKnown' /\ eraser'["mover"] = eraser["mover"]
  <2>1. CASE UNCHANGED eraser
    BY <1>1, <1>2, <2>1, KnownStays DEF Cancel, Typing, EraserTyped
  <2>2. CASE Erase("cancel", u)
    BY <2>2, Erasing DEF Cancel, Eraser
  <2> QED  BY <2>1, <2>2 DEF Cancel
<1>11. RowsKnown' /\ AnswersKnown' /\ JobKnown'
  BY <1>2, <1>6, KnownStays DEF Cancel, Typing
<1>12. MoverKnown'  BY <1>10 DEF MoverKnown, Cancel, Typing, InHand
<1>13. TypeOK'
  BY <1>1, <1>4, <1>6, <1>8, <1>10, Types, TypesNext
     DEF Cancel, Typing, TasksTyped, HistoryTyped, history, MessagesTyped
<1> QED  BY <1>9, <1>10, <1>11, <1>12, <1>13 DEF Typing, InHand

\* Whatever stops the server leaves it nothing in hand.
LEMMA StoppedTypes ==
  ASSUME Typing, Stopped, UNCHANGED <<db, messages>>, ClientTyped', AnswersKnown', HistoryTyped'
  PROVE  Typing'
<1>1. Known' = Known  BY DEF Known
<1>2. PutTyped' /\ EraserTyped'  BY DEF Stopped, PutTyped, EraserTyped
<1>3. tick' \in TickType  BY DEF Stopped, NoTick, TickType
<1>4. job \in JobType \cup {None}  BY Types DEF Typing, TasksTyped
<1>5. job' \in JobType \cup {None} /\ JobKnown'
  <2>1. CASE job = None  BY <2>1 DEF Stopped, JobKnown
  <2>2. CASE job # None
    <3> DEFINE r == [job EXCEPT !.at = "off", !.rows = {}, !.row = None, !.msg = None]
    <3>1. job' = r  BY <2>2 DEF Stopped
    <3>2. /\ r \in JobType /\ r.at = "off" /\ r.rows = {} /\ r.row = None /\ r.msg = None
          /\ r.trash = job.trash
      BY <1>4, <2>2 DEF JobType
    <3> HIDE DEF r
    <3> QED  BY <1>1, <2>2, <3>1, <3>2 DEF JobKnown, Typing, InHand
  <2> QED  BY <2>1, <2>2
<1>6. DbTyped' /\ MessagesTyped'  BY Types DEF Typing, DbTyped, MessagesTyped, db
<1>7. TypeOK'  BY <1>2, <1>3, <1>5, <1>6, TypesNext DEF TasksTyped
<1>8. PutsKnown' /\ ErasersKnown' /\ MoverKnown'
  BY DEF Stopped, PutsKnown, ErasersKnown, MoverKnown, Eraser
<1>9. RowsKnown'  BY <1>1, KnownStays DEF Typing, db
<1> QED  BY <1>5, <1>7, <1>8, <1>9 DEF Typing, InHand

LEMMA TornTypes ==
  ASSUME Typing, NEW u \in Upload, CommitTorn(u)
  PROVE  Typing'
<1>1. ClientTyped /\ HistoryTyped  BY Types DEF Typing
<1>2. "bound" \in Stage /\ client' = [client EXCEPT ![u].at = "bound"]  BY DEF CommitTorn, Stage
<1>3. client' \in [Upload -> ClientType] /\ \A b \in Blob : Got(b)' = Got(b)
  BY <1>1, <1>2, AtChanges
<1>4. ClientTyped'  BY <1>3 DEF CommitTorn, Stopped, ClientTyped
<1>5. AnswersKnown'  BY <1>3, KnownStays DEF CommitTorn, Typing, Known
<1>6. HistoryTyped'  BY <1>1 DEF CommitTorn, HistoryTyped
<1> QED  BY <1>4, <1>5, <1>6, StoppedTypes DEF CommitTorn

LEMMA UploadTypes ==
  ASSUME Typing, NEW u \in Upload, OfUpload(u)
  PROVE  Typing'
<1>1. DbTyped /\ ClientTyped /\ TasksTyped /\ AnswersKnown  BY Types DEF Typing, InHand
<1>2. uploads[u] \in UploadType /\ client[u] \in ClientType  BY <1>1 DEF DbTyped, ClientTyped
<1>3. UNCHANGED uploads => uploads' \in [Upload -> UploadType]  BY <1>1 DEF DbTyped
<1>4. UNCHANGED client => /\ client' \in [Upload -> ClientType] /\ AnswersKnown
                          /\ \A b \in Blob : Got(b)' = Got(b)
  BY <1>1 DEF ClientTyped, Got
<1>5. (\A b \in Blob : Got(b)' = Got(b)) /\ UNCHANGED messages => AnswersKnown'
  BY <1>1 DEF AnswersKnown, Known
<1>6. leased \subseteq Upload /\ (UNCHANGED leased => leased' \subseteq Upload)  BY <1>1 DEF ClientTyped
<1>7. [uploads[u] EXCEPT !.idle = FALSE] \in UploadType /\ [uploads[u] EXCEPT !.idle = TRUE] \in UploadType
  BY <1>2 DEF UploadType
<1>8. CASE RenewLease(u)
  <2>1. uploads' \in [Upload -> UploadType]
    BY <1>1, <1>7, <1>8, UploadChanges DEF RenewLease
  <2>2. ClientTyped'  BY <1>4, <1>6, <1>8 DEF RenewLease, ClientTyped
  <2> QED  BY <1>4, <1>5, <1>8, <2>1, <2>2, ClientStepTypes DEF RenewLease
<1>9. CASE EndLease(u)
  <2>1. ClientTyped'  BY <1>4, <1>6, <1>9 DEF EndLease, ClientTyped
  <2> QED  BY <1>3, <1>4, <1>5, <1>9, <2>1, ClientStepTypes DEF EndLease, db
<1>10. CASE GoIdle(u)
  <2>1. uploads' \in [Upload -> UploadType]
    BY <1>1, <1>7, <1>10, UploadChanges DEF GoIdle
  <2>2. ClientTyped'  BY <1>4, <1>6, <1>10 DEF GoIdle, ClientTyped
  <2> QED  BY <1>4, <1>5, <1>10, <2>1, <2>2, ClientStepTypes DEF GoIdle
<1>11. CASE Begin(u)
  <2>1. uploads' \in [Upload -> UploadType]
    BY <1>1, <1>2, <1>11, Appending, UploadChanges DEF Begin, DbTyped
  <2>2. client' = [client EXCEPT ![u].at = "sending"] /\ "sending" \in Stage  BY <1>11 DEF Begin, Stage
  <2>3. ClientTyped' /\ \A b \in Blob : Got(b)' = Got(b)
    BY <1>1, <1>6, <1>11, <2>2, AtChanges DEF Begin, ClientTyped
  <2> QED  BY <1>5, <1>11, <2>1, <2>3, ClientStepTypes DEF Begin
<1>12. CASE Resume(u)
  <2>1. PICK kept \in SUBSET Piece :
          client' = [client EXCEPT ![u].at = "sending", ![u].session = @ + 1,
                       ![u].got = [i \in Piece |-> IF i \in kept THEN @[i] ELSE None]]
    BY <1>12 DEF Resume
  <2> DEFINE g == [i \in Piece |-> IF i \in kept THEN client[u].got[i] ELSE None]
             r == [client[u] EXCEPT !.at = "sending", !.session = @ + 1, !.got = g]
  <2>2. client' = [client EXCEPT ![u] = r]  BY <2>1
  <2>3. g \in [Piece -> Placement \cup {None}]  BY <1>2 DEF ClientType
  <2>4. \A i \in Piece : g[i] = None \/ g[i] = client[u].got[i]  OBVIOUS
  <2> HIDE DEF g
  <2>5. client[u].session + 1 \in Hash
    BY <1>2, <1>12, ConstantsAreTyped DEF Resume, ClientType, Hash
  <2>6. r \in ClientType /\ r.got = g  BY <1>2, <2>3, <2>5 DEF ClientType, Stage
  <2> HIDE DEF r
  <2>7. /\ client' \in [Upload -> ClientType]
        /\ \A v \in Upload : client'[v] = IF v = u THEN r ELSE client[v]
    BY <1>1, <2>2, <2>6 DEF ClientTyped
  <2>8. ClientTyped'  BY <1>6, <1>12, <2>7 DEF Resume, ClientTyped
  <2>9. \A b \in Blob : Got(b)' \in {None, Got(b)}
    BY <2>4, <2>6, <2>7 DEF Got, Blob
  <2>10. AnswersKnown'  BY <1>1, <1>12, <2>9 DEF AnswersKnown, Known, Resume
  <2> QED  BY <1>3, <1>12, <2>8, <2>10, ClientStepTypes DEF Resume, db
<1>13. CASE Commit(u)
  <2>1. uploads' \in [Upload -> UploadType]
    BY <1>1, <1>13, Appending, UploadChanges DEF Commit
  <2>2. client' = [client EXCEPT ![u].at = "bound"] /\ "bound" \in Stage  BY <1>13 DEF Commit, Stage
  <2>3. ClientTyped' /\ \A b \in Blob : Got(b)' = Got(b)
    BY <1>1, <1>6, <1>13, <2>2, AtChanges DEF Commit, ClientTyped
  <2> QED  BY <1>5, <1>13, <2>1, <2>3, ClientStepTypes DEF Commit
<1>14. CASE CommitOutside(u) \/ Drop(u) \/ Restore(u)
  <2>1. PICK x \in Stage : client' = [client EXCEPT ![u].at = x]
    BY <1>14 DEF CommitOutside, Drop, Restore, Stage
  <2>2. UNCHANGED <<db, messages, leased, tasks, history>>
    BY <1>14 DEF CommitOutside, Drop, Restore
  <2>3. ClientTyped' /\ \A b \in Blob : Got(b)' = Got(b)
    BY <1>1, <1>6, <2>1, <2>2, AtChanges DEF ClientTyped
  <2> QED  BY <1>3, <1>5, <2>2, <2>3, ClientStepTypes DEF db
<1>15. CASE Finalize(u)
  <2> DEFINE x == IF client[u].safe THEN "committed" ELSE "final"
             r == [uploads[u] EXCEPT !.state = x, !.idle = FALSE]
  <2>1. uploads' = [uploads EXCEPT ![u] = r]  BY <1>15 DEF Finalize
  <2>2. r \in UploadType  BY <1>2 DEF UploadType
  <2> HIDE DEF r
  <2>3. uploads' \in [Upload -> UploadType]  BY <1>1, <2>1, <2>2, UploadChanges
  <2>4. client' = [client EXCEPT ![u].at = "final"] \/ UNCHANGED client  BY <1>15 DEF Finalize
  <2>5. "final" \in Stage  BY DEF Stage
  <2>6. ClientTyped' /\ \A b \in Blob : Got(b)' = Got(b)
    BY <1>1, <1>4, <1>6, <1>15, <2>4, <2>5, AtChanges DEF Finalize, ClientTyped
  <2> QED  BY <1>5, <1>15, <2>3, <2>6, ClientStepTypes DEF Finalize
<1>16. CASE Released(u) \/ Kept(u)
  <2>1. PICK x \in {"released", "committed"} : uploads' = [uploads EXCEPT ![u].state = x]
    BY <1>16 DEF Released, Kept
  <2>2. uploads' \in [Upload -> UploadType]  BY <1>1, <2>1, StateChanges
  <2>3. UNCHANGED <<blobs, aliases, hooks, messages, leased, tasks, history>>
    BY <1>16 DEF Released, Kept
  <2>4. UNCHANGED client \/ client' = [client EXCEPT ![u].at = "kept"]  BY <1>16 DEF Released, Kept
  <2>5. "kept" \in Stage  BY DEF Stage
  <2>6. ClientTyped' /\ \A b \in Blob : Got(b)' = Got(b)
    BY <1>1, <1>4, <1>6, <2>3, <2>4, <2>5, AtChanges DEF ClientTyped
  <2> QED  BY <1>5, <2>2, <2>3, <2>6, ClientStepTypes
<1>17. CASE Cancel(u)  BY <1>17, CancelTypes
<1>18. CASE CommitTorn(u)  BY <1>18, TornTypes
<1> QED
  BY <1>8, <1>9, <1>10, <1>11, <1>12, <1>13, <1>14, <1>15, <1>16, <1>17, <1>18 DEF OfUpload

\* What a request has in hand was posted.
PutKnown(r, K) ==
  /\ r.msg \in K \cup {None} /\ r.old \in K \cup {None}
  /\ r.at \in Sent <=> r.msg # None
  /\ r.at \in {"replacing", "replaced"} => r.old # None

LEMMA PutChanges ==
  ASSUME Typing, NEW p \in Put, NEW r \in PutType \cup {None}, put' = [put EXCEPT ![p] = r],
         Known \subseteq Known', r # None => PutKnown(r, Known')
  PROVE  /\ PutTyped' /\ PutsKnown'
         /\ \A q \in Put : put'[q] = IF q = p THEN r ELSE put[q]
<1>1. PutTyped  BY Types DEF Typing, TasksTyped
<1>2. PutTyped' /\ \A q \in Put : put'[q] = IF q = p THEN r ELSE put[q]
  BY <1>1 DEF PutTyped
<1>3. ASSUME NEW q \in Put, put'[q] # None
      PROVE  /\ put'[q].msg \in Known' \cup {None} /\ put'[q].old \in Known' \cup {None}
             /\ put'[q].at \in Sent <=> put'[q].msg # None
             /\ put'[q].at \in {"replacing", "replaced"} => put'[q].old # None
  <2>1. CASE q = p  BY <1>2, <1>3, <2>1 DEF PutKnown
  <2>2. CASE q # p  BY <1>2, <1>3, <2>2 DEF Typing, InHand, PutsKnown
  <2> QED  BY <2>1, <2>2
<1>4. PutsKnown'  BY <1>3 DEF PutsKnown
<1> QED  BY <1>2, <1>4

\* The types of a step that changes one request, and messages.
LEMMA PutStepTypes ==
  ASSUME Typing, NEW p \in Put, NEW r \in PutType \cup {None}, put' = [put EXCEPT ![p] = r],
         MessagesTyped', MessagesKept, r # None => PutKnown(r, Known'),
         UNCHANGED <<db, leased, client, tick, eraser, job, history>>
  PROVE  Typing'
<1>1. Known \subseteq Known'  BY DEF MessagesKept
<1>2. PutTyped' /\ PutsKnown'  BY <1>1, PutChanges
<1>3. DbTyped' /\ ClientTyped' /\ HistoryTyped' /\ tick' \in TickType /\ EraserTyped' /\ job' \in JobType \cup {None}
  BY Types DEF Typing, DbTyped, ClientTyped, TasksTyped, EraserTyped, HistoryTyped, db, history
<1>4. TypeOK'  BY <1>2, <1>3, TypesNext DEF TasksTyped
<1>5. EraserTyped  BY Types DEF Typing, TasksTyped
<1>6. \A b \in Blob : Got(b)' = Got(b)  BY DEF Got
<1>7. RowsKnown' /\ AnswersKnown' /\ ErasersKnown' /\ JobKnown' /\ MoverKnown'
  BY <1>1, <1>5, <1>6, KnownStays DEF Typing, db
<1> QED  BY <1>2, <1>4, <1>7 DEF Typing, InHand

\* A request in progress, and what stays known of it.
LEMMA InProgress ==
  ASSUME Typing, NEW p \in Put, put[p] # None
  PROVE  /\ put[p] \in PutType /\ PutKnown(put[p], Known) /\ put[p].blob \in Blob /\ put[p].hash \in Hash
         /\ put[p].hooks \subseteq Hook
BY Types DEF Typing, TasksTyped, PutTyped, InHand, PutsKnown, PutKnown, PutType

\* A row that is written names the message that was posted for it.
LEMMA Storing ==
  ASSUME Typing, NEW p \in Put, put[p] # None, put[p].at \in {"posted", "replaced"}, Store(p),
         UNCHANGED <<uploads, aliases, hooks, messages, leased, tick, eraser, job, history>>
  PROVE  /\ Typing'
         /\ \A b \in Blob : blobs'[b] = IF b = put[p].blob
                                        THEN [msg |-> put[p].msg, hash |-> put[p].hash, deleted |-> FALSE]
                                        ELSE blobs[b]
<1> DEFINE r == put[p]
           row == [msg |-> r.msg, hash |-> r.hash, deleted |-> FALSE]
           a == [msg |-> r.msg, hash |-> r.hash]
<1>1. /\ r.blob \in Blob /\ r.hash \in Hash /\ r.msg \in Known /\ r.msg \in Msg
      /\ r.heard \in BOOLEAN
  BY InProgress, KnownAreMessages DEF Typing, PutKnown, Sent, PutType
<1>2. row \in Row /\ row # None /\ row.msg = r.msg
  <2>1. row \in Row /\ row.msg = r.msg  BY <1>1 DEF Row
  <2>2. None \notin Row  BY NoneIsNoRecord
  <2> QED  BY <2>1, <2>2
<1>3. a \in Placement /\ a.msg = r.msg  BY <1>1 DEF Placement
<1>4. /\ blobs' = [blobs EXCEPT ![r.blob] = row] /\ Answer(r.blob, a, r.heard)
      /\ put' = [put EXCEPT ![p] = None]
  BY DEF Store
<1>5. DbTyped /\ ClientTyped /\ TasksTyped /\ EraserTyped /\ HistoryTyped /\ MessagesTyped
  BY Types DEF Typing, TasksTyped
<1>6. Known' = Known  BY DEF Known
<1> HIDE DEF r, row, a
<1>7. /\ blobs' \in [Blob -> Row \cup {None}]
      /\ \A b \in Blob : blobs'[b] = IF b = r.blob THEN row ELSE blobs[b]
  BY <1>1, <1>2, <1>4, <1>5 DEF DbTyped
<1>8. RowsKnown'  BY <1>1, <1>2, <1>6, <1>7 DEF RowsKnown, Typing, InHand
<1>9. /\ client' \in [Upload -> ClientType]
      /\ \A c \in Blob : Got(c)' # None => Got(c)'.msg \in Known
  BY <1>1, <1>3, <1>4, Answering
<1>10. AnswersKnown'  BY <1>6, <1>9 DEF AnswersKnown
<1>11. PutTyped' /\ PutsKnown'
  <2>1. None \in PutType \cup {None} /\ Known \subseteq Known'  BY <1>6
  <2> QED  BY <1>4, <2>1, PutChanges
<1>12. ErasersKnown' /\ JobKnown' /\ MoverKnown'
  <2>1. \A b \in Blob : blobs[b] # None => blobs'[b] # None  BY <1>2, <1>7
  <2> QED  BY <1>5, <1>6, <2>1, KnownStays DEF Typing
<1>13. DbTyped' /\ ClientTyped' /\ TasksTyped' /\ HistoryTyped' /\ MessagesTyped'
  BY <1>5, <1>7, <1>9, <1>11 DEF DbTyped, ClientTyped, TasksTyped, EraserTyped, HistoryTyped, MessagesTyped, history
<1>14. TypeOK'  BY <1>13, TypesNext
<1> QED  BY <1>7, <1>8, <1>10, <1>11, <1>12, <1>14 DEF Typing, InHand, r, row

LEMMA PutStartTypes ==
  ASSUME Typing, NEW p \in Put, NEW u \in Upload, NEW i \in Piece, PutStart(p, u, i)
  PROVE  Typing'
<1> DEFINE b == <<u, i>>
           x == client[u].session
           new == [blob |-> b, hash |-> x, at |-> "reading",
                   old |-> IF Stored(b) THEN blobs[b].msg ELSE None,
                   hooks |-> {}, msg |-> None, heard |-> TRUE]
<1>1. DbTyped /\ ClientTyped /\ TasksTyped /\ EraserTyped /\ HistoryTyped /\ MessagesTyped
  BY Types DEF Typing, TasksTyped
<1>2. b \in Blob /\ x \in Hash  BY <1>1 DEF Blob, ClientTyped, ClientType
<1>3. Known' = Known /\ Known \subseteq Msg /\ None \notin Known
  BY KnownAreMessages DEF PutStart, Known, Typing
<1>4. uploads' \in [Upload -> UploadType]
  <2> DEFINE r == [uploads[u] EXCEPT !.state = IF @ = "none" THEN "open" ELSE @, !.idle = FALSE]
  <2>1. uploads[u] \in UploadType  BY <1>1 DEF DbTyped
  <2>2. r \in UploadType  BY <2>1 DEF UploadType
  <2>3. uploads' = [uploads EXCEPT ![u] = r]  BY DEF PutStart, Touched
  <2> HIDE DEF r
  <2> QED  BY <1>1, <2>2, <2>3, UploadChanges
<1>5. DbTyped' /\ MessagesTyped'  BY <1>1, <1>4 DEF PutStart, DbTyped, MessagesTyped
<1>6. HistoryTyped'  BY <1>1, <1>2 DEF PutStart, HistoryTyped
<1>7. Stored(b) => blobs[b].msg \in Known
  BY <1>2 DEF Stored, Typing, InHand, RowsKnown
<1>8. /\ ClientTyped' /\ AnswersKnown' /\ PutTyped' /\ PutsKnown'
  <2>1. CASE Stored(b) /\ blobs[b].hash = x
    <3> DEFINE a == [msg |-> blobs[b].msg, hash |-> x]
    <3>1. a \in Placement /\ a.msg \in Known  BY <1>2, <1>3, <1>7, <2>1 DEF Placement
    <3>2. Answer(b, a, TRUE) /\ UNCHANGED put  BY <2>1 DEF PutStart
    <3> HIDE DEF a, b
    <3>3. /\ client' \in [Upload -> ClientType]
          /\ \A c \in Blob : Got(c)' # None => Got(c)'.msg \in Known
      BY <1>2, <3>1, <3>2, Answering
    <3>4. ClientTyped' /\ AnswersKnown'
      BY <1>1, <1>3, <3>3 DEF PutStart, ClientTyped, AnswersKnown
    <3>5. PutTyped' /\ PutsKnown'
      BY <1>1, <1>3, <3>2, KnownStays DEF TasksTyped, PutTyped, Typing
    <3> QED  BY <3>4, <3>5
  <2>2. CASE ~(Stored(b) /\ blobs[b].hash = x)
    <3>1. put' = [put EXCEPT ![p] = new] /\ UNCHANGED client  BY <2>2 DEF PutStart
    <3>2. new \in PutType /\ PutKnown(new, Known)
      BY <1>2, <1>3, <1>7 DEF PutType, PutKnown, Sent
    <3>3. new # None  BY <3>2, NoneIsNoRecord
    <3> HIDE DEF new, b
    <3>4. PutKnown(new, Known')  BY <1>3, <3>2 DEF PutKnown
    <3>5. PutTyped' /\ PutsKnown'
      <4>1. new \in PutType \cup {None} /\ Known \subseteq Known'  BY <1>3, <3>2
      <4> QED  BY <3>1, <3>4, <4>1, PutChanges
    <3>6. \A c \in Blob : Got(c)' = Got(c)  BY <3>1 DEF Got
    <3>7. ClientTyped' /\ AnswersKnown'
      BY <1>1, <1>3, <3>1, <3>6, KnownStays DEF ClientTyped, PutStart, Typing
    <3> QED  BY <3>5, <3>7
  <2> QED  BY <2>1, <2>2
<1>9. TasksTyped'  BY <1>1, <1>8 DEF PutStart, TasksTyped, EraserTyped
<1>10. TypeOK'  BY <1>5, <1>6, <1>8, <1>9, TypesNext
<1>11. RowsKnown' /\ ErasersKnown' /\ JobKnown' /\ MoverKnown'
  BY <1>1, <1>3, KnownStays DEF PutStart, Typing
<1> QED  BY <1>8, <1>10, <1>11 DEF Typing, InHand

LEMMA PutTypes ==
  ASSUME Typing, NEW p \in Put, OfPut(p)
  PROVE  Typing'
<1>1. MessagesTyped  BY Types DEF Typing
<1>2. CASE \E u \in Upload, i \in Piece : PutStart(p, u, i)  BY <1>2, PutStartTypes
<1>3. CASE PutBody(p)
  <2> DEFINE r == [put[p] EXCEPT !.at = "posting", !.hooks = HooksFor]
  <2>1. put' = [put EXCEPT ![p] = r]  BY <1>3 DEF PutBody
  <2>2. put[p] # None /\ put[p].at = "reading" /\ UNCHANGED messages  BY <1>3 DEF PutBody
  <2>3. HooksFor \subseteq Hook  BY DEF HooksFor
  <2>4. r \in PutType  BY <2>2, <2>3, InProgress DEF PutType
  <2>5. PutKnown(r, Known)  BY <2>2, InProgress DEF PutType, PutKnown, Sent
  <2> HIDE DEF r
  <2>6. PutKnown(r, Known') /\ MessagesTyped' /\ MessagesKept  BY <1>1, <2>2, <2>5, Standing DEF PutKnown
  <2> QED  BY <1>3, <2>1, <2>4, <2>6, PutStepTypes DEF PutBody
<1>4. CASE PutLands(p)
  <2>1. put[p] # None /\ put[p].at = "posting"  BY <1>4 DEF PutLands
  <2>2. PICK h \in put[p].hooks : Post(h, put[p].hash)  BY <1>4 DEF PutLands
  <2>3. /\ MessagesTyped' /\ MessagesKept /\ Known' = Known \cup {Len(messages) + 1}
        /\ Len(messages) + 1 \in Msg
    BY <2>1, <2>2, Posting, InProgress DEF Typing
  <2>4. None \notin Known'  BY <2>3, KnownAreMessages, ConstantsAreTyped DEF Msg, Typing
  <2> DEFINE n == Len(messages) + 1
             r == [put[p] EXCEPT !.at = "posted", !.msg = n]
  <2>5. CASE put' = [put EXCEPT ![p] = r]
    <3>1. r \in PutType  BY <2>1, <2>3, InProgress DEF PutType
    <3>2. /\ r.msg = n /\ r.old = put[p].old /\ r.at = "posted"
      BY <2>1, InProgress DEF PutType
    <3> HIDE DEF r
    <3>3. n # None  BY <2>3, <2>4
    <3>4. PutKnown(r, Known')
      BY <2>1, <2>3, <3>2, <3>3, InProgress DEF PutKnown, Sent
    <3> QED  BY <1>4, <2>3, <2>5, <3>1, <3>4, PutStepTypes DEF PutLands
  <2>6. CASE UNCHANGED put
    <3>1. put' = [put EXCEPT ![p] = put[p]]  BY <2>6, Types DEF Typing, TasksTyped, PutTyped
    <3>2. PutKnown(put[p], Known') /\ put[p] \in PutType \cup {None}
      BY <2>1, <2>3, InProgress DEF PutKnown
    <3> DEFINE r0 == put[p]
    <3>3. put' = [put EXCEPT ![p] = r0] /\ r0 \in PutType \cup {None} /\ PutKnown(r0, Known')
      BY <3>1, <3>2
    <3> HIDE DEF r0
    <3> QED  BY <1>4, <2>3, <3>3, PutStepTypes DEF PutLands
  <2> QED  BY <1>4, <2>5, <2>6 DEF PutLands
<1>5. CASE PutFails(p)
  <2>1. put' = [put EXCEPT ![p] = None] /\ UNCHANGED messages  BY <1>5 DEF PutFails
  <2>2. MessagesTyped' /\ MessagesKept  BY <1>1, <2>1, Standing
  <2> QED  BY <1>5, <2>1, <2>2, PutStepTypes DEF PutFails
<1>6. CASE PutPosted(p)
  <2>1. put[p] # None /\ put[p].at = "posted"  BY <1>6 DEF PutPosted
  <2>2. CASE ~Gone(put[p].blob[1]) /\ put[p].old = None
    BY <1>6, <2>1, <2>2, Storing DEF PutPosted
  <2>3. CASE ~(~Gone(put[p].blob[1]) /\ put[p].old = None)
    <3> DEFINE x == IF Gone(put[p].blob[1]) THEN "dropping" ELSE "replacing"
               r == [put[p] EXCEPT !.at = x]
    <3>1. put' = [put EXCEPT ![p] = r] /\ UNCHANGED messages  BY <1>6, <2>3 DEF PutPosted
    <3>2. x = "dropping" \/ (x = "replacing" /\ put[p].old # None)  BY <2>3
    <3> HIDE DEF x
    <3>3. r \in PutType /\ r.at = x /\ r.old = put[p].old /\ r.msg = put[p].msg
      BY <2>1, <3>2, InProgress DEF PutType
    <3> HIDE DEF r
    <3>4. PutKnown(r, Known)  BY <2>1, <3>2, <3>3, InProgress DEF PutKnown, Sent
    <3>5. PutKnown(r, Known') /\ MessagesTyped' /\ MessagesKept  BY <1>1, <3>1, <3>4, Standing DEF PutKnown
    <3>6. UNCHANGED <<db, leased, client, tick, eraser, job, history>>  BY <1>6, <2>3 DEF PutPosted, db
    <3> QED  BY <3>1, <3>3, <3>5, <3>6, PutStepTypes
  <2> QED  BY <2>2, <2>3
<1>7. CASE PutDropped(p)
  <2>1. put[p] # None /\ put[p].at = "dropping" /\ put' = [put EXCEPT ![p] = None] /\ MayDelete(put[p].msg)
    BY <1>7 DEF PutDropped
  <2>2. put[p].msg \in Known  BY <2>1, InProgress DEF PutKnown, Sent
  <2>3. MessagesTyped' /\ MessagesKept  BY <2>1, <2>2, MayDeleting DEF Typing
  <2> QED  BY <1>7, <2>1, <2>3, PutStepTypes DEF PutDropped
<1>8. CASE PutReplaces(p)
  <2> DEFINE r == [put[p] EXCEPT !.at = "replaced"]
  <2>1. put[p] # None /\ put[p].at = "replacing" /\ put' = [put EXCEPT ![p] = r] /\ MayDelete(put[p].old)
    BY <1>8 DEF PutReplaces
  <2>2. put[p].old \in Known  BY <2>1, InProgress DEF PutKnown, Sent
  <2>3. MessagesTyped' /\ MessagesKept /\ Known' = Known  BY <2>1, <2>2, MayDeleting DEF Typing
  <2>4. r \in PutType /\ r.at = "replaced" /\ r.old = put[p].old /\ r.msg = put[p].msg
    BY <2>1, InProgress DEF PutType
  <2> HIDE DEF r
  <2>5. PutKnown(r, Known)  BY <2>1, <2>4, InProgress DEF PutKnown, Sent
  <2>6. PutKnown(r, Known')  BY <2>3, <2>5 DEF PutKnown
  <2> QED  BY <1>8, <2>1, <2>3, <2>4, <2>6, PutStepTypes DEF PutReplaces
<1>9. CASE PutReplaced(p)
  BY <1>9, Storing DEF PutReplaced
<1>10. CASE HangUp(p)
  <2> DEFINE r == [put[p] EXCEPT !.heard = FALSE]
  <2>1. put[p] # None /\ put' = [put EXCEPT ![p] = r] /\ UNCHANGED messages  BY <1>10 DEF HangUp
  <2>2. r \in PutType /\ r.at = put[p].at /\ r.old = put[p].old /\ r.msg = put[p].msg
    BY <2>1, InProgress DEF PutType
  <2> HIDE DEF r
  <2>3. PutKnown(r, Known)  BY <2>1, <2>2, InProgress DEF PutKnown
  <2>4. PutKnown(r, Known') /\ MessagesTyped' /\ MessagesKept  BY <1>1, <2>1, <2>3, Standing DEF PutKnown
  <2> QED  BY <1>10, <2>1, <2>2, <2>4, PutStepTypes DEF HangUp
<1> QED  BY <1>2, <1>3, <1>4, <1>5, <1>6, <1>7, <1>8, <1>9, <1>10 DEF OfPut

\* What an eraser is at names rows that were there.
EraserKnown(r, K) ==
  /\ \A x \in r.rows : x[2] \in K /\ blobs[<<r.upload, x[1]>>] # None
  /\ r.hit # None => blobs[<<r.upload, r.hit[1]>>] # None

LEMMA AtWork ==
  ASSUME Typing, NEW e \in Eraser, eraser[e] # None
  PROVE  /\ eraser[e] \in EraserType /\ EraserKnown(eraser[e], Known)
         /\ eraser[e].upload \in Upload /\ eraser[e].rows \subseteq Piece \X Msg
         /\ eraser[e].hit # None => eraser[e].hit \in Piece \X Msg
         /\ \A r \in Piece \X Msg : <<eraser[e].upload, r[1]>> \in Blob
<1>1. eraser[e] \in EraserType  BY Types DEF Typing, TasksTyped, EraserTyped
<1>2. /\ eraser[e].upload \in Upload /\ eraser[e].rows \subseteq Piece \X Msg
      /\ eraser[e].hit # None => eraser[e].hit \in Piece \X Msg
  BY <1>1 DEF EraserType
<1>3. EraserKnown(eraser[e], Known)  BY DEF Typing, InHand, ErasersKnown, EraserKnown
<1> QED  BY <1>1, <1>2, <1>3 DEF Blob

LEMMA EraserChanges ==
  ASSUME Typing, NEW e \in Eraser, NEW r \in EraserType \cup {None}, eraser' = [eraser EXCEPT ![e] = r],
         Known \subseteq Known', r # None => EraserKnown(r, Known),
         \A b \in Blob : blobs[b] # None => blobs'[b] # None
  PROVE  /\ EraserTyped' /\ ErasersKnown'
         /\ \A f \in Eraser : eraser'[f] = IF f = e THEN r ELSE eraser[f]
<1>1. EraserTyped  BY Types DEF Typing, TasksTyped
<1>2. EraserTyped' /\ \A f \in Eraser : eraser'[f] = IF f = e THEN r ELSE eraser[f]
  BY <1>1 DEF EraserTyped
<1>3. ASSUME NEW f \in Eraser, eraser'[f] # None
      PROVE  /\ \A x \in eraser'[f].rows : x[2] \in Known' /\ blobs'[<<eraser'[f].upload, x[1]>>] # None
             /\ eraser'[f].hit # None => blobs'[<<eraser'[f].upload, eraser'[f].hit[1]>>] # None
  <2> DEFINE y == eraser'[f]
  <2>1. y \in EraserType /\ EraserKnown(y, Known)
    <3>1. CASE f = e  BY <1>2, <1>3, <3>1
    <3>2. CASE f # e  BY <1>2, <1>3, <3>2, AtWork
    <3> QED  BY <3>1, <3>2
  <2> HIDE DEF y
  <2>2. /\ y.upload \in Upload /\ y.rows \subseteq Piece \X Msg
        /\ y.hit # None => y.hit \in Piece \X Msg
    BY <2>1 DEF EraserType
  <2>3. \A x \in Piece \X Msg : <<y.upload, x[1]>> \in Blob  BY <2>2 DEF Blob
  <2>4. \A x \in y.rows : x[2] \in Known /\ blobs[<<y.upload, x[1]>>] # None /\ x \in Piece \X Msg
    BY <2>1, <2>2 DEF EraserKnown
  <2>5. \A x \in y.rows : x[2] \in Known' /\ blobs'[<<y.upload, x[1]>>] # None  BY <2>3, <2>4
  <2>6. y.hit # None => blobs'[<<y.upload, y.hit[1]>>] # None
    BY <2>1, <2>2, <2>3 DEF EraserKnown
  <2> QED  BY <2>5, <2>6 DEF y
<1>4. ErasersKnown'  BY <1>3 DEF ErasersKnown
<1> QED  BY <1>2, <1>4

\* What Left leaves of an eraser.
LEMMA Leaving ==
  ASSUME Typing, NEW e \in Eraser, eraser[e] # None,
         NEW rows, rows \subseteq eraser[e].rows,
         NEW hit, hit = None \/ hit \in eraser[e].rows, Left(e, rows, hit)
  PROVE  \E r \in EraserType \cup {None} :
           /\ eraser' = [eraser EXCEPT ![e] = r]
           /\ r # None => /\ EraserKnown(r, Known) /\ r.upload = eraser[e].upload
                          /\ r.rows = rows /\ r.hit = hit
<1> DEFINE x == [eraser[e] EXCEPT !.rows = rows, !.hit = hit]
           r == IF rows = {} /\ hit = None THEN None ELSE x
<1>1. eraser' = [eraser EXCEPT ![e] = r]  BY DEF Left
<1>2. x \in EraserType /\ x.upload = eraser[e].upload /\ x.rows = rows /\ x.hit = hit
  BY AtWork DEF EraserType
<1>3. EraserKnown(x, Known)  BY <1>2, AtWork DEF EraserKnown
<1>4. r \in EraserType \cup {None} /\ (r # None => r = x)  BY <1>2
<1> HIDE DEF x, r
<1> QED  BY <1>1, <1>2, <1>3, <1>4

\* The types of a step of an eraser: messages lose their bytes, rows are marked.
LEMMA EraserStepTypes ==
  ASSUME Typing, NEW e \in Eraser, eraser[e] # None, NEW r \in EraserType \cup {None},
         eraser' = [eraser EXCEPT ![e] = r], r # None => EraserKnown(r, Known),
         MessagesTyped', MessagesKept, UNCHANGED <<uploads, blobs, aliases, hooks, leased, client, put, tick, job, history>>
  PROVE  Typing'
<1>1. Known \subseteq Known'  BY DEF MessagesKept
<1>2. /\ EraserTyped' /\ ErasersKnown'
      /\ \A f \in Eraser : eraser'[f] = IF f = e THEN r ELSE eraser[f]
  BY <1>1, EraserChanges
<1>3. DbTyped' /\ ClientTyped' /\ HistoryTyped' /\ tick' \in TickType /\ PutTyped' /\ job' \in JobType \cup {None}
  BY Types DEF Typing, DbTyped, ClientTyped, TasksTyped, PutTyped, HistoryTyped, history
<1>4. TypeOK'  BY <1>2, <1>3, TypesNext DEF TasksTyped
<1>5. \A b \in Blob : Got(b)' = Got(b)  BY DEF Got
<1>6. RowsKnown' /\ AnswersKnown' /\ PutsKnown' /\ JobKnown'
  BY <1>1, <1>5, KnownStays DEF Typing
<1>7. MoverKnown'  BY <1>2 DEF MoverKnown, Eraser, Typing, InHand
<1> QED  BY <1>2, <1>4, <1>6, <1>7 DEF Typing, InHand

LEMMA EraserTypes ==
  ASSUME Typing, NEW e \in Eraser, OfEraser(e)
  PROVE  Typing'
<1>1. DbTyped /\ TasksTyped /\ MessagesTyped  BY Types DEF Typing
<1>2. UNCHANGED messages => MessagesTyped' /\ MessagesKept  BY <1>1, Standing
<1>3. CASE EraseMessage(e)
  <2>1. eraser[e] # None  BY <1>3 DEF EraseMessage
  <2>2. PICK r \in eraser[e].rows : messages' = Deleted(r[2]) /\ Left(e, eraser[e].rows \ {r}, r)
    BY <1>3 DEF EraseMessage
  <2>3. r[2] \in Known  BY <2>1, AtWork DEF EraserKnown
  <2>4. MessagesTyped' /\ MessagesKept  BY <2>2, <2>3, Deleting DEF Typing
  <2> DEFINE left == eraser[e].rows \ {r}
  <2>5. left \subseteq eraser[e].rows /\ Left(e, left, r)  BY <2>2
  <2> HIDE DEF left
  <2>6. PICK x \in EraserType \cup {None} :
          eraser' = [eraser EXCEPT ![e] = x] /\ (x # None => EraserKnown(x, Known))
    BY <2>1, <2>5, Leaving
  <2> QED  BY <1>3, <2>1, <2>4, <2>6, EraserStepTypes DEF EraseMessage, db
<1>4. CASE EraseSkips(e)
  <2>1. eraser[e] # None  BY <1>4 DEF EraseSkips
  <2>2. PICK r \in eraser[e].rows : Left(e, eraser[e].rows \ {r}, None)  BY <1>4 DEF EraseSkips
  <2> DEFINE left == eraser[e].rows \ {r}
             none == None
  <2>3. left \subseteq eraser[e].rows /\ Left(e, left, none) /\ none = None  BY <2>2
  <2> HIDE DEF left, none
  <2>4. PICK x \in EraserType \cup {None} :
          eraser' = [eraser EXCEPT ![e] = x] /\ (x # None => EraserKnown(x, Known))
    BY <2>1, <2>3, Leaving
  <2> QED  BY <1>2, <1>4, <2>1, <2>4, EraserStepTypes DEF EraseSkips, db
<1>5. CASE EraseMarks(e)
  <2>1. eraser[e] # None /\ eraser[e].hit # None  BY <1>5 DEF EraseMarks
  <2> DEFINE b == <<eraser[e].upload, eraser[e].hit[1]>>
             row == [blobs[b] EXCEPT !.deleted = TRUE]
             left == eraser[e].rows
             none == None
  <2>2. b \in Blob /\ blobs[b] # None  BY <2>1, AtWork DEF EraserKnown
  <2>3. blobs' = [blobs EXCEPT ![b] = row]  BY <1>5 DEF EraseMarks
  <2>4. blobs[b] \in Row  BY <1>1, <2>2 DEF DbTyped
  <2>5. row \in Row /\ row.msg = blobs[b].msg  BY <2>4 DEF Row
  <2>6. row # None  BY <2>5, NoneIsNoRecord
  <2>7. left \subseteq eraser[e].rows /\ Left(e, left, none) /\ none = None  BY <1>5 DEF EraseMarks
  <2> HIDE DEF b, row, left, none
  <2>8. PICK x \in EraserType \cup {None} :
          eraser' = [eraser EXCEPT ![e] = x] /\ (x # None => EraserKnown(x, Known))
    BY <2>1, <2>7, Leaving
  <2>9. /\ blobs' \in [Blob -> Row \cup {None}]
        /\ \A c \in Blob : blobs'[c] = IF c = b THEN row ELSE blobs[c]
    BY <1>1, <2>2, <2>3, <2>5 DEF DbTyped
  <2>10. Known' = Known  BY <1>5 DEF EraseMarks, Known
  <2>11. \A c \in Blob : blobs[c] # None => blobs'[c] # None  BY <2>6, <2>9
  <2>12. /\ EraserTyped' /\ ErasersKnown'
         /\ \A f \in Eraser : eraser'[f] = IF f = e THEN x ELSE eraser[f]
    BY <2>8, <2>10, <2>11, EraserChanges
  <2>13. RowsKnown'  BY <2>2, <2>5, <2>9, <2>10 DEF RowsKnown, Typing, InHand
  <2>14. \A c \in Blob : Got(c)' = Got(c)  BY <1>5 DEF Got, EraseMarks
  <2>15. AnswersKnown' /\ PutsKnown' /\ JobKnown'
    BY <1>5, <2>10, <2>14, KnownStays DEF EraseMarks, Typing
  <2>16. MoverKnown'  BY <1>5, <2>1, <2>12 DEF MoverKnown, Eraser, EraseMarks, Typing, InHand
  <2>17. DbTyped' /\ ClientTyped' /\ HistoryTyped' /\ tick' \in TickType /\ PutTyped' /\ job' \in JobType \cup {None}
    BY <1>5, <2>9, Types DEF EraseMarks, Typing, DbTyped, ClientTyped, TasksTyped, PutTyped, HistoryTyped, history
  <2>18. TypeOK'  BY <1>2, <1>5, <2>12, <2>17, TypesNext DEF TasksTyped, EraseMarks
  <2> QED  BY <2>12, <2>13, <2>15, <2>16, <2>18 DEF Typing, InHand
<1>6. CASE EraseThrows(e)
  <2>1. Known' = Known  BY <1>6 DEF EraseThrows, Known
  <2>2. /\ EraserTyped' /\ ErasersKnown'
        /\ \A f \in Eraser : eraser'[f] = IF f = e THEN None ELSE eraser[f]
    <3> DEFINE none == None
    <3>1. none \in EraserType \cup {None} /\ eraser' = [eraser EXCEPT ![e] = none] /\ none = None
      BY <1>6 DEF EraseThrows
    <3>2. Known \subseteq Known' /\ UNCHANGED blobs  BY <1>6, <2>1 DEF EraseThrows, db
    <3> HIDE DEF none
    <3> QED  BY <3>1, <3>2, EraserChanges
  <2>3. tick' \in TickType  BY <1>1, <1>6 DEF EraseThrows, TasksTyped, NoTick, TickType
  <2>4. job' \in JobType \cup {None} /\ JobKnown' /\ MoverKnown'
    <3>1. CASE e = "mover" /\ job # None
      <4>1. Paused \in JobType /\ Paused.at = "off" /\ Paused.trash = job.trash
            /\ Paused.rows = {} /\ Paused.row = None /\ Paused.msg = None
        BY <1>1, <3>1 DEF Paused, TasksTyped, JobType
      <4>2. job' = Paused  BY <1>6, <3>1 DEF EraseThrows
      <4>3. JobKnown'  BY <2>1, <3>1, <4>1, <4>2 DEF JobKnown, Typing, InHand
      <4>4. eraser'["mover"] = None  BY <2>2, <3>1
      <4> QED  BY <4>1, <4>2, <4>3, <4>4 DEF MoverKnown
    <3>2. CASE e # "mover"
      <4>1. UNCHANGED job  BY <1>6, <3>2 DEF EraseThrows
      <4>2. eraser'["mover"] = eraser["mover"]  BY <2>2, <3>2 DEF Eraser
      <4>3. JobKnown'  BY <2>1, <4>1, KnownStays DEF Typing
      <4>4. MoverKnown'  BY <4>1, <4>2 DEF MoverKnown, Typing, InHand
      <4> QED  BY <1>1, <4>1, <4>3, <4>4 DEF TasksTyped
    <3>3. CASE e = "mover" /\ job = None
      BY <1>6, <3>3 DEF EraseThrows, Typing, InHand, MoverKnown
    <3> QED  BY <3>1, <3>2, <3>3
  <2>5. \A b \in Blob : Got(b)' = Got(b)  BY <1>6 DEF Got, EraseThrows
  <2>6. RowsKnown' /\ AnswersKnown' /\ PutsKnown'
    BY <1>6, <2>1, <2>5, KnownStays DEF EraseThrows, Typing, db
  <2>7. DbTyped' /\ ClientTyped' /\ HistoryTyped' /\ PutTyped'
    BY <1>6, Types DEF EraseThrows, Typing, DbTyped, ClientTyped, TasksTyped, PutTyped, HistoryTyped, history, db
  <2>8. TypeOK'  BY <1>2, <1>6, <2>2, <2>3, <2>4, <2>7, TypesNext DEF TasksTyped, EraseThrows
  <2> QED  BY <2>2, <2>4, <2>6, <2>8 DEF Typing, InHand
<1> QED  BY <1>3, <1>4, <1>5, <1>6 DEF OfEraser

\* The types of a step of the background pass: its place, an upload's state
\* and what it begins to erase.
LEMMA TickStepTypes ==
  ASSUME Typing, tick' \in TickType, uploads' \in [Upload -> UploadType], EraserTyped', ErasersKnown',
         eraser'["mover"] = eraser["mover"],
         UNCHANGED <<blobs, aliases, hooks, messages, leased, client, put, job, history>>
  PROVE  Typing'
<1>1. DbTyped' /\ MessagesTyped' /\ ClientTyped' /\ PutTyped' /\ HistoryTyped' /\ job' \in JobType \cup {None}
  BY Types DEF Typing, DbTyped, MessagesTyped, ClientTyped, TasksTyped, PutTyped, HistoryTyped, history
<1>2. TypeOK'  BY <1>1, TypesNext DEF TasksTyped
<1>3. Known' = Known /\ \A b \in Blob : Got(b)' = Got(b)  BY DEF Known, Got
<1>4. RowsKnown' /\ AnswersKnown' /\ PutsKnown' /\ JobKnown'  BY <1>3, KnownStays DEF Typing
<1>5. MoverKnown'  BY DEF MoverKnown, Typing, InHand
<1> QED  BY <1>2, <1>4, <1>5 DEF Typing, InHand

LEMMA TickTypes ==
  ASSUME Typing, Tick
  PROVE  Typing'
<1>1. DbTyped /\ EraserTyped /\ tick \in TickType /\ ErasersKnown
  BY Types DEF Typing, TasksTyped, InHand
<1>2. UNCHANGED uploads => uploads' \in [Upload -> UploadType]  BY <1>1 DEF DbTyped
<1>3. UNCHANGED <<eraser, blobs, messages>> =>
        EraserTyped' /\ ErasersKnown' /\ eraser'["mover"] = eraser["mover"]
  BY <1>1 DEF EraserTyped, ErasersKnown, Known
<1>4. ASSUME NEW u \in Upload, Erase("tick", u), UNCHANGED <<blobs, messages>>
      PROVE  EraserTyped' /\ ErasersKnown' /\ eraser'["mover"] = eraser["mover"]
  BY <1>4, Erasing DEF Eraser
<1>5. UNCHANGED <<blobs, aliases, hooks, messages, leased, client, put, job, history>>
  BY DEF Tick, TickStart, TickReap, TickPurges, TickPurge, TickPurged, TickLeftovers, TickLeftover, db
<1>6. tick' \in TickType
  <2>1. CASE TickStart
    BY <2>1 DEF TickStart, TickType, Abandoned
  <2>2. CASE TickReap \/ TickPurge
    BY <1>1, <2>2 DEF TickReap, TickPurge, TickType
  <2>3. CASE TickPurges
    <3>1. PICK due \in SUBSET {u \in Upload : State(u) = "released"} :
            tick' = [tick EXCEPT !.at = "purge", !.todo = due]
      BY <2>3 DEF TickPurges
    <3> QED  BY <1>1, <3>1 DEF TickType
  <2>4. CASE TickPurged  BY <1>1, <2>4 DEF TickPurged, TickType
  <2>5. CASE TickLeftovers  BY <1>1, <2>5 DEF TickLeftovers, TickType, Leftover
  <2>6. CASE TickLeftover  BY <1>1, <2>6 DEF TickLeftover, TickType, NoTick
  <2> QED  BY <2>1, <2>2, <2>3, <2>4, <2>5, <2>6 DEF Tick
<1>7. uploads' \in [Upload -> UploadType]
  <2>1. CASE TickReap
    <3>1. ASSUME NEW u \in Upload, uploads' = [uploads EXCEPT ![u].state = "reaped"]
          PROVE  uploads' \in [Upload -> UploadType]
      BY <1>1, <3>1, StateChanges DEF Tombstones
    <3> QED  BY <1>1, <1>2, <2>1, <3>1 DEF TickReap, TickType
  <2>2. CASE TickPurged
    <3>1. tick.on \in Upload  BY <1>1, <2>2 DEF TickPurged, TickType
    <3> DEFINE x == "purged"
    <3>2. x \in {"none", "open", "final", "committed", "released"} \cup Tombstones
      BY DEF Tombstones
    <3>3. uploads' = [uploads EXCEPT ![tick.on].state = x]  BY <2>2 DEF TickPurged
    <3> HIDE DEF x
    <3> QED  BY <1>1, <3>1, <3>2, <3>3, StateChanges
  <2>3. CASE ~TickReap /\ ~TickPurged
    BY <1>2, <2>3 DEF Tick, TickStart, TickPurges, TickPurge, TickLeftovers, TickLeftover, db
  <2> QED  BY <2>1, <2>2, <2>3
<1>8. EraserTyped' /\ ErasersKnown' /\ eraser'["mover"] = eraser["mover"]
  <2>1. CASE UNCHANGED eraser  BY <1>3, <1>5, <2>1
  <2>2. CASE \E u \in Upload : Erase("tick", u)  BY <1>4, <1>5, <2>2
  <2>3. tick.todo \subseteq Upload  BY <1>1 DEF TickType
  <2> QED
    BY <2>1, <2>2, <2>3
    DEF Tick, TickStart, TickReap, TickPurges, TickPurge, TickPurged, TickLeftovers, TickLeftover
<1> QED  BY <1>5, <1>6, <1>7, <1>8, TickStepTypes

\* The types of a step that changes webhooks, or the place of the job.
LEMMA JobStepTypes ==
  ASSUME Typing, job' \in JobType \cup {None}, JobKnown', MoverKnown',
         hooks' \in [Hook -> {"active", "retired", "moved", "removed"}], MessagesTyped', MessagesKept,
         UNCHANGED <<uploads, blobs, aliases, leased, client, put, tick, eraser, history>>
  PROVE  Typing'
<1>1. Known \subseteq Known' /\ \A b \in Blob : Got(b)' = Got(b)  BY DEF MessagesKept, Got
<1>2. EraserTyped  BY Types DEF Typing, TasksTyped
<1>3. DbTyped' /\ ClientTyped' /\ PutTyped' /\ EraserTyped' /\ HistoryTyped' /\ tick' \in TickType
  BY Types DEF Typing, DbTyped, ClientTyped, TasksTyped, PutTyped, EraserTyped, HistoryTyped, history
<1>4. TypeOK'  BY <1>3, TypesNext DEF TasksTyped
<1>5. RowsKnown' /\ AnswersKnown' /\ PutsKnown' /\ ErasersKnown'  BY <1>1, <1>2, KnownStays DEF Typing
<1> QED  BY <1>4, <1>5 DEF Typing, InHand

LEMMA HookTypes ==
  ASSUME Typing, NEW h \in Hook, OfHook(h)
  PROVE  Typing'
<1>1. DbTyped /\ MessagesTyped /\ job \in JobType \cup {None}  BY Types DEF Typing, TasksTyped
<1>2. hooks' \in [Hook -> {"active", "retired", "moved", "removed"}]
  BY <1>1 DEF DbTyped, OfHook, Retire, RemoveAnyway, Paste, EnqueueMove
<1>3. UNCHANGED <<uploads, blobs, aliases, messages, leased, client, put, tick, eraser, history>>
  BY DEF OfHook, Retire, RemoveAnyway, Paste, EnqueueMove, tasks
<1>4. MessagesTyped' /\ MessagesKept /\ Known' = Known  BY <1>1, <1>3, Standing
<1>5. job' \in JobType \cup {None} /\ JobKnown' /\ MoverKnown'
  <2>1. CASE UNCHANGED job  BY <1>1, <1>3, <1>4, <2>1, KnownStays DEF Typing
  <2>2. CASE EnqueueMove(h)
    <3> DEFINE r == [hook |-> h, state |-> "queued", at |-> "off",
                     rows |-> {}, row |-> None, msg |-> None, trash |-> {}]
    <3>1. job' = r /\ job = None  BY <2>2 DEF EnqueueMove
    <3>2. r \in JobType /\ r.at = "off" /\ r.rows = {} /\ r.row = None /\ r.msg = None /\ r.trash = {}
      BY DEF JobType
    <3> HIDE DEF r
    <3>3. JobKnown'  BY <3>1, <3>2 DEF JobKnown
    <3>4. MoverKnown'  BY <1>3, <3>1 DEF MoverKnown, Typing, InHand
    <3> QED  BY <3>1, <3>2, <3>3, <3>4
  <2> QED  BY <2>1, <2>2 DEF OfHook, Retire, RemoveAnyway, Paste, tasks
<1> QED  BY <1>2, <1>3, <1>4, <1>5, JobStepTypes

LEMMA RestartTypes ==
  ASSUME Typing, RestartServer
  PROVE  Typing'
<1>1. ClientTyped' /\ HistoryTyped'
  <2>1. ClientTyped /\ HistoryTyped  BY Types DEF Typing
  <2>2. ClientTyped'  BY <2>1 DEF RestartServer, Stopped, ClientTyped
  <2>3. HistoryTyped'  BY <2>1, ConstantsAreTyped DEF RestartServer, HistoryTyped
  <2> QED  BY <2>2, <2>3
<1>2. AnswersKnown'
  <2>1. Known' = Known /\ \A b \in Blob : Got(b)' = Got(b)  BY DEF RestartServer, Known, Got
  <2> QED  BY <2>1, KnownStays DEF Typing
<1> QED  BY <1>1, <1>2, StoppedTypes DEF RestartServer

\* The row is switched to the copy, or the copy is deleted.
LEMMA SwitchTypes ==
  ASSUME Typing, JobSwitches
  PROVE  Typing'
<1>1. DbTyped /\ MessagesTyped /\ EraserTyped /\ job \in JobType \cup {None}
  BY Types DEF Typing, TasksTyped
<1>2. /\ job # None /\ job \in JobType /\ job.at = "switch"
      /\ UNCHANGED <<uploads, hooks, leased, client, put, tick, eraser, history>>
  BY <1>1 DEF JobSwitches, MoverAt
<1>3. JobKnown /\ MoverKnown  BY DEF Typing, InHand
<1>4. /\ job.msg \in Known /\ job.msg \in Msg /\ job.row \in OldRow /\ job.row.msg \in Known
      /\ job.rows \subseteq OldRow /\ \A r \in job.rows : r.msg \in Known
  BY <1>2, <1>3, KnownAreMessages DEF JobKnown, JobType, Typing
<1>5. MoverKnown'  BY <1>2, <1>3 DEF MoverKnown
<1>6. CASE ~StillThere(job.row)
  <2> DEFINE y == [job EXCEPT !.at = "copy", !.row = None, !.msg = None]
  <2>1. job' = y /\ MayDelete(job.msg) /\ UNCHANGED <<blobs, aliases>>  BY <1>6 DEF JobSwitches
  <2>2. MessagesTyped' /\ MessagesKept /\ Known' = Known  BY <1>4, <2>1, MayDeleting DEF Typing
  <2>3. /\ y \in JobType /\ y.at = "copy" /\ y.rows = job.rows /\ y.row = None
        /\ y.msg = None /\ y.trash = job.trash
    BY <1>2 DEF JobType
  <2> HIDE DEF y
  <2>4. JobKnown'  BY <1>2, <1>3, <1>4, <2>1, <2>2, <2>3 DEF JobKnown
  <2>5. hooks' \in [Hook -> {"active", "retired", "moved", "removed"}]  BY <1>1, <1>2 DEF DbTyped
  <2> QED  BY <1>2, <1>5, <2>1, <2>2, <2>3, <2>4, <2>5, JobStepTypes
<1>7. CASE StillThere(job.row)
  <2> DEFINE c == job.row.blob
             row == [blobs[c] EXCEPT !.msg = job.msg]
             more == job.trash \cup {job.row.msg}
             y == [job EXCEPT !.at = "copy", !.row = None, !.msg = None, !.trash = more]
  <2>1. /\ blobs' = [blobs EXCEPT ![c] = row] /\ aliases' = Aliased(job.row)
        /\ job' = y /\ UNCHANGED messages
    BY <1>7 DEF JobSwitches
  <2>2. c \in Blob /\ blobs[c] # None /\ blobs[c] \in Row
    BY <1>1, <1>4, <1>7 DEF StillThere, Stored, DbTyped, OldRow
  <2>3. row \in Row /\ row.msg = job.msg  BY <1>4, <2>2 DEF Row
  <2>4. row # None  BY <2>3, NoneIsNoRecord
  <2>5. more \subseteq Msg /\ more \subseteq Known
    BY <1>2, <1>3, <1>4, KnownAreMessages DEF JobKnown, JobType, Typing
  <2> HIDE DEF c, row, more
  <2>6. /\ y \in JobType /\ y.at = "copy" /\ y.rows = job.rows /\ y.row = None
        /\ y.msg = None /\ y.trash = more
    BY <1>2, <2>5 DEF JobType
  <2> HIDE DEF y
  <2>7. Known' = Known  BY <2>1 DEF Known
  <2>8. JobKnown'  BY <1>4, <2>1, <2>5, <2>6, <2>7 DEF JobKnown
  <2>9. /\ blobs' \in [Blob -> Row \cup {None}]
        /\ \A b \in Blob : blobs'[b] = IF b = c THEN row ELSE blobs[b]
    BY <1>1, <2>1, <2>2, <2>3 DEF DbTyped
  <2>10. RowsKnown'  BY <1>4, <2>3, <2>7, <2>9 DEF RowsKnown, Typing, InHand
  <2>11. \A b \in Blob : blobs[b] # None => blobs'[b] # None  BY <2>4, <2>9
  <2>12. \A b \in Blob : Got(b)' = Got(b)  BY <1>2 DEF Got
  <2>13. AnswersKnown' /\ PutsKnown' /\ ErasersKnown'
    BY <1>1, <1>2, <2>7, <2>11, <2>12, KnownStays DEF Typing
  <2>14. DbTyped'  BY <1>1, <1>2, <1>4, <2>1, <2>9 DEF DbTyped, Aliased
  <2>15. MessagesTyped' /\ ClientTyped' /\ PutTyped' /\ EraserTyped' /\ HistoryTyped' /\ tick' \in TickType
    BY <1>2, <2>1, Types DEF Typing, MessagesTyped, ClientTyped, TasksTyped, PutTyped, EraserTyped, HistoryTyped, history
  <2>16. TypeOK'  BY <2>1, <2>6, <2>14, <2>15, TypesNext DEF TasksTyped
  <2> QED  BY <1>5, <2>8, <2>10, <2>13, <2>16 DEF Typing, InHand
<1> QED  BY <1>6, <1>7

LEMMA MoverTypes ==
  ASSUME Typing, Mover
  PROVE  Typing'
<1>1. DbTyped /\ MessagesTyped /\ EraserTyped /\ job \in JobType \cup {None}
  BY Types DEF Typing, TasksTyped
<1>2. job # None /\ job \in JobType
  BY <1>1 DEF Mover, MoverAt, JobRuns, JobSettled, JobBatch, JobCopies, JobSwitches, JobErases, JobChecks,
     JobTrash, JobFinishes, JobFails
<1>3. UNCHANGED hooks => hooks' \in [Hook -> {"active", "retired", "moved", "removed"}]  BY <1>1 DEF DbTyped
<1>4. UNCHANGED messages => MessagesTyped' /\ MessagesKept /\ Known' = Known  BY <1>1, Standing
<1>5. JobKnown /\ MoverKnown  BY DEF Typing, InHand
<1>6. /\ Paused \in JobType /\ Paused.at = "off" /\ Paused.trash = job.trash
      /\ Paused.rows = {} /\ Paused.row = None /\ Paused.msg = None
  BY <1>2 DEF Paused, JobType
<1>7. ASSUME job' = Paused, Known \subseteq Known'  PROVE JobKnown'
  BY <1>2, <1>5, <1>6, <1>7 DEF JobKnown
<1>8. ASSUME NEW x \in {"settle", "garbage", "settle2", "trash", "copy"}, JobGoes(x), job.at # "switch",
             UNCHANGED messages, job.rows = {}
      PROVE  job' \in JobType /\ JobKnown' /\ job'.at = x
  <2>1. /\ job' \in JobType /\ job'.at = x /\ job'.rows = job.rows /\ job'.row = job.row
        /\ job'.msg = job.msg /\ job'.trash = job.trash
    BY <1>2, <1>8 DEF JobGoes, JobType
  <2> QED  BY <1>2, <1>4, <1>5, <1>8, <2>1 DEF JobKnown
<1>9. CASE JobRuns
  <2> DEFINE r == [job EXCEPT !.state = "running", !.at = "settle"]
  <2>1. /\ r \in JobType /\ r.at = "settle" /\ r.rows = job.rows /\ r.row = job.row
        /\ r.msg = job.msg /\ r.trash = job.trash
    BY <1>2 DEF JobType
  <2>2. job' = r /\ job.at = "off" /\ UNCHANGED <<messages, hooks, eraser>>
    BY <1>9 DEF JobRuns, MoverAt, db
  <2> HIDE DEF r
  <2>3. JobKnown'  BY <1>2, <1>4, <1>5, <2>1, <2>2 DEF JobKnown
  <2>4. MoverKnown'  BY <1>2, <1>5, <2>2 DEF MoverKnown
  <2> QED  BY <1>3, <1>4, <1>9, <2>1, <2>2, <2>3, <2>4, JobStepTypes DEF JobRuns, db
<1>10. CASE JobSettled
  <2>1. job.at = "settle" /\ JobGoes("copy") /\ UNCHANGED <<messages, hooks, eraser>> /\ job.rows = {}
    BY <1>2, <1>5, <1>10 DEF JobSettled, MoverAt, db, JobKnown
  <2>2. job' \in JobType /\ JobKnown'  BY <1>8, <2>1
  <2>3. MoverKnown'  BY <1>5, <2>1 DEF MoverKnown
  <2> QED  BY <1>3, <1>4, <1>10, <2>1, <2>2, <2>3, JobStepTypes DEF JobSettled, db
<1>11. CASE JobBatch
  <2>1. job.at = "copy" /\ job.rows = {} /\ UNCHANGED <<messages, hooks, eraser>>
    BY <1>11 DEF JobBatch, MoverAt, db
  <2>2. MoverKnown'  BY <1>5, <2>1 DEF MoverKnown
  <2> DEFINE old == {[blob |-> b, msg |-> blobs[b].msg] : b \in Movable(job.hook)}
  <2>3. job' \in JobType /\ JobKnown'
    <3>1. CASE Movable(job.hook) = {}
      <4> DEFINE r == [job EXCEPT !.at = "garbage", !.rows = Garbage(job.hook)]
      <4>1. Garbage(job.hook) \subseteq Upload  BY DEF Garbage, OnHook, Blob
      <4>2. /\ r \in JobType /\ r.at = "garbage" /\ r.rows \subseteq Upload /\ r.row = job.row
            /\ r.msg = job.msg /\ r.trash = job.trash
        BY <1>2, <4>1 DEF JobType
      <4>3. job' = r  BY <1>11, <3>1 DEF JobBatch
      <4> HIDE DEF r
      <4> QED  BY <1>2, <1>4, <1>5, <2>1, <4>2, <4>3 DEF JobKnown
    <3>2. CASE Movable(job.hook) # {}
      <4> DEFINE r == [job EXCEPT !.rows = old]
      <4>1. \A x \in old : x \in OldRow /\ x.msg \in Known
        <5> SUFFICES ASSUME NEW b \in Movable(job.hook)
                     PROVE  [blob |-> b, msg |-> blobs[b].msg] \in OldRow /\ blobs[b].msg \in Known
          OBVIOUS
        <5>1. b \in Blob /\ blobs[b] # None  BY DEF Movable, OnHook, Stored
        <5>2. blobs[b].msg \in Known /\ blobs[b].msg \in Msg
          BY <5>1, KnownAreMessages DEF Typing, InHand, RowsKnown
        <5> QED  BY <5>1, <5>2 DEF OldRow
      <4>2. job' = r  BY <1>11, <3>2 DEF JobBatch
      <4> HIDE DEF old
      <4>3. /\ r \in JobType /\ r.at = job.at /\ r.rows = old /\ r.row = job.row
            /\ r.msg = job.msg /\ r.trash = job.trash
        BY <1>2, <4>1 DEF JobType
      <4> HIDE DEF r
      <4> QED  BY <1>2, <1>4, <1>5, <2>1, <4>1, <4>2, <4>3 DEF JobKnown
    <3> QED  BY <3>1, <3>2
  <2> QED  BY <1>3, <1>4, <1>11, <2>1, <2>2, <2>3, JobStepTypes DEF JobBatch, db
<1>12. CASE JobCopies
  <2>1. job.at = "copy" /\ UNCHANGED <<hooks, eraser>>  BY <1>12 DEF JobCopies, MoverAt, db
  <2>2. MoverKnown'  BY <1>2, <1>5, <2>1 DEF MoverKnown
  <2>3. PICK r \in job.rows :
          IF messages[r.msg].live /\ HooksFor # {}
          THEN /\ \E h \in HooksFor : Post(h, messages[r.msg].hash)
               /\ job' = [job EXCEPT !.at = "switch", !.rows = @ \ {r}, !.row = r, !.msg = Len(messages) + 1]
          ELSE job' = None /\ UNCHANGED messages
    BY <1>12 DEF JobCopies
  <2>4. r \in OldRow /\ r.msg \in Known  BY <1>2, <1>5, <2>1 DEF JobKnown
  <2>5. CASE ~(messages[r.msg].live /\ HooksFor # {})
    <3>1. job' = None /\ UNCHANGED messages  BY <2>3, <2>5
    <3>2. JobKnown'  BY <3>1 DEF JobKnown
    <3> QED  BY <1>3, <1>4, <1>12, <2>1, <2>2, <3>1, <3>2, JobStepTypes DEF JobCopies, db
  <2>6. CASE messages[r.msg].live /\ HooksFor # {}
    <3> DEFINE n == Len(messages) + 1
               old == job.rows \ {r}
               y == [job EXCEPT !.at = "switch", !.rows = old, !.row = r, !.msg = n]
    <3>1. PICK h \in HooksFor : Post(h, messages[r.msg].hash)  BY <2>3, <2>6
    <3>2. h \in Hook /\ messages[r.msg].hash \in Hash
      BY <2>4, KnownAreMessages DEF HooksFor, MessageType, Typing
    <3>3. /\ MessagesTyped' /\ MessagesKept /\ Known' = Known \cup {n} /\ n \in Msg
      BY <3>1, <3>2, Posting DEF Typing
    <3>4. n # None  BY <3>3, ConstantsAreTyped DEF Msg
    <3>5. job' = y  BY <2>3, <2>6
    <3>6. r # None  BY <2>4, NoneIsNoRecord
    <3> HIDE DEF n
    <3>7. old \subseteq OldRow /\ (\A x \in old : x.msg \in Known) /\ job.trash \subseteq Known
      BY <1>2, <1>5, <2>1 DEF JobKnown
    <3> HIDE DEF old
    <3>8. /\ y \in JobType /\ y.at = "switch" /\ y.rows = old /\ y.row = r
          /\ y.msg = n /\ y.trash = job.trash
      BY <1>2, <2>4, <3>3, <3>7 DEF JobType
    <3> HIDE DEF y
    <3>9. JobKnown'  BY <2>4, <3>3, <3>4, <3>5, <3>6, <3>7, <3>8 DEF JobKnown
    <3> QED  BY <1>3, <1>12, <2>1, <2>2, <3>3, <3>5, <3>8, <3>9, JobStepTypes DEF JobCopies, db
  <2> QED  BY <2>5, <2>6
<1>13. CASE JobSwitches  BY <1>13, SwitchTypes
<1>14. CASE JobErases
  <2>1. job.at = "garbage" /\ eraser["mover"] = None /\ UNCHANGED <<messages, hooks, blobs>>
    BY <1>14 DEF JobErases, MoverAt, db
  <2>2. job.rows \subseteq Upload  BY <1>2, <1>5, <2>1 DEF JobKnown
  <2>3. CASE job.rows = {} /\ JobGoes("settle2") /\ UNCHANGED eraser
    <3>1. job' \in JobType /\ JobKnown'  BY <1>8, <2>1, <2>3
    <3>2. MoverKnown'  BY <2>1, <2>3 DEF MoverKnown
    <3> QED  BY <1>3, <1>4, <1>14, <2>1, <2>3, <3>1, <3>2, JobStepTypes DEF JobErases, db
  <2>4. ASSUME NEW u \in job.rows, Erase("mover", u), job' = [job EXCEPT !.rows = @ \ {u}]
        PROVE  Typing'
    <3> DEFINE y == [job EXCEPT !.rows = @ \ {u}]
    <3>1. /\ y \in JobType /\ y.at = "garbage" /\ y.rows = job.rows \ {u} /\ y.row = job.row
          /\ y.msg = job.msg /\ y.trash = job.trash
      BY <1>2, <2>1 DEF JobType
    <3>2. job' = y  BY <2>4
    <3> HIDE DEF y
    <3>3. JobKnown'  BY <1>2, <1>4, <1>5, <2>1, <2>2, <3>1, <3>2 DEF JobKnown
    <3>4. MoverKnown'  BY <3>1, <3>2, NoneIsNoRecord DEF MoverKnown
    <3>5. EraserTyped' /\ ErasersKnown'  BY <2>1, <2>2, <2>4, Erasing DEF Eraser
    <3>6. UNCHANGED <<uploads, blobs, aliases, hooks, messages, leased, client, put, tick, history>>
      BY <1>14 DEF JobErases, db
    <3>7. DbTyped' /\ MessagesTyped' /\ ClientTyped' /\ PutTyped' /\ HistoryTyped' /\ tick' \in TickType
      BY <3>6, Types DEF Typing, DbTyped, MessagesTyped, ClientTyped, TasksTyped, PutTyped, HistoryTyped, history
    <3>8. TypeOK'  BY <3>1, <3>2, <3>5, <3>7, TypesNext DEF TasksTyped
    <3>9. Known' = Known /\ \A b \in Blob : Got(b)' = Got(b)  BY <3>6 DEF Known, Got
    <3>10. RowsKnown' /\ AnswersKnown' /\ PutsKnown'  BY <3>6, <3>9, KnownStays DEF Typing
    <3> QED  BY <3>3, <3>4, <3>5, <3>8, <3>10 DEF Typing, InHand
  <2> QED  BY <1>14, <2>3, <2>4 DEF JobErases
<1>15. CASE JobChecks
  <2>1. job.at = "settle2" /\ UNCHANGED <<messages, hooks, eraser>> /\ job.rows = {}
    BY <1>2, <1>5, <1>15 DEF JobChecks, MoverAt, db, JobKnown
  <2>2. JobGoes("trash") \/ JobGoes("settle") \/ job' = Paused  BY <1>15 DEF JobChecks
  <2>3. job' \in JobType /\ JobKnown'  BY <1>4, <1>6, <1>7, <1>8, <2>1, <2>2
  <2>4. MoverKnown'  BY <1>5, <2>1 DEF MoverKnown
  <2> QED  BY <1>3, <1>4, <1>15, <2>1, <2>3, <2>4, JobStepTypes DEF JobChecks, db
<1>16. CASE JobTrash
  <2>1. job.at = "trash" /\ UNCHANGED <<hooks, eraser>> /\ job.rows = {}
    BY <1>2, <1>5, <1>16 DEF JobTrash, MoverAt, db, JobKnown
  <2>2. PICK m \in job.trash :
          /\ messages' = IF Present(HookOf(m)) THEN Deleted(m) ELSE messages
          /\ job' = [job EXCEPT !.trash = @ \ {m}]
    BY <1>16 DEF JobTrash
  <2>3. m \in Known  BY <1>2, <1>5 DEF JobKnown
  <2>4. MessagesTyped' /\ MessagesKept /\ Known' = Known
    <3>1. CASE messages' = Deleted(m)  BY <2>3, <3>1, Deleting DEF Typing
    <3>2. CASE UNCHANGED messages  BY <1>4, <3>2
    <3> QED  BY <2>2, <3>1, <3>2
  <2> DEFINE y == [job EXCEPT !.trash = @ \ {m}]
  <2>5. /\ y \in JobType /\ y.at = "trash" /\ y.rows = job.rows /\ y.row = job.row
        /\ y.msg = job.msg /\ y.trash = job.trash \ {m}
    BY <1>2, <2>1 DEF JobType
  <2>6. job' = y  BY <2>2
  <2> HIDE DEF y
  <2>7. JobKnown'  BY <1>2, <1>5, <2>1, <2>4, <2>5, <2>6 DEF JobKnown
  <2>8. MoverKnown'  BY <1>5, <2>1 DEF MoverKnown
  <2> QED  BY <1>3, <1>16, <2>1, <2>4, <2>5, <2>6, <2>7, <2>8, JobStepTypes DEF JobTrash, db
<1>17. CASE JobFinishes
  <2>1. job.at = "trash" /\ UNCHANGED <<messages, eraser>> /\ job.rows = {}
    BY <1>2, <1>5, <1>17 DEF JobFinishes, MoverAt, JobKnown
  <2>2. \/ hooks' = [hooks EXCEPT ![job.hook] = "moved"] /\ job' = None
        \/ JobGoes("settle") /\ UNCHANGED hooks
    BY <1>17 DEF JobFinishes
  <2>3. hooks' \in [Hook -> {"active", "retired", "moved", "removed"}]
    BY <1>1, <1>3, <2>2 DEF DbTyped
  <2>4. job' \in JobType \cup {None} /\ JobKnown'
    <3>1. CASE job' = None  BY <3>1 DEF JobKnown
    <3>2. CASE JobGoes("settle")  BY <1>8, <2>1, <3>2
    <3> QED  BY <2>2, <3>1, <3>2
  <2>5. MoverKnown'  BY <1>5, <2>1 DEF MoverKnown
  <2> QED  BY <1>4, <1>17, <2>1, <2>3, <2>4, <2>5, JobStepTypes DEF JobFinishes
<1>18. CASE JobFails
  <2>1. job.at \in {"copy", "trash"} /\ job' = Paused /\ UNCHANGED <<messages, hooks, eraser>>
    BY <1>18 DEF JobFails, db
  <2>2. JobKnown'  BY <1>4, <1>7, <2>1
  <2>3. MoverKnown'  BY <1>5, <2>1 DEF MoverKnown
  <2> QED  BY <1>3, <1>4, <1>6, <1>18, <2>1, <2>2, <2>3, JobStepTypes DEF JobFails, db
<1> QED
  BY <1>9, <1>10, <1>11, <1>12, <1>13, <1>14, <1>15, <1>16, <1>17, <1>18 DEF Mover

LEMMA InitTyping == Init => Typing
<1> SUFFICES ASSUME Init  PROVE Typing
  OBVIOUS
<1>1. DbTyped  BY DEF Init, DbTyped, NoUpload, UploadType, Tombstones
<1>2. MessagesTyped
  BY ConstantsAreTyped DEF Init, MessagesTyped
<1>3. ClientTyped
  <2>1. PICK safe \in [Upload -> BOOLEAN] :
          client = [u \in Upload |-> [at |-> "new", safe |-> safe[u], session |-> 1, got |-> NoAnswers]]
    BY DEF Init
  <2>2. 1 \in Hash  BY ConstantsAreTyped DEF Hash
  <2>3. NoAnswers \in [Piece -> Placement \cup {None}]  BY DEF NoAnswers
  <2> QED  BY <2>1, <2>2, <2>3 DEF Init, ClientTyped, ClientType, Stage
<1>4. PutTyped /\ EraserTyped /\ tick \in TickType /\ job \in JobType \cup {None}
  BY DEF Init, PutTyped, EraserTyped, TickType, NoTick
<1>5. HistoryTyped  BY ConstantsAreTyped DEF Init, HistoryTyped
<1>6. TypeOK  BY <1>1, <1>2, <1>3, <1>4, <1>5, Types DEF TasksTyped
<1>7. RowsKnown /\ PutsKnown /\ ErasersKnown /\ JobKnown /\ MoverKnown
  BY DEF Init, RowsKnown, PutsKnown, ErasersKnown, JobKnown, MoverKnown, Eraser
<1>8. AnswersKnown  BY DEF Init, AnswersKnown, Got, Blob, NoAnswers
<1> QED  BY <1>6, <1>7, <1>8 DEF Typing, InHand

LEMMA NextTyping == Typing /\ [Next]_vars => Typing'
<1> SUFFICES ASSUME Typing, [Next]_vars  PROVE Typing'
  OBVIOUS
<1>1. CASE Next
  BY <1>1, UploadTypes, PutTypes, EraserTypes, HookTypes, TickTypes, MoverTypes, RestartTypes DEF Next
<1>2. CASE UNCHANGED vars
  <2>1. UNCHANGED <<db, messages, leased, client, tasks, history>>  BY <1>2 DEF vars
  <2>2. ClientTyped' /\ uploads' \in [Upload -> UploadType]
    BY <2>1, Types DEF Typing, ClientTyped, DbTyped, db
  <2>3. Known' = Known /\ \A b \in Blob : Got(b)' = Got(b)  BY <2>1 DEF Known, Got
  <2>4. AnswersKnown'  BY <2>3, KnownStays DEF Typing
  <2> QED  BY <2>1, <2>2, <2>4, ClientStepTypes DEF db
<1> QED  BY <1>1, <1>2

\* Every variable keeps its type, and what a row, an answer or a task names
\* was posted.
THEOREM TypesHold == Spec => []TypeOK
<1>1. Init => Typing  BY InitTyping
<1>2. Typing /\ [Next]_vars => Typing'  BY NextTyping
<1>3. Typing => TypeOK  BY DEF Typing
<1> QED  BY <1>1, <1>2, <1>3, PTL DEF Spec

-----------------------------------------------------------------------------
(* Moves                                                                   *)

\* The webhook a job empties takes nothing new: it stays retired, and once its
\* puts have ended none that may land there begins. What is posted is posted
\* to a webhook the put noted, and a copy not to one that has left.
PutsNoted == \A p \in Put : put[p] # None /\ put[p].msg # None => HookOf(put[p].msg) \in put[p].hooks
Emptying == {"copy", "switch", "garbage", "settle2", "trash"}
JobHolds ==
  job # None =>
    /\ hooks[job.hook] = "retired"
    /\ job.at \in Emptying => IdleFor(job.hook)
    /\ job.at = "switch" => hooks[HookOf(job.msg)] # "moved"

MoveInv == PutsNoted /\ JobHolds /\ MovedIsEmpty

\* The rows on a webhook that left stay none, unless one is written there or
\* the webhook comes to leave.
LEMMA EmptyStays ==
  ASSUME Typing, MovedIsEmpty, MessagesKept,
         \A h \in Hook : hooks'[h] = "moved" => hooks[h] = "moved",
         \A b \in Blob : Stored(b)' =>
           \/ Stored(b) /\ blobs'[b].msg = blobs[b].msg
           \/ hooks[messages'[blobs'[b].msg].hook] # "moved",
         \A h \in Hook : hooks[h] = "moved" /\ IdleFor(h) => IdleFor(h)'
  PROVE  MovedIsEmpty'
<1> SUFFICES ASSUME NEW h \in Hook, hooks'[h] = "moved"  PROVE OnHook(h)' = {} /\ IdleFor(h)'
  BY DEF MovedIsEmpty
<1>1. hooks[h] = "moved" /\ OnHook(h) = {} /\ IdleFor(h)  BY DEF MovedIsEmpty
<1>2. ASSUME NEW b \in Blob, Stored(b)', messages'[blobs'[b].msg].hook = h  PROVE FALSE
  <2>1. Stored(b) /\ blobs'[b].msg = blobs[b].msg  BY <1>1, <1>2
  <2>2. blobs[b].msg \in Known  BY <2>1 DEF Typing, InHand, RowsKnown, Stored
  <2>3. HookOf(blobs[b].msg) = h  BY <1>2, <2>1, <2>2 DEF MessagesKept, HookOf
  <2> QED  BY <1>1, <2>1, <2>3 DEF OnHook
<1>3. OnHook(h)' = {}  BY <1>2 DEF OnHook, HookOf
<1> QED  BY <1>1, <1>3

\* What a move has reached holds while puts and the job only go on.
LEMMA MoveStays ==
  ASSUME Typing, MoveInv, MessagesKept, UNCHANGED hooks, PutsNoted',
         \A b \in Blob : Stored(b)' =>
           \/ Stored(b) /\ blobs'[b].msg = blobs[b].msg
           \/ hooks[messages'[blobs'[b].msg].hook] # "moved",
         \A h \in Hook : IdleFor(h) /\ hooks[h] # "active" => IdleFor(h)',
         job' # None => /\ job # None /\ job'.hook = job.hook
                        /\ job'.at \in Emptying => job.at \in Emptying \/ IdleFor(job.hook)
                        /\ job'.at = "switch" => \/ job.at = "switch" /\ job'.msg = job.msg
                                                \/ hooks[messages'[job'.msg].hook] # "moved"
  PROVE  MoveInv'
<1>1. MovedIsEmpty'  BY EmptyStays DEF MoveInv
<1>2. JobHolds'
  <2> SUFFICES ASSUME job' # None
               PROVE  /\ hooks'[job'.hook] = "retired"
                      /\ (job.at \in Emptying => IdleFor(job.hook))'
                      /\ job'.at = "switch" => hooks'[messages'[job'.msg].hook] # "moved"
    BY DEF JobHolds, HookOf
  <2>1. job # None /\ job'.hook = job.hook /\ job.hook \in Hook /\ hooks[job.hook] = "retired"
    BY Types DEF Typing, TasksTyped, JobType, MoveInv, JobHolds
  <2>2. PICK h \in Hook : h = job.hook  BY <2>1
  <2>3. job'.at \in Emptying => IdleFor(h)'  BY <2>1, <2>2 DEF MoveInv, JobHolds
  <2>4. (job.at \in Emptying => IdleFor(job.hook))'  BY <2>1, <2>2, <2>3 DEF IdleFor, MayLand
  <2>5. ASSUME job'.at = "switch"  PROVE hooks[messages'[job'.msg].hook] # "moved"
    <3>1. CASE job.at = "switch" /\ job'.msg = job.msg
      <4>1. job.msg \in Known  BY <2>1, <3>1 DEF Typing, InHand, JobKnown
      <4>2. messages'[job'.msg].hook = HookOf(job.msg)  BY <3>1, <4>1 DEF MessagesKept, HookOf
      <4> QED  BY <2>1, <3>1, <4>2 DEF MoveInv, JobHolds
    <3> QED  BY <2>5, <3>1
  <2> QED  BY <2>1, <2>4, <2>5
<1> QED  BY <1>1, <1>2 DEF MoveInv

\* The webhook of a message does not change.
LEMMA NotedStays ==
  ASSUME Typing, PutsNoted, MessagesKept,
         \A p \in Put : put'[p] # None /\ put'[p].msg # None =>
           put[p] # None /\ put'[p].msg = put[p].msg /\ put'[p].hooks = put[p].hooks
  PROVE  PutsNoted'
<1> SUFFICES ASSUME NEW p \in Put, put'[p] # None, put'[p].msg # None
             PROVE  messages'[put'[p].msg].hook \in put'[p].hooks
  BY DEF PutsNoted, HookOf
<1>1. put[p] # None /\ put'[p].msg = put[p].msg /\ put'[p].hooks = put[p].hooks /\ put[p].msg \in Known
  BY InProgress DEF PutKnown
<1> QED  BY <1>1 DEF MessagesKept, PutsNoted, HookOf

LEMMA MoveIdles ==
  ASSUME MoveInv, UNCHANGED <<blobs, hooks, messages, put, job>>
  PROVE  MoveInv'
BY DEF MoveInv, PutsNoted, JobHolds, MovedIsEmpty, HookOf, IdleFor, MayLand, OnHook, Stored

\* A stop leaves no put, and the job to begin again.
LEMMA StoppedMoves ==
  ASSUME Typing, MoveInv, Stopped, UNCHANGED <<db, messages>>
  PROVE  MoveInv'
<1>1. MessagesKept /\ UNCHANGED <<blobs, hooks>>  BY Standing DEF db
<1>2. job \in JobType \cup {None}  BY Types DEF Typing, TasksTyped
<1>3. PutsNoted' /\ \A h \in Hook : IdleFor(h)'  BY DEF Stopped, PutsNoted, IdleFor, MayLand
<1>4. job' # None => /\ job # None /\ job'.hook = job.hook /\ job'.at = "off"
  BY <1>2 DEF Stopped, JobType
<1>5. \A b \in Blob : Stored(b)' => Stored(b) /\ blobs'[b].msg = blobs[b].msg  BY <1>1 DEF Stored
<1> QED  BY <1>1, <1>3, <1>4, <1>5, MoveStays DEF Emptying

LEMMA UploadMoves ==
  ASSUME Typing, MoveInv, NEW u \in Upload, OfUpload(u)
  PROVE  MoveInv'
<1>1. CASE Cancel(u)
  <2>1. UNCHANGED <<blobs, hooks, messages, job>>  BY <1>1 DEF Cancel
  <2>2. PutTyped /\ MessagesTyped  BY Types DEF Typing, TasksTyped
  <2> DEFINE S == {p \in Put : put[p] # None /\ put[p].blob[1] = u}
  <2>3. put' = [p \in Put |-> IF put[p] # None /\ p \in S THEN [put[p] EXCEPT !.heard = FALSE] ELSE put[p]]
    BY <1>1 DEF Cancel
  <2> HIDE DEF S
  <2>4. /\ \A p \in Put : (put'[p] = None <=> put[p] = None)
        /\ \A p \in Put : put[p] # None => put'[p].hooks = put[p].hooks /\ put'[p].msg = put[p].msg
    BY <2>2, <2>3, Unheard
  <2>5. MessagesKept  BY <2>1, Standing
  <2>6. PutsNoted'  BY <2>4, <2>5, NotedStays DEF MoveInv
  <2>7. \A h \in Hook : IdleFor(h) => IdleFor(h)'  BY <2>4 DEF IdleFor, MayLand
  <2> QED  BY <2>1, <2>5, <2>6, <2>7, MoveStays DEF Stored
<1>2. CASE CommitTorn(u)  BY <1>2, StoppedMoves DEF CommitTorn
<1>3. CASE ~Cancel(u) /\ ~CommitTorn(u)
  <2>1. UNCHANGED <<blobs, hooks, messages, put, job>>
    BY <1>3 DEF OfUpload, RenewLease, EndLease, GoIdle, Begin, Resume, Commit, CommitOutside, Drop, Restore,
       Finalize, Released, Kept, db, tasks
  <2> QED  BY <2>1, MoveIdles
<1> QED  BY <1>1, <1>2, <1>3

LEMMA TickMoves ==
  ASSUME MoveInv, Tick
  PROVE  MoveInv'
<1>1. UNCHANGED <<blobs, hooks, messages, put, job>>
  BY DEF Tick, TickStart, TickReap, TickPurges, TickPurge, TickPurged, TickLeftovers, TickLeftover, db
<1> QED  BY <1>1, MoveIdles

LEMMA EraserMoves ==
  ASSUME Typing, MoveInv, NEW e \in Eraser, OfEraser(e)
  PROVE  MoveInv'
<1>1. UNCHANGED <<hooks, put>>
  BY DEF OfEraser, EraseMessage, EraseSkips, EraseMarks, EraseThrows, db
<1>2. MessagesTyped /\ job \in JobType \cup {None} /\ DbTyped  BY Types DEF Typing, TasksTyped
<1>3. MessagesKept
  <2>1. CASE EraseMessage(e)
    <3>1. PICK r \in eraser[e].rows : messages' = Deleted(r[2])  BY <2>1 DEF EraseMessage
    <3>2. r[2] \in Known  BY <2>1, <3>1, AtWork DEF EraserKnown, EraseMessage
    <3> QED  BY <3>1, <3>2, Deleting DEF Typing
  <2>2. CASE UNCHANGED messages  BY <2>2, Standing
  <2> QED  BY <2>1, <2>2 DEF OfEraser, EraseSkips, EraseMarks, EraseThrows
<1>4. PutsNoted'  BY <1>1, <1>3, NotedStays DEF MoveInv
<1>5. \A h \in Hook : IdleFor(h) => IdleFor(h)'  BY <1>1 DEF IdleFor, MayLand
<1>6. \A b \in Blob : Stored(b)' => Stored(b) /\ blobs'[b].msg = blobs[b].msg
  <2>1. CASE EraseMarks(e)
    <3>1. eraser[e] # None /\ eraser[e].hit # None  BY <2>1 DEF EraseMarks
    <3> DEFINE c == <<eraser[e].upload, eraser[e].hit[1]>>
               row == [blobs[c] EXCEPT !.deleted = TRUE]
    <3>2. c \in Blob /\ blobs[c] # None  BY <3>1, AtWork DEF EraserKnown
    <3>3. blobs' = [blobs EXCEPT ![c] = row]  BY <2>1 DEF EraseMarks
    <3>4. blobs[c] \in Row  BY <1>2, <3>2 DEF DbTyped
    <3>5. row.deleted = TRUE  BY <3>4 DEF Row
    <3> HIDE DEF c, row
    <3>6. \A b \in Blob : blobs'[b] = IF b = c THEN row ELSE blobs[b]  BY <1>2, <3>2, <3>3 DEF DbTyped
    <3> QED  BY <3>5, <3>6 DEF Stored
  <2>2. CASE UNCHANGED blobs  BY <2>2 DEF Stored
  <2> QED  BY <2>1, <2>2 DEF OfEraser, EraseMessage, EraseSkips, EraseThrows, db
<1>7. job' # None => /\ job # None /\ job'.hook = job.hook
                     /\ job'.at \in Emptying => job.at \in Emptying \/ IdleFor(job.hook)
                     /\ job'.at = "switch" => job.at = "switch" /\ job'.msg = job.msg
  <2>1. CASE EraseThrows(e) /\ e = "mover"
    <3>1. job' = Paused /\ job # None /\ job \in JobType
      BY <1>2, <2>1 DEF EraseThrows, Typing, InHand, MoverKnown
    <3>2. Paused.hook = job.hook /\ Paused.at = "off"  BY <3>1 DEF Paused, JobType
    <3> QED  BY <3>1, <3>2 DEF Emptying
  <2>2. CASE UNCHANGED job  BY <2>2
  <2> QED  BY <2>1, <2>2 DEF OfEraser, EraseMessage, EraseSkips, EraseMarks, EraseThrows
<1> QED  BY <1>1, <1>3, <1>4, <1>5, <1>6, <1>7, MoveStays

LEMMA PutMoves ==
  ASSUME Typing, MoveInv, NEW p \in Put, OfPut(p)
  PROVE  MoveInv'
<1>1. UNCHANGED <<hooks, job>>
  BY DEF OfPut, PutStart, PutBody, PutLands, PutFails, PutPosted, PutDropped, PutReplaces, PutReplaced, HangUp, db
<1>2. MessagesTyped /\ PutTyped /\ DbTyped /\ PutTyped'
  BY Types, PutTypes, Types DEF Typing, TasksTyped, TypeOK, PutTyped
<1>3. \A q \in Put : q # p => put'[q] = put[q]
  BY <1>2 DEF PutTyped, OfPut, PutStart, PutBody, PutLands, PutFails, PutPosted, PutDropped, PutReplaces,
     PutReplaced, HangUp, Store
<1>4. MessagesKept
  <2>1. CASE PutLands(p)
    <3>1. put[p] # None  BY <2>1 DEF PutLands
    <3>2. PICK h \in put[p].hooks : Post(h, put[p].hash)  BY <2>1 DEF PutLands
    <3> QED  BY <3>1, <3>2, InProgress, Posting DEF Typing
  <2>2. CASE PutDropped(p)
    <3>1. put[p].msg \in Known /\ MayDelete(put[p].msg)
      BY <2>2, InProgress DEF PutDropped, PutKnown, Sent
    <3> QED  BY <3>1, MayDeleting DEF Typing
  <2>3. CASE PutReplaces(p)
    <3>1. put[p].old \in Known /\ MayDelete(put[p].old)
      BY <2>3, InProgress DEF PutReplaces, PutKnown, Sent
    <3> QED  BY <3>1, MayDeleting DEF Typing
  <2>4. CASE UNCHANGED messages  BY <2>4, Standing
  <2> QED
    BY <2>1, <2>2, <2>3, <2>4 DEF OfPut, PutStart, PutBody, PutFails, PutPosted, PutReplaced, HangUp
\* What the request is afterwards.
<1>5. put'[p] # None =>
        /\ put'[p].msg = None \/ \E h \in put'[p].hooks : messages'[put'[p].msg].hook = h
        /\ \A h \in put'[p].hooks : hooks[h] = "active" \/ (put[p] # None /\ h \in put[p].hooks)
  <2>1. CASE \E u \in Upload, i \in Piece : PutStart(p, u, i)
    <3>1. PICK u \in Upload, i \in Piece : PutStart(p, u, i)
      BY <2>1
    <3> DEFINE b == <<u, i>>
               r == [blob |-> b, hash |-> client[u].session, at |-> "reading",
                     old |-> IF Stored(b) THEN blobs[b].msg ELSE None,
                     hooks |-> {}, msg |-> None, heard |-> TRUE]
    <3>2. put[p] = None
      BY <3>1 DEF PutStart
    <3>3. UNCHANGED put \/ put' = [put EXCEPT ![p] = r]
      BY <3>1 DEF PutStart
    <3>4. r.hooks = {} /\ r.msg = None
      OBVIOUS
    <3> HIDE DEF r
    <3>5. put' = [put EXCEPT ![p] = r] => put'[p] = r
      BY <1>2 DEF PutTyped
    <3> QED  BY <3>2, <3>3, <3>4, <3>5
  <2>2. CASE PutBody(p)
    <3> DEFINE r == [put[p] EXCEPT !.at = "posting", !.hooks = HooksFor]
    <3>1. put[p] # None /\ put[p].at = "reading" /\ put' = [put EXCEPT ![p] = r]  BY <2>2 DEF PutBody
    <3>2. r.hooks = HooksFor /\ r.msg = None
      BY <3>1, InProgress DEF PutType, PutKnown, Sent
    <3> HIDE DEF r
    <3>3. put'[p] = r  BY <1>2, <3>1 DEF PutTyped
    <3> QED  BY <3>2, <3>3 DEF HooksFor
  <2>3. CASE PutLands(p)
    <3>1. put[p] # None /\ put[p] \in PutType /\ put[p].msg = None
      BY <2>3, InProgress DEF PutLands, PutKnown, Sent
    <3>2. PICK h \in put[p].hooks : Post(h, put[p].hash)  BY <2>3 DEF PutLands
    <3> DEFINE n == Len(messages) + 1
               r == [put[p] EXCEPT !.at = "posted", !.msg = n]
    <3>3. messages'[n].hook = h
      <4>1. h \in Hook /\ put[p].hash \in Hash  BY <3>1, <3>2, InProgress
      <4>2. messages'[n] = [hook |-> h, hash |-> put[p].hash, live |-> TRUE]
        BY <3>2, <4>1, Posting DEF Typing
      <4> QED  BY <4>2
    <3>4. CASE put' = [put EXCEPT ![p] = r]
      <4> HIDE DEF n
      <4>1. r.hooks = put[p].hooks /\ r.msg = n  BY <3>1 DEF PutType
      <4> HIDE DEF r
      <4>2. put'[p] = r  BY <1>2, <3>4 DEF PutTyped
      <4> QED  BY <3>1, <3>2, <3>3, <4>1, <4>2
    <3>5. CASE UNCHANGED put  BY <3>1, <3>5
    <3> QED  BY <2>3, <3>4, <3>5 DEF PutLands
  <2>4. CASE PutFails(p) \/ PutDropped(p) \/ PutReplaced(p)
    BY <1>2, <2>4 DEF PutFails, PutDropped, PutReplaced, Store, PutTyped
  <2>5. CASE PutPosted(p) \/ PutReplaces(p) \/ HangUp(p)
    <3>1. put[p] # None /\ put[p] \in PutType  BY <2>5, InProgress DEF PutPosted, PutReplaces, HangUp
    <3>2. put'[p] # None => put'[p].hooks = put[p].hooks /\ put'[p].msg = put[p].msg
      <4>1. CASE put' = [put EXCEPT ![p] = None]  BY <1>2, <4>1 DEF PutTyped
      <4>2. ASSUME NEW x, put' = [put EXCEPT ![p].at = x]
            PROVE  put'[p].hooks = put[p].hooks /\ put'[p].msg = put[p].msg
        BY <1>2, <3>1, <4>2 DEF PutTyped, PutType
      <4>3. CASE put' = [put EXCEPT ![p].heard = FALSE]
        BY <1>2, <3>1, <4>3 DEF PutTyped, PutType
      <4> QED  BY <2>5, <4>1, <4>2, <4>3 DEF PutPosted, PutReplaces, HangUp, Store
    <3>3. put[p].msg # None => put[p].msg \in Known  BY <3>1, InProgress DEF PutKnown
    <3> QED  BY <1>4, <3>1, <3>2, <3>3 DEF MoveInv, PutsNoted, MessagesKept, HookOf
  <2> QED  BY <2>1, <2>2, <2>3, <2>4, <2>5 DEF OfPut
<1>6. PutsNoted'
  <2> SUFFICES ASSUME NEW q \in Put, put'[q] # None, put'[q].msg # None
               PROVE  messages'[put'[q].msg].hook \in put'[q].hooks
    BY DEF PutsNoted, HookOf
  <2>1. CASE q = p  BY <1>5, <2>1
  <2>2. CASE q # p
    <3>1. put'[q] = put[q] /\ put[q].msg \in Known  BY <1>3, <2>2, InProgress DEF PutKnown
    <3> QED  BY <1>4, <3>1 DEF MoveInv, PutsNoted, MessagesKept, HookOf
  <2> QED  BY <2>1, <2>2
<1>7. \A h \in Hook : IdleFor(h) /\ hooks[h] # "active" => IdleFor(h)'
  BY <1>3, <1>5 DEF IdleFor, MayLand
<1>8. \A b \in Blob : Stored(b)' =>
        \/ Stored(b) /\ blobs'[b].msg = blobs[b].msg
        \/ hooks[messages'[blobs'[b].msg].hook] # "moved"
  <2>1. CASE Store(p) /\ (PutPosted(p) \/ PutReplaced(p))
    <3>1. /\ put[p] # None /\ put[p].at \in {"posted", "replaced"}
          /\ UNCHANGED <<uploads, aliases, hooks, messages, leased, tick, eraser, job, history>>
      BY <2>1 DEF PutPosted, PutReplaced
    <3>2. \A b \in Blob : blobs'[b] = IF b = put[p].blob
                                      THEN [msg |-> put[p].msg, hash |-> put[p].hash, deleted |-> FALSE]
                                      ELSE blobs[b]
      BY <2>1, <3>1, Storing
    <3>3. put[p].msg # None  BY <3>1, InProgress DEF PutKnown, Sent
    <3>4. HookOf(put[p].msg) \in put[p].hooks /\ put[p].hooks \subseteq Hook
      BY <3>1, <3>3, InProgress DEF MoveInv, PutsNoted
    <3>5. hooks[HookOf(put[p].msg)] # "moved"
      BY <3>1, <3>4 DEF MoveInv, MovedIsEmpty, IdleFor, MayLand
    <3> QED  BY <3>1, <3>2, <3>5 DEF Stored, HookOf
  <2>2. CASE UNCHANGED blobs  BY <2>2 DEF Stored
  <2> QED
    BY <2>1, <2>2 DEF OfPut, PutStart, PutBody, PutLands, PutFails, PutPosted, PutDropped, PutReplaces,
       PutReplaced, HangUp, db
<1>9. job' # None => /\ job # None /\ job'.hook = job.hook
                     /\ job'.at \in Emptying => job.at \in Emptying \/ IdleFor(job.hook)
                     /\ job'.at = "switch" => job.at = "switch" /\ job'.msg = job.msg
  BY <1>1
<1> QED  BY <1>1, <1>4, <1>6, <1>7, <1>8, <1>9, MoveStays

LEMMA HookMoves ==
  ASSUME Typing, MoveInv, NEW h \in Hook, OfHook(h)
  PROVE  MoveInv'
<1>1. UNCHANGED <<blobs, messages, put>>
  BY DEF OfHook, Retire, RemoveAnyway, Paste, EnqueueMove, tasks
<1>2. DbTyped /\ MessagesTyped /\ job \in JobType \cup {None}  BY Types DEF Typing, TasksTyped
<1>3. MessagesKept  BY <1>1, <1>2, Standing
<1>4. \A g \in Hook : g # h => hooks'[g] = hooks[g]
  BY <1>2 DEF DbTyped, OfHook, Retire, RemoveAnyway, Paste, EnqueueMove
<1>5. hooks'[h] \in {"active", "retired", "removed"}
  BY <1>2 DEF DbTyped, OfHook, Retire, RemoveAnyway, Paste, EnqueueMove
<1>6. PutsNoted'  BY <1>1 DEF MoveInv, PutsNoted, HookOf
<1>7. MovedIsEmpty'
  <2>1. \A g \in Hook : hooks'[g] = "moved" => hooks[g] = "moved"  BY <1>4, <1>5
  <2>2. \A b \in Blob : Stored(b)' => Stored(b) /\ blobs'[b].msg = blobs[b].msg  BY <1>1 DEF Stored
  <2>3. \A g \in Hook : IdleFor(g) => IdleFor(g)'  BY <1>1 DEF IdleFor, MayLand
  <2> QED  BY <1>3, <2>1, <2>2, <2>3, EmptyStays DEF MoveInv
<1>8. JobHolds'
  <2>1. CASE EnqueueMove(h)
    <3>1. job' = [hook |-> h, state |-> "queued", at |-> "off",
                  rows |-> {}, row |-> None, msg |-> None, trash |-> {}]
      BY <2>1 DEF EnqueueMove
    <3>2. hooks'[h] = "retired"  BY <1>2, <2>1 DEF EnqueueMove, DbTyped
    <3>3. job'.hook = h /\ job'.at = "off"  BY <3>1
    <3> QED  BY <3>2, <3>3 DEF JobHolds, Emptying
  <2>2. CASE UNCHANGED job /\ job # None
    <3>1. job.hook \in Hook /\ hooks[job.hook] = "retired"
      BY <1>2, <2>2 DEF JobType, MoveInv, JobHolds
    <3>2. job.hook # h
      BY <2>2, <3>1 DEF OfHook, Retire, RemoveAnyway, Paste, EnqueueMove, JobOn, Present
    <3>3. job.at \in Emptying => IdleFor(job.hook)  BY <2>2 DEF MoveInv, JobHolds
    <3>4. (job.at \in Emptying => IdleFor(job.hook))'  BY <1>1, <2>2, <3>3 DEF IdleFor, MayLand
    <3>5. ASSUME job.at = "switch"  PROVE hooks'[HookOf(job.msg)] # "moved"
      <4>1. HookOf(job.msg) \in Hook
        BY <2>2, <3>5, KnownAreMessages DEF Typing, InHand, JobKnown, HookOf, MessageType
      <4> QED  BY <1>4, <1>5, <2>2, <3>5, <4>1 DEF MoveInv, JobHolds
    <3> QED  BY <1>1, <1>4, <2>2, <3>1, <3>2, <3>4, <3>5 DEF JobHolds, HookOf
  <2>3. CASE UNCHANGED job /\ job = None  BY <2>3 DEF JobHolds
  <2> QED  BY <2>1, <2>2, <2>3 DEF OfHook, Retire, RemoveAnyway, Paste, tasks
<1> QED  BY <1>6, <1>7, <1>8 DEF MoveInv

LEMMA MoverMoves ==
  ASSUME Typing, MoveInv, Mover
  PROVE  MoveInv'
<1>1. DbTyped /\ MessagesTyped /\ job \in JobType \cup {None}  BY Types DEF Typing, TasksTyped
<1>2. /\ job # None /\ job \in JobType /\ job.hook \in Hook /\ JobKnown
      /\ hooks[job.hook] = "retired" /\ (job.at \in Emptying => IdleFor(job.hook))
      /\ UNCHANGED put
  BY <1>1 DEF Mover, MoverAt, JobRuns, JobSettled, JobBatch, JobCopies, JobSwitches, JobErases, JobChecks,
     JobTrash, JobFinishes, JobFails, JobType, MoveInv, JobHolds, Typing, InHand
<1>3. /\ Paused.hook = job.hook /\ Paused.at = "off"
      /\ \A x : LET g == [job EXCEPT !.at = x] IN g.hook = job.hook /\ g.at = x /\ g.msg = job.msg
  BY <1>2 DEF Paused, JobType
<1>4. MessagesKept
  <2>1. CASE JobCopies
    <3>1. CASE UNCHANGED messages  BY <3>1, Standing
    <3>2. CASE ~UNCHANGED messages
      <4>1. PICK r \in job.rows : \E h \in HooksFor : Post(h, messages[r.msg].hash)
        BY <2>1, <3>2 DEF JobCopies
      <4>2. PICK h \in HooksFor : Post(h, messages[r.msg].hash)  BY <4>1
      <4>3. r.msg \in Known  BY <1>2, <2>1 DEF JobCopies, MoverAt, JobKnown
      <4>4. h \in Hook /\ messages[r.msg].hash \in Hash
        BY <4>3, KnownAreMessages DEF HooksFor, MessageType, Typing
      <4> QED  BY <4>2, <4>4, Posting DEF Typing
    <3> QED  BY <3>1, <3>2
  <2>2. CASE JobSwitches
    <3>1. job.msg \in Known  BY <1>2, <2>2 DEF JobSwitches, MoverAt, JobKnown
    <3>2. MayDelete(job.msg) \/ UNCHANGED messages  BY <2>2 DEF JobSwitches
    <3> QED  BY <3>1, <3>2, MayDeleting, Standing DEF Typing
  <2>3. CASE JobTrash
    <3>1. PICK m \in job.trash : messages' = Deleted(m) \/ UNCHANGED messages  BY <2>3 DEF JobTrash
    <3>2. m \in Known  BY <1>2 DEF JobKnown
    <3> QED  BY <3>1, <3>2, Deleting, Standing DEF Typing
  <2>4. CASE UNCHANGED messages  BY <2>4, Standing
  <2> QED
    BY <2>1, <2>2, <2>3, <2>4
    DEF Mover, JobRuns, JobSettled, JobBatch, JobErases, JobChecks, JobFinishes, JobFails
<1>5. PutsNoted'  BY <1>2, <1>4, NotedStays DEF MoveInv
<1>6. \A h \in Hook : IdleFor(h) => IdleFor(h)'  BY <1>2 DEF IdleFor, MayLand
<1>7. CASE JobFinishes
  <2>1. job.at = "trash" /\ UNCHANGED <<blobs, messages>>  BY <1>7 DEF JobFinishes, MoverAt
  <2>2. CASE Remaining(job.hook)
    <3>1. JobGoes("settle") /\ UNCHANGED hooks  BY <1>7, <2>2 DEF JobFinishes
    <3>2. job'.hook = job.hook /\ job'.at = "settle"  BY <1>3, <3>1 DEF JobGoes
    <3>3. \A b \in Blob : Stored(b)' => Stored(b) /\ blobs'[b].msg = blobs[b].msg  BY <2>1 DEF Stored
    <3> QED  BY <1>2, <1>4, <1>5, <1>6, <3>1, <3>2, <3>3, MoveStays DEF Emptying
  <2>3. CASE ~Remaining(job.hook)
    <3>1. hooks' = [hooks EXCEPT ![job.hook] = "moved"] /\ job' = None  BY <1>7, <2>3 DEF JobFinishes
    <3>2. JobHolds'  BY <3>1 DEF JobHolds
    <3>3. IdleFor(job.hook) /\ OnHook(job.hook) = {}  BY <1>2, <2>1, <2>3 DEF Remaining, Emptying
    <3>4. ASSUME NEW h \in Hook, hooks'[h] = "moved"  PROVE OnHook(h) = {} /\ IdleFor(h)
      <4>1. CASE h = job.hook  BY <3>3, <4>1
      <4>2. CASE h # job.hook  BY <1>1, <3>1, <3>4, <4>2 DEF DbTyped, MoveInv, MovedIsEmpty
      <4> QED  BY <4>1, <4>2
    <3>5. \A h \in Hook : OnHook(h)' = OnHook(h) /\ (IdleFor(h) => IdleFor(h)')
      BY <1>6, <2>1 DEF OnHook, Stored, HookOf
    <3>6. MovedIsEmpty'  BY <3>4, <3>5 DEF MovedIsEmpty
    <3> QED  BY <1>5, <3>2, <3>6 DEF MoveInv
  <2> QED  BY <2>2, <2>3
<1>8. CASE ~JobFinishes
  <2>1. UNCHANGED hooks
    BY <1>8 DEF Mover, JobRuns, JobSettled, JobBatch, JobCopies, JobSwitches, JobErases, JobChecks,
       JobTrash, JobFails, db
  <2>2. \A b \in Blob : Stored(b)' =>
          \/ Stored(b) /\ blobs'[b].msg = blobs[b].msg
          \/ hooks[messages'[blobs'[b].msg].hook] # "moved"
    <3>1. CASE UNCHANGED blobs  BY <3>1 DEF Stored
    <3>2. CASE JobSwitches /\ ~UNCHANGED blobs
      <4> DEFINE c == job.row.blob
                 row == [blobs[c] EXCEPT !.msg = job.msg]
      <4>1. blobs' = [blobs EXCEPT ![c] = row] /\ StillThere(job.row) /\ UNCHANGED messages
        BY <3>2 DEF JobSwitches
      <4>2. job.at = "switch" /\ job.row \in OldRow
        BY <1>2, <3>2 DEF JobSwitches, MoverAt, JobKnown, JobType
      <4>3. c \in Blob /\ blobs[c] \in Row  BY <1>1, <4>1, <4>2 DEF StillThere, Stored, OldRow, DbTyped
      <4>4. row.msg = job.msg  BY <4>3 DEF Row
      <4>5. hooks[HookOf(job.msg)] # "moved"  BY <1>2, <4>2 DEF MoveInv, JobHolds
      <4> HIDE DEF c, row
      <4>6. \A b \in Blob : blobs'[b] = IF b = c THEN row ELSE blobs[b]  BY <1>1, <4>1, <4>3 DEF DbTyped
      <4> QED  BY <4>1, <4>4, <4>5, <4>6 DEF Stored, HookOf
    <3> QED
      BY <1>8, <3>1, <3>2
      DEF Mover, JobRuns, JobSettled, JobBatch, JobCopies, JobErases, JobChecks, JobTrash, JobFails, db
  <2>3. job' # None => /\ job'.hook = job.hook
                       /\ job'.at \in Emptying => job.at \in Emptying \/ IdleFor(job.hook)
                       /\ job'.at = "switch" => \/ job.at = "switch" /\ job'.msg = job.msg
                                                \/ hooks[messages'[job'.msg].hook] # "moved"
    <3>1. CASE JobRuns
      <4>1. job'.hook = job.hook /\ job'.at = "settle"  BY <1>2, <3>1 DEF JobRuns, JobType
      <4> QED  BY <4>1 DEF Emptying
    <3>2. CASE JobSettled
      <4>1. job'.hook = job.hook /\ job'.at = "copy" /\ IdleFor(job.hook)
        BY <1>3, <3>2 DEF JobSettled, JobGoes
      <4> QED  BY <4>1
    <3>3. CASE JobBatch
      <4>1. job.at = "copy" /\ job'.hook = job.hook /\ job'.at \in {"copy", "garbage"}
        BY <1>2, <3>3 DEF JobBatch, MoverAt, JobType
      <4> QED  BY <4>1 DEF Emptying
    <3>4. CASE JobCopies
      <4>1. job.at = "copy"  BY <3>4 DEF JobCopies, MoverAt
      <4> DEFINE n == Len(messages) + 1
      <4>2. PICK r \in job.rows :
              \/ job' = None
              \/ /\ \E h \in HooksFor : Post(h, messages[r.msg].hash)
                 /\ job' = [job EXCEPT !.at = "switch", !.rows = @ \ {r}, !.row = r, !.msg = n]
        BY <3>4 DEF JobCopies
      <4>3. CASE job' = None  BY <4>3
      <4>4. CASE /\ \E h \in HooksFor : Post(h, messages[r.msg].hash)
                 /\ job' = [job EXCEPT !.at = "switch", !.rows = @ \ {r}, !.row = r, !.msg = n]
        <5>1. PICK h \in HooksFor : Post(h, messages[r.msg].hash)  BY <4>4
        <5>2. r.msg \in Known  BY <1>2, <4>1 DEF JobKnown
        <5>3. h \in Hook /\ messages[r.msg].hash \in Hash
          BY <5>2, KnownAreMessages DEF HooksFor, MessageType, Typing
        <5> DEFINE x == messages[r.msg].hash
        <5>4. messages'[n] = [hook |-> h, hash |-> x, live |-> TRUE]
          BY <5>1, <5>3, Posting DEF Typing
        <5> HIDE DEF x, n
        <5>5. messages'[n].hook = h  BY <5>4
        <5>6. job'.hook = job.hook /\ job'.msg = n  BY <1>2, <4>4 DEF JobType
        <5>7. hooks[h] = "active"  BY DEF HooksFor
        <5> QED  BY <4>1, <5>5, <5>6, <5>7 DEF Emptying
      <4> QED  BY <4>2, <4>3, <4>4
    <3>5. CASE JobSwitches
      <4>1. job.at = "switch" /\ job'.hook = job.hook /\ job'.at = "copy"
        BY <1>2, <3>5 DEF JobSwitches, MoverAt, JobType
      <4> QED  BY <4>1 DEF Emptying
    <3>6. CASE JobErases
      <4>1. job.at = "garbage" /\ job'.hook = job.hook /\ job'.at # "switch"
        BY <1>2, <3>6 DEF JobErases, MoverAt, JobGoes, JobType
      <4> QED  BY <4>1 DEF Emptying
    <3>7. CASE JobChecks
      <4>1. job.at = "settle2" /\ job'.hook = job.hook /\ job'.at # "switch"
        BY <1>3, <3>7 DEF JobChecks, MoverAt, JobGoes
      <4> QED  BY <4>1 DEF Emptying
    <3>8. CASE JobTrash
      <4>1. job.at = "trash" /\ job'.hook = job.hook /\ job'.at # "switch"
        BY <1>2, <3>8 DEF JobTrash, MoverAt, JobType
      <4> QED  BY <4>1 DEF Emptying
    <3>9. CASE JobFails
      BY <1>3, <3>9 DEF JobFails, Emptying
    <3> QED
      BY <1>8, <3>1, <3>2, <3>3, <3>4, <3>5, <3>6, <3>7, <3>8, <3>9 DEF Mover
  <2> QED  BY <1>2, <1>4, <1>5, <1>6, <2>1, <2>2, <2>3, MoveStays
<1> QED  BY <1>7, <1>8

LEMMA InitMove == Init => MoveInv
BY DEF Init, MoveInv, PutsNoted, JobHolds, MovedIsEmpty

LEMMA NextMove == Typing /\ MoveInv /\ [Next]_vars => MoveInv'
<1> SUFFICES ASSUME Typing, MoveInv, [Next]_vars  PROVE MoveInv'
  OBVIOUS
<1>1. CASE RestartServer  BY <1>1, StoppedMoves DEF RestartServer
<1>2. CASE UNCHANGED vars  BY <1>2, MoveIdles DEF vars, db, tasks
<1> QED
  BY <1>1, <1>2, UploadMoves, PutMoves, EraserMoves, HookMoves, TickMoves, MoverMoves DEF Next

\* MovedIsEmpty of the InstanceMove run: a webhook that left as moved holds no
\* blob and no put can land there, whatever puts, restarts and other changes
\* of the channels came between the steps of the job (ChannelMover.run).
THEOREM MovedHold == Spec => []MovedIsEmpty
<1>1. Init => Typing /\ MoveInv  BY InitTyping, InitMove
<1>2. Typing /\ MoveInv /\ [Next]_vars => (Typing /\ MoveInv)'  BY NextTyping, NextMove
<1>3. Typing /\ MoveInv => MovedIsEmpty  BY DEF MoveInv
<1> QED  BY <1>1, <1>2, <1>3, PTL DEF Spec

-----------------------------------------------------------------------------
(* Uploads                                                                 *)

\* Nothing an upload has stored is needed any more.
LetGo == {"dropped", "restored", "kept"}
Ended(u) == State(u) \in Tombstones \/ client[u].at \in LetGo

\* What the server has counted agrees with how far the client is: one whose
\* commit is in the log was counted, unless the server stopped in between; and
\* a tombstone is set only on what no lease covers or its owner gave up.
Agrees(u) ==
  /\ State(u) = "released" => client[u].at \in LetGo
  /\ u \in leased /\ State(u) \in Tombstones => client[u].at \in {"gone"} \cup LetGo
  /\ client[u].at \in {"sending", "final"} /\ ~client[u].safe => uploads[u].guarded >= 1
  /\ client[u].at \in {"final", "bound"} => \A i \in Piece : client[u].got[i] # None
  /\ client[u].at = "final" => State(u) \notin {"none", "open"}
  /\ client[u].at = "final" /\ client[u].safe => State(u) = "committed"
  /\ client[u].at = "bound" /\ u \notin torn => State(u) = "committed"

\* Only uploads that have ended are erased.
ErasesEnded ==
  /\ \A e \in Eraser : eraser[e] # None => Ended(eraser[e].upload)
  /\ tick.at \in {"purge", "leftover"} => \A u \in tick.todo : Ended(u)
  /\ tick.on # None => Ended(tick.on)
  /\ job # None /\ job.at = "garbage" => \A u \in job.rows : Ended(u)

UploadInv == ErasesEnded /\ \A u \in Upload : Agrees(u)

LEMMA AgreesStays ==
  ASSUME NEW u \in Upload, Agrees(u), State(u)' = State(u), uploads'[u].guarded >= uploads[u].guarded,
         Typing, Typing',
         client'[u] = client[u], u \in leased' => u \in leased, u \in torn => u \in torn'
  PROVE  Agrees(u)' /\ (Ended(u) => Ended(u)')
<1>1. uploads[u].guarded \in Nat /\ uploads'[u].guarded \in Nat
  BY DEF Typing, TypeOK, UploadType
<1> QED  BY <1>1 DEF Agrees, Ended

\* What an action about an upload makes of it.
LEMMA UploadAgrees ==
  ASSUME Typing, Typing', NEW u \in Upload, Agrees(u), OfUpload(u)
  PROVE  Agrees(u)' /\ (Ended(u) => Ended(u)')
<1>1. DbTyped /\ ClientTyped  BY Types DEF Typing
<1>2. uploads[u] \in UploadType /\ client[u] \in ClientType /\ client[u].safe \in BOOLEAN
      /\ State(u) \in {"none", "open", "final", "committed", "released"} \cup Tombstones
      /\ uploads[u].guarded \in Nat
  BY <1>1 DEF DbTyped, ClientTyped, ClientType, UploadType, State
<1>3. \A x \in Stage : client' = [client EXCEPT ![u].at = x] =>
        /\ client'[u].at = x /\ client'[u].safe = client[u].safe /\ client'[u].got = client[u].got
  <2> SUFFICES ASSUME NEW x \in Stage, client' = [client EXCEPT ![u].at = x]
               PROVE  /\ client'[u].at = x /\ client'[u].safe = client[u].safe /\ client'[u].got = client[u].got
    OBVIOUS
  <2>1. ClientTyped  BY <1>1
  <2>2. \A v \in Upload : /\ client'[v].at = IF v = u THEN x ELSE client[v].at
                          /\ client'[v].safe = client[v].safe /\ client'[v].got = client[v].got
    BY <2>1, AtChanges
  <2> QED  BY <2>2
<1>4. \A x : uploads' = [uploads EXCEPT ![u].state = x] =>
        State(u)' = x /\ uploads'[u].guarded = uploads[u].guarded
  BY <1>1, <1>2 DEF DbTyped, UploadType, State
<1>5. uploads' = [uploads EXCEPT ![u] = OnAppend(@)] =>
        /\ uploads'[u].guarded >= 1
        /\ State(u)' = IF State(u) = "none" THEN "open"
                       ELSE IF uploads[u].guarded >= 1 /\ State(u) \in {"open", "final"} THEN "committed"
                       ELSE State(u)
  <2>1. uploads' = [uploads EXCEPT ![u] = OnAppend(@)] => uploads'[u] = OnAppend(uploads[u])
    BY <1>1 DEF DbTyped
  <2> QED  BY <1>1, <2>1, Appending DEF State
<1>6. CASE RenewLease(u)
  <2>1. State(u)' = State(u) /\ uploads'[u].guarded = uploads[u].guarded /\ State(u) \notin Tombstones
    BY <1>1, <1>2, <1>6 DEF RenewLease, DbTyped, UploadType, State
  <2> QED  BY <1>6, <2>1 DEF RenewLease, Agrees, Ended, history
<1>7. CASE EndLease(u) \/ GoIdle(u)
  <2>1. State(u)' = State(u) /\ uploads'[u].guarded = uploads[u].guarded
    BY <1>1, <1>2, <1>7 DEF EndLease, GoIdle, DbTyped, UploadType, State, db
  <2>2. client'[u] = client[u] /\ (u \in leased' => u \in leased) /\ torn' = torn
    BY <1>7 DEF EndLease, GoIdle, history
  <2> QED  BY <1>2, <2>1, <2>2 DEF Agrees, Ended
<1>8. CASE Begin(u)
  <2>1. /\ client[u].at = "new" /\ u \in leased /\ UNCHANGED <<leased, torn>>
        /\ client' = [client EXCEPT ![u].at = "sending"]
    BY <1>8 DEF Begin, history
  <2>2. client'[u].at = "sending" /\ client'[u].safe = client[u].safe  BY <1>3, <2>1 DEF Stage
  <2>3. CASE client[u].safe
    <3>1. uploads'[u] = uploads[u]  BY <1>1, <1>8, <2>3 DEF Begin, DbTyped
    <3> QED  BY <2>1, <2>2, <2>3, <3>1 DEF Agrees, Ended, State, LetGo
  <2>4. CASE ~client[u].safe
    <3>1. uploads' = [uploads EXCEPT ![u] = OnAppend(@)]  BY <1>8, <2>4 DEF Begin
    <3> QED  BY <1>5, <2>1, <2>2, <3>1 DEF Agrees, Ended, LetGo, Tombstones
  <2> QED  BY <2>3, <2>4
<1>9. CASE Resume(u)
  <2>1. PICK kept \in SUBSET Piece :
          client' = [client EXCEPT ![u].at = "sending", ![u].session = @ + 1,
                       ![u].got = [i \in Piece |-> IF i \in kept THEN @[i] ELSE None]]
    BY <1>9 DEF Resume
  <2> DEFINE g == [i \in Piece |-> IF i \in kept THEN client[u].got[i] ELSE None]
             r == [client[u] EXCEPT !.at = "sending", !.session = @ + 1, !.got = g]
  <2>2. client' = [client EXCEPT ![u] = r]  BY <2>1
  <2> HIDE DEF g
  <2>3. r.at = "sending" /\ r.safe = client[u].safe  BY <1>2 DEF ClientType
  <2> HIDE DEF r
  <2>4. client'[u].at = "sending" /\ client'[u].safe = client[u].safe
    BY <1>1, <2>2, <2>3 DEF ClientTyped
  <2>5. client[u].at \in {"sending", "final"} /\ ~client[u].safe /\ UNCHANGED <<uploads, leased, torn>>
    BY <1>9 DEF Resume, db, history
  <2> QED  BY <2>4, <2>5 DEF Agrees, Ended, State, LetGo
<1>10. CASE Commit(u)
  <2>1. /\ client[u].at = "final" /\ ~client[u].safe /\ u \in leased /\ UNCHANGED <<leased, torn>>
        /\ client' = [client EXCEPT ![u].at = "bound"]
        /\ uploads' = [uploads EXCEPT ![u] = OnAppend(@)]
    BY <1>10 DEF Commit, history
  <2>2. client'[u].at = "bound" /\ client'[u].got = client[u].got  BY <1>3, <2>1 DEF Stage
  <2>3. State(u) \in {"final", "committed"} /\ uploads[u].guarded >= 1
    BY <1>2, <2>1 DEF Agrees, LetGo
  <2>4. State(u)' = "committed"  BY <1>5, <2>1, <2>3
  <2> QED  BY <2>1, <2>2, <2>3, <2>4 DEF Agrees, Ended, LetGo, Tombstones
<1>11. CASE CommitOutside(u)
  <2>1. /\ client[u].at = "final" /\ client[u].safe /\ UNCHANGED <<leased, torn, uploads>>
        /\ client' = [client EXCEPT ![u].at = "bound"]
    BY <1>11 DEF CommitOutside, db, history
  <2>2. client'[u].at = "bound" /\ client'[u].got = client[u].got  BY <1>3, <2>1 DEF Stage
  <2>3. State(u) = "committed" /\ State(u)' = "committed"  BY <2>1 DEF Agrees, State
  <2> QED  BY <2>1, <2>2, <2>3 DEF Agrees, Ended, LetGo, Tombstones
<1>12. CASE CommitTorn(u)
  <2>1. /\ client[u].at = "final" /\ u \in leased /\ leased' = {} /\ torn' = torn \cup {u} /\ UNCHANGED uploads
        /\ client' = [client EXCEPT ![u].at = "bound"]
    BY <1>12 DEF CommitTorn, Stopped, db
  <2>2. client'[u].at = "bound" /\ client'[u].got = client[u].got  BY <1>3, <2>1 DEF Stage
  <2> QED  BY <2>1, <2>2 DEF Agrees, Ended, State, LetGo
<1>13. CASE Drop(u) \/ Restore(u)
  <2>1. PICK x \in {"dropped", "restored"} : client' = [client EXCEPT ![u].at = x]
    BY <1>13 DEF Drop, Restore
  <2>2. client'[u].at \in LetGo  BY <1>3, <2>1 DEF Stage, LetGo
  <2> QED  BY <2>2 DEF Agrees, Ended, LetGo
<1>14. CASE Finalize(u)
  <2> DEFINE x == IF client[u].safe THEN "committed" ELSE "final"
             r == [uploads[u] EXCEPT !.state = x, !.idle = FALSE]
  <2>1. uploads' = [uploads EXCEPT ![u] = r]  BY <1>14 DEF Finalize
  <2>2. r.state = x /\ r.guarded = uploads[u].guarded  BY <1>2 DEF UploadType
  <2> HIDE DEF r
  <2>3. State(u)' = x /\ uploads'[u].guarded = uploads[u].guarded  BY <1>1, <2>1, <2>2 DEF DbTyped, State
  <2>4. /\ client[u].at = "sending" /\ \A i \in Piece : client[u].got[i] # None
        /\ UNCHANGED <<leased, torn>> /\ State(u) \in {"open", "final"}
    BY <1>14 DEF Finalize, history
  <2>5. client'[u].at \in {"sending", "final"} /\ client'[u].safe = client[u].safe /\ client'[u].got = client[u].got
    BY <1>3, <1>14, <2>4 DEF Finalize, Stage
  <2>6. x \notin {"none", "open", "released"} \cup Tombstones /\ (client[u].safe => x = "committed")
    BY DEF Tombstones
  <2> HIDE DEF x
  <2> QED  BY <2>3, <2>4, <2>5, <2>6 DEF Agrees, Ended, LetGo, Tombstones
<1>15. CASE Cancel(u)
  <2>1. client'[u].at = "gone"  BY <1>3, <1>15 DEF Cancel, Stage
  <2>2. client[u].at \in {"sending", "gone"} /\ UNCHANGED <<leased, torn>>  BY <1>15 DEF Cancel, history
  <2>3. State(u)' \in {State(u), "aborted"}  BY <1>4, <1>15 DEF Cancel, State
  <2> QED  BY <2>1, <2>2, <2>3 DEF Agrees, Ended, LetGo, Tombstones
<1>16. CASE Released(u)
  <2>1. State(u)' = "released" /\ client[u].at = "dropped" /\ UNCHANGED client
    BY <1>4, <1>16 DEF Released
  <2> QED  BY <2>1 DEF Agrees, Ended, LetGo
<1>17. CASE Kept(u)
  <2>1. State(u)' = "committed" /\ client'[u].at = "kept"  BY <1>3, <1>4, <1>17 DEF Kept, Stage
  <2> QED  BY <2>1 DEF Agrees, Ended, LetGo, Tombstones
<1> QED
  BY <1>6, <1>7, <1>8, <1>9, <1>10, <1>11, <1>12, <1>13, <1>14, <1>15, <1>16, <1>17 DEF OfUpload

\* ... and that it leaves the others alone.
LEMMA OthersStay ==
  ASSUME Typing, NEW u \in Upload, OfUpload(u), NEW v \in Upload, v # u
  PROVE  uploads'[v] = uploads[v] /\ client'[v] = client[v]
<1>1. DbTyped /\ ClientTyped  BY Types DEF Typing
<1>2. uploads'[v] = uploads[v]
  BY <1>1 DEF DbTyped, OfUpload, RenewLease, EndLease, GoIdle, Begin, Resume, Commit, CommitOutside, Drop, Restore,
     Finalize, Released, Kept, Cancel, CommitTorn, db
<1>3. client'[v] = client[v]
  BY <1>1 DEF ClientTyped, OfUpload, RenewLease, EndLease, GoIdle, Begin, Resume, Commit, CommitOutside, Drop, Restore,
     Finalize, Released, Kept, Cancel, CommitTorn
<1> QED  BY <1>2, <1>3

\* What a step makes of every upload, and of what is to be erased.
LEMMA UploadStep ==
  ASSUME Typing, Typing', UploadInv, NEW u \in Upload, OfUpload(u), NEW v \in Upload
  PROVE  Agrees(v)' /\ (Ended(v) => Ended(v)')
<1>1. CASE v = u  BY <1>1, UploadAgrees DEF UploadInv
<1>2. CASE v # u
  <2>1. uploads'[v] = uploads[v] /\ client'[v] = client[v]  BY <1>2, OthersStay
  <2>2. v \in leased' => v \in leased
    BY <1>2 DEF OfUpload, RenewLease, EndLease, GoIdle, Begin, Resume, Commit, CommitOutside, Drop, Restore,
       Finalize, Released, Kept, Cancel, CommitTorn, Stopped
  <2>3. torn \subseteq torn'
    BY DEF OfUpload, RenewLease, EndLease, GoIdle, Begin, Resume, Commit, CommitOutside, Drop, Restore,
       Finalize, Released, Kept, Cancel, CommitTorn, Stopped, history
  <2>4. uploads[v].guarded \in Nat  BY DEF Typing, TypeOK, UploadType
  <2> QED  BY <2>1, <2>2, <2>3, <2>4, AgreesStays DEF UploadInv, State
<1> QED  BY <1>1, <1>2

\* Uploads that are not changed go on as they were.
LEMMA UploadsIdle ==
  ASSUME Typing, Typing', UploadInv, UNCHANGED torn, leased' \subseteq leased,
         \A u \in Upload : State(u)' = State(u) /\ uploads'[u].guarded = uploads[u].guarded,
         \A u \in Upload : /\ client'[u].at = client[u].at /\ client'[u].safe = client[u].safe
                           /\ client[u].at # "sending" => client'[u].got = client[u].got
  PROVE  \A u \in Upload : Agrees(u)' /\ (Ended(u) => Ended(u)')
BY DEF UploadInv, Agrees, Ended

\* What is erased stays ended when nothing more is begun.
LEMMA ErasesStay ==
  ASSUME Typing, Typing', ErasesEnded, \A u \in Upload : Ended(u) => Ended(u)',
         \A e \in Eraser : eraser'[e] # None => \/ eraser[e] # None /\ eraser'[e].upload = eraser[e].upload
                                                \/ \E v \in Upload : eraser'[e].upload = v /\ Ended(v)',
         tick'.at \in {"purge", "leftover"} => \A u \in tick'.todo :
           Ended(u) \/ (tick.at \in {"purge", "leftover"} /\ u \in tick.todo),
         tick'.on # None => Ended(tick'.on) \/ tick.on = tick'.on,
         job' # None /\ job'.at = "garbage" => \A u \in job'.rows :
           Ended(u) \/ (job # None /\ job.at = "garbage" /\ u \in job.rows)
  PROVE  ErasesEnded'
<1>1. ASSUME NEW e \in Eraser, eraser'[e] # None  PROVE Ended(eraser[e].upload)'
  <2> DEFINE v == eraser'[e].upload
  <2>1. v \in Upload  BY <1>1 DEF Typing, TypeOK, EraserType
  <2>2. PICK x \in Upload : x = v  BY <2>1
  <2>3. (\E w \in Upload : v = w /\ Ended(w)') \/ Ended(v)  BY <1>1 DEF ErasesEnded
  <2> HIDE DEF v
  <2>4. Ended(x)'  BY <2>2, <2>3
  <2> QED  BY <2>2, <2>4 DEF v, Ended, State
<1>2. ASSUME tick'.at \in {"purge", "leftover"}  PROVE \A u \in tick'.todo : Ended(u)'
  <2>1. tick'.todo \subseteq Upload  BY DEF Typing, TypeOK, TickType
  <2> QED  BY <1>2, <2>1 DEF ErasesEnded
<1>3. ASSUME tick'.on # None  PROVE Ended(tick.on)'
  <2>1. tick'.on \in Upload  BY <1>3 DEF Typing, TypeOK, TickType
  <2>2. PICK x \in Upload : x = tick'.on  BY <2>1
  <2>3. Ended(x)  BY <1>3, <2>2 DEF ErasesEnded
  <2>4. Ended(x)'  BY <2>3
  <2> QED  BY <2>2, <2>4 DEF Ended, State
<1>4. ASSUME job' # None, job'.at = "garbage"  PROVE \A u \in job'.rows : Ended(u)'
  <2>1. job'.rows \subseteq Upload  BY <1>4 DEF Typing, InHand, JobKnown
  <2> QED  BY <1>4, <2>1 DEF ErasesEnded
<1> QED  BY <1>1, <1>2, <1>3, <1>4 DEF ErasesEnded

\* An upload that has ended does not begin again.
EndedLasts == \A u \in Upload : Ended(u) => Ended(u)'

LEMMA UploadUploads ==
  ASSUME Typing, Typing', UploadInv, NEW u \in Upload, OfUpload(u)
  PROVE  UploadInv' /\ EndedLasts
<1>1. \A v \in Upload : Agrees(v)' /\ (Ended(v) => Ended(v)')  BY UploadStep
<1>2. DbTyped /\ EraserTyped /\ tick \in TickType /\ job \in JobType \cup {None}  BY Types DEF Typing, TasksTyped
<1>3. CASE Cancel(u)
  <2>1. UNCHANGED <<blobs, messages, tick, job>>  BY <1>3 DEF Cancel
  <2>2. ASSUME NEW e \in Eraser, eraser'[e] # None
        PROVE  \/ eraser[e] # None /\ eraser'[e].upload = eraser[e].upload
               \/ \E v \in Upload : eraser'[e].upload = v /\ Ended(v)'
    <3>1. CASE UNCHANGED eraser  BY <2>2, <3>1
    <3>2. CASE ~UNCHANGED eraser
      <4>1. MayCancel(u) /\ Erase("cancel", u)  BY <1>3, <3>2 DEF Cancel
      <4>2. uploads' = [uploads EXCEPT ![u].state =
                          IF @ = "none" \/ (MayCancel(u) /\ @ \notin Tombstones) THEN "aborted" ELSE @]
        BY <1>3 DEF Cancel
      <4>3. State(u)' = IF State(u) = "none" \/ (MayCancel(u) /\ State(u) \notin Tombstones) THEN "aborted"
                        ELSE State(u)
        BY <1>2, <4>2 DEF DbTyped, UploadType, State
      <4>4. Ended(u)'  BY <4>1, <4>3 DEF Ended, Tombstones
      <4>5. e # "cancel" => eraser'[e] = eraser[e]  BY <2>1, <4>1, Erasing DEF Eraser
      <4>6. e = "cancel" => eraser'[e].upload = u  BY <2>1, <2>2, <4>1, Erasing DEF Eraser
      <4> QED  BY <2>2, <4>4, <4>5, <4>6
    <3> QED  BY <3>1, <3>2
  <2> QED  BY <1>1, <2>1, <2>2, ErasesStay DEF UploadInv, EndedLasts
<1>4. CASE CommitTorn(u)
  <2>1. eraser' = [e \in Eraser |-> None] /\ tick' = NoTick  BY <1>4 DEF CommitTorn, Stopped
  <2>2. job' # None => job'.at = "off"  BY <1>2, <1>4 DEF CommitTorn, Stopped, JobType
  <2> QED  BY <1>1, <2>1, <2>2 DEF UploadInv, ErasesEnded, NoTick, EndedLasts
<1>5. CASE ~Cancel(u) /\ ~CommitTorn(u)
  <2>1. UNCHANGED <<eraser, tick, job>>
    BY <1>5 DEF OfUpload, RenewLease, EndLease, GoIdle, Begin, Resume, Commit, CommitOutside, Drop, Restore,
       Finalize, Released, Kept, tasks
  <2> QED  BY <1>1, <2>1, ErasesStay DEF UploadInv, EndedLasts
<1> QED  BY <1>3, <1>4, <1>5

LEMMA PutUploads ==
  ASSUME Typing, Typing', UploadInv, NEW p \in Put, OfPut(p)
  PROVE  UploadInv' /\ EndedLasts
<1>1. UNCHANGED <<leased, tick, eraser, job, torn>>
  BY DEF OfPut, PutStart, PutBody, PutLands, PutFails, PutPosted, PutDropped, PutReplaces, PutReplaced, HangUp, history
<1>2. DbTyped /\ ClientTyped  BY Types DEF Typing
<1>3. ASSUME NEW v \in Upload  PROVE Agrees(v)' /\ (Ended(v) => Ended(v)')
  <2>1. /\ client'[v].at = client[v].at /\ client'[v].safe = client[v].safe
        /\ client[v].at # "sending" => client'[v].got = client[v].got
    <3>1. ASSUME NEW b \in Blob, NEW a, NEW heard, Answer(b, a, heard)
          PROVE  /\ client'[v].at = client[v].at /\ client'[v].safe = client[v].safe
                 /\ client[v].at # "sending" => client'[v].got = client[v].got
      <4>1. CASE UNCHANGED client  BY <4>1
      <4>2. CASE ~UNCHANGED client
        <5> DEFINE u == b[1]
                   g == [client[u].got EXCEPT ![b[2]] = a]
                   r == [client[u] EXCEPT !.got = g]
        <5>1. client' = [client EXCEPT ![u] = r] /\ client[u].at = "sending"  BY <3>1, <4>2 DEF Answer
        <5>2. u \in Upload  BY DEF Blob
        <5>3. client[u] \in ClientType  BY <1>2, <5>2 DEF ClientTyped
        <5> HIDE DEF g, u
        <5>4. r.at = client[u].at /\ r.safe = client[u].safe  BY <5>3 DEF ClientType
        <5> HIDE DEF r
        <5>5. client'[v] = IF v = u THEN r ELSE client[v]  BY <1>2, <5>1, <5>2 DEF ClientTyped
        <5> QED  BY <5>1, <5>4, <5>5
      <4> QED  BY <4>1, <4>2
    <3>2. CASE UNCHANGED client  BY <3>2
    <3>3. CASE Store(p) /\ (PutPosted(p) \/ PutReplaced(p))
      <4>1. put[p].blob \in Blob  BY <3>3, InProgress DEF PutPosted, PutReplaced
      <4> QED  BY <3>1, <3>3, <4>1 DEF Store
    <3>4. CASE \E u \in Upload, i \in Piece : PutStart(p, u, i)
      <4>1. PICK u \in Upload, i \in Piece : PutStart(p, u, i)  BY <3>4
      <4>2. <<u, i>> \in Blob  BY DEF Blob
      <4> QED  BY <3>1, <4>1, <4>2 DEF PutStart
    <3> QED
      BY <3>2, <3>3, <3>4
      DEF OfPut, PutBody, PutLands, PutFails, PutPosted, PutDropped, PutReplaces, PutReplaced, HangUp
  <2>2. uploads'[v].guarded = uploads[v].guarded /\
        (State(v)' = State(v) \/ (State(v) = "none" /\ State(v)' = "open"))
    <3>1. CASE UNCHANGED uploads  BY <3>1 DEF State
    <3>2. CASE \E u \in Upload, i \in Piece : PutStart(p, u, i)
      <4>1. PICK u \in Upload : uploads' = [uploads EXCEPT ![u] = Touched(@)]  BY <3>2 DEF PutStart
      <4>2. uploads[u] \in UploadType  BY <1>2 DEF DbTyped
      <4>3. /\ Touched(uploads[u]).guarded = uploads[u].guarded
            /\ Touched(uploads[u]).state = IF uploads[u].state = "none" THEN "open" ELSE uploads[u].state
        BY <4>2 DEF Touched, UploadType
      <4>4. uploads'[v] = IF v = u THEN Touched(uploads[u]) ELSE uploads[v]  BY <1>2, <4>1 DEF DbTyped
      <4> QED  BY <4>3, <4>4 DEF State
    <3> QED
      BY <3>1, <3>2
      DEF OfPut, PutBody, PutLands, PutFails, PutPosted, PutDropped, PutReplaces, PutReplaced, HangUp, db
  <2> QED  BY <1>1, <2>1, <2>2 DEF UploadInv, Agrees, Ended, Tombstones
<1> QED  BY <1>1, <1>3, ErasesStay DEF UploadInv, EndedLasts

LEMMA EraserUploads ==
  ASSUME Typing, Typing', UploadInv, NEW e \in Eraser, OfEraser(e)
  PROVE  UploadInv' /\ EndedLasts
<1>1. UNCHANGED <<uploads, client, leased, torn>>
  BY DEF OfEraser, EraseMessage, EraseSkips, EraseMarks, EraseThrows, db, history
<1>2. \A v \in Upload : Agrees(v)' /\ (Ended(v) => Ended(v)')  BY <1>1, UploadsIdle DEF State
<1>3. EraserTyped /\ tick \in TickType /\ job \in JobType \cup {None}  BY Types DEF Typing, TasksTyped
<1>4. eraser[e] # None  BY DEF OfEraser, EraseMessage, EraseSkips, EraseMarks, EraseThrows
<1>5. ASSUME NEW f \in Eraser, eraser'[f] # None
      PROVE  eraser[f] # None /\ eraser'[f].upload = eraser[f].upload
  <2>1. CASE EraseThrows(e)  BY <1>3, <1>5, <2>1 DEF EraseThrows, EraserTyped
  <2>2. ASSUME NEW rows, NEW hit, Left(e, rows, hit)
        PROVE  eraser[f] # None /\ eraser'[f].upload = eraser[f].upload
    <3>1. CASE f # e  BY <1>3, <1>5, <2>2, <3>1 DEF Left, EraserTyped
    <3>2. CASE f = e
      <4>1. eraser[e] \in EraserType  BY <1>4, AtWork
      <4>2. eraser'[e] = [eraser[e] EXCEPT !.rows = rows, !.hit = hit]
        BY <1>3, <1>5, <2>2, <3>2 DEF Left, EraserTyped
      <4> QED  BY <1>4, <3>2, <4>1, <4>2 DEF EraserType
    <3> QED  BY <3>1, <3>2
  <2> QED  BY <2>1, <2>2 DEF OfEraser, EraseMessage, EraseSkips, EraseMarks
<1>6. tick' = tick \/ tick' = NoTick
  BY DEF OfEraser, EraseMessage, EraseSkips, EraseMarks, EraseThrows
<1>7. job' = job \/ (job' # None => job'.at = "off")
  <2>1. CASE EraseThrows(e) /\ e = "mover"
    <3>1. job' = Paused /\ job # None /\ job \in JobType
      BY <1>3, <2>1 DEF EraseThrows, Typing, InHand, MoverKnown
    <3> QED  BY <3>1 DEF Paused, JobType
  <2>2. CASE UNCHANGED job  BY <2>2
  <2> QED  BY <2>1, <2>2 DEF OfEraser, EraseMessage, EraseSkips, EraseMarks, EraseThrows
<1>8. tick'.at \in {"purge", "leftover"} => tick' = tick  BY <1>6 DEF NoTick
<1>9. tick'.on # None => tick' = tick  BY <1>6 DEF NoTick
<1> QED  BY <1>2, <1>5, <1>7, <1>8, <1>9, ErasesStay DEF UploadInv, EndedLasts

LEMMA TickUploads ==
  ASSUME Typing, Typing', UploadInv, Tick
  PROVE  UploadInv' /\ EndedLasts
<1>1. UNCHANGED <<blobs, messages, client, leased, torn, job>>
  BY DEF Tick, TickStart, TickReap, TickPurges, TickPurge, TickPurged, TickLeftovers, TickLeftover, db, history
<1>2. DbTyped /\ EraserTyped /\ tick \in TickType /\ tick.todo \subseteq Upload
  BY Types DEF Typing, TasksTyped, TickType
<1>3. \A x : \A u \in Upload : uploads' = [uploads EXCEPT ![u].state = x] =>
        \A v \in Upload : /\ State(v)' = IF v = u THEN x ELSE State(v)
                          /\ uploads'[v].guarded = uploads[v].guarded
  BY <1>2 DEF DbTyped, UploadType, State
<1>4. ASSUME NEW v \in Upload
      PROVE  Agrees(v)' /\ (Ended(v) => Ended(v)')
  <2>1. CASE UNCHANGED uploads  BY <1>1, <1>4, <2>1, UploadsIdle DEF State
  <2>2. CASE TickReap /\ ~UNCHANGED uploads
    <3>1. PICK u \in tick.todo : MayReap(u) /\ uploads' = [uploads EXCEPT ![u].state = "reaped"]
      BY <2>2 DEF TickReap
    <3>2. u \in Upload /\ State(v)' = (IF v = u THEN "reaped" ELSE State(v))
          /\ uploads'[v].guarded = uploads[v].guarded
      BY <1>2, <1>3, <3>1
    <3>3. Agrees(v)  BY DEF UploadInv
    <3>4. v = u => v \notin leased /\ uploads[v].guarded < 2 /\ State(v) \in {"open", "final"}
      BY <3>1 DEF MayReap
    <3>5. v = u => Agrees(v)' /\ Ended(v)'
      BY <1>1, <3>2, <3>3, <3>4 DEF Agrees, Ended, Tombstones
    <3> QED  BY <1>1, <3>2, <3>3, <3>5 DEF Agrees, Ended
  <2>3. CASE TickPurged
    <3>1. tick.on \in Upload /\ uploads' = [uploads EXCEPT ![tick.on].state = "purged"]
      BY <1>2, <2>3 DEF TickPurged, TickType
    <3>2. State(v)' = (IF v = tick.on THEN "purged" ELSE State(v)) /\ uploads'[v].guarded = uploads[v].guarded
      BY <1>3, <3>1
    <3>3. Agrees(v) /\ (v = tick.on => Ended(v))  BY <2>3 DEF UploadInv, ErasesEnded, TickPurged
    <3> QED  BY <1>1, <3>2, <3>3 DEF Agrees, Ended, Tombstones, LetGo
  <2> QED
    BY <2>1, <2>2, <2>3 DEF Tick, TickStart, TickReap, TickPurges, TickPurge, TickLeftovers, TickLeftover, db
<1>5. \A u \in Upload : Erase("tick", u) => \A e \in Eraser : eraser'[e] # None =>
        (eraser[e] # None /\ eraser'[e].upload = eraser[e].upload) \/ eraser'[e].upload = u
  BY <1>1, Erasing DEF Eraser
<1>6. ASSUME NEW e \in Eraser, eraser'[e] # None
      PROVE  \/ eraser[e] # None /\ eraser'[e].upload = eraser[e].upload
             \/ \E v \in Upload : eraser'[e].upload = v /\ Ended(v)'
  <2>1. CASE UNCHANGED eraser  BY <1>6, <2>1
  <2>2. CASE TickReap /\ ~UNCHANGED eraser
    <3>1. PICK u \in tick.todo : uploads' = [uploads EXCEPT ![u].state = "reaped"] /\ Erase("tick", u)
      BY <2>2 DEF TickReap
    <3>2. u \in Upload /\ State(u)' = "reaped"  BY <1>2, <1>3, <3>1
    <3>3. Ended(u)'  BY <3>2 DEF Ended, Tombstones
    <3> QED  BY <1>5, <1>6, <3>1, <3>2, <3>3
  <2>3. CASE (TickPurge \/ TickLeftover) /\ ~UNCHANGED eraser
    <3>1. PICK u \in tick.todo : Erase("tick", u)  BY <2>3 DEF TickPurge, TickLeftover
    <3>2. tick.at \in {"purge", "leftover"}  BY <2>3 DEF TickPurge, TickLeftover, TickFree
    <3>3. u \in Upload /\ Ended(u)  BY <1>2, <3>1, <3>2 DEF UploadInv, ErasesEnded
    <3>4. Ended(u)'  BY <1>4, <3>3
    <3> QED  BY <1>5, <1>6, <3>1, <3>3, <3>4
  <2> QED
    BY <2>1, <2>2, <2>3 DEF Tick, TickStart, TickPurges, TickPurged, TickLeftovers
<1>7. ASSUME tick'.at \in {"purge", "leftover"}
      PROVE  \A u \in tick'.todo : Ended(u) \/ (tick.at \in {"purge", "leftover"} /\ u \in tick.todo)
  <2>1. CASE TickStart  BY <1>7, <2>1 DEF TickStart
  <2>2. CASE TickReap
    <3>1. tick'.at = "reap"  BY <1>2, <2>2 DEF TickReap, TickFree, TickType
    <3> QED  BY <1>7, <3>1
  <2>3. CASE TickPurges
    <3>1. PICK due \in SUBSET {u \in Upload : State(u) = "released"} :
            tick' = [tick EXCEPT !.at = "purge", !.todo = due]
      BY <2>3 DEF TickPurges
    <3>2. tick'.todo = due  BY <1>2, <3>1 DEF TickType
    <3> QED  BY <3>2 DEF UploadInv, Agrees, Ended
  <2>4. CASE TickPurge
    <3>1. tick'.todo \subseteq tick.todo /\ tick.at = "purge"  BY <1>2, <2>4 DEF TickPurge, TickFree, TickType
    <3> QED  BY <3>1
  <2>5. CASE TickPurged
    <3>1. tick'.todo = tick.todo /\ tick'.at = tick.at  BY <1>2, <2>5 DEF TickPurged, TickType
    <3> QED  BY <1>7, <3>1
  <2>6. CASE TickLeftovers
    <3>1. tick'.todo = Leftover  BY <1>2, <2>6 DEF TickLeftovers, TickType
    <3> QED  BY <3>1 DEF Leftover, Ended
  <2>7. CASE TickLeftover
    <3>1. (tick'.todo \subseteq tick.todo /\ tick.at = "leftover") \/ tick' = NoTick
      BY <1>2, <2>7 DEF TickLeftover, TickFree, TickType
    <3> QED  BY <1>7, <3>1 DEF NoTick
  <2> QED  BY <2>1, <2>2, <2>3, <2>4, <2>5, <2>6, <2>7 DEF Tick
<1>8. ASSUME tick'.on # None  PROVE Ended(tick'.on) \/ tick.on = tick'.on
  <2>1. CASE TickStart \/ TickReap \/ TickPurges \/ TickLeftovers
    <3>1. tick'.on = None \/ tick'.on = tick.on
      <4>1. CASE TickPurges
        <5>1. PICK due : tick' = [tick EXCEPT !.at = "purge", !.todo = due]  BY <4>1 DEF TickPurges
        <5> QED  BY <1>2, <5>1 DEF TickType
      <4>2. CASE TickStart  BY <4>2 DEF TickStart
      <4>3. CASE TickReap
        <5>1. PICK u \in tick.todo : tick' = [tick EXCEPT !.todo = @ \ {u}]  BY <4>3 DEF TickReap
        <5> QED  BY <1>2, <5>1 DEF TickType
      <4>4. CASE TickLeftovers  BY <1>2, <4>4 DEF TickLeftovers, TickType
      <4> QED  BY <2>1, <4>1, <4>2, <4>3, <4>4
    <3> QED  BY <1>8, <3>1
  <2>2. CASE TickPurge
    <3>1. tick'.on \in tick.todo /\ tick.at = "purge"  BY <1>2, <2>2 DEF TickPurge, TickFree, TickType
    <3> QED  BY <3>1 DEF UploadInv, ErasesEnded
  <2>3. CASE TickPurged  BY <1>2, <1>8, <2>3 DEF TickPurged, TickType
  <2>4. CASE TickLeftover  BY <1>2, <1>8, <2>4 DEF TickLeftover, TickType, NoTick
  <2> QED  BY <2>1, <2>2, <2>3, <2>4 DEF Tick
<1> QED  BY <1>1, <1>4, <1>6, <1>7, <1>8, ErasesStay DEF UploadInv, EndedLasts

LEMMA MoverUploads ==
  ASSUME Typing, Typing', UploadInv, Mover
  PROVE  UploadInv' /\ EndedLasts
<1>1. UNCHANGED <<uploads, client, leased, torn, tick>>
  BY DEF Mover, JobRuns, JobSettled, JobBatch, JobCopies, JobSwitches, JobErases, JobChecks,
     JobTrash, JobFinishes, JobFails, db, history
<1>2. \A v \in Upload : Agrees(v)' /\ (Ended(v) => Ended(v)')  BY <1>1, UploadsIdle DEF State
<1>3. DbTyped /\ job \in JobType \cup {None} /\ JobKnown  BY Types DEF Typing, TasksTyped, InHand
<1>4. job # None
  BY DEF Mover, MoverAt, JobRuns, JobSettled, JobBatch, JobCopies, JobSwitches, JobErases, JobChecks,
     JobTrash, JobFinishes, JobFails
<1>5. ASSUME NEW e \in Eraser, eraser'[e] # None
      PROVE  \/ eraser[e] # None /\ eraser'[e].upload = eraser[e].upload
             \/ \E v \in Upload : eraser'[e].upload = v /\ Ended(v)'
  <2>1. CASE UNCHANGED eraser  BY <1>5, <2>1
  <2>2. CASE JobErases /\ ~UNCHANGED eraser
    <3>1. PICK u \in job.rows : Erase("mover", u)  BY <2>2 DEF JobErases
    <3>2. job.at = "garbage" /\ UNCHANGED <<blobs, messages>>  BY <2>2 DEF JobErases, MoverAt, db
    <3>3. u \in Upload /\ Ended(u)  BY <1>3, <1>4, <3>1, <3>2 DEF JobKnown, UploadInv, ErasesEnded
    <3>4. Ended(u)'  BY <1>2, <3>3
    <3>5. e # "mover" => eraser'[e] = eraser[e]  BY <3>1, <3>2, <3>3, Erasing DEF Eraser
    <3>6. e = "mover" => eraser'[e].upload = u  BY <1>5, <3>1, <3>2, <3>3, Erasing DEF Eraser
    <3> QED  BY <1>5, <3>3, <3>4, <3>5, <3>6
  <2> QED
    BY <2>1, <2>2 DEF Mover, JobRuns, JobSettled, JobBatch, JobCopies, JobSwitches, JobChecks,
       JobTrash, JobFinishes, JobFails
<1>6. ASSUME job' # None, job'.at = "garbage"
      PROVE  \A u \in job'.rows : Ended(u) \/ (job.at = "garbage" /\ u \in job.rows)
  <2>1. CASE JobBatch
    <3>1. CASE Movable(job.hook) = {}
      <4>1. job'.rows = Garbage(job.hook)  BY <1>3, <1>4, <2>1, <3>1 DEF JobBatch, JobType
      <4> QED  BY <4>1 DEF Garbage, Ended
    <3>2. CASE Movable(job.hook) # {}
      <4>1. job'.at = "copy"  BY <1>3, <1>4, <2>1, <3>2 DEF JobBatch, MoverAt, JobType
      <4> QED  BY <1>6, <4>1
    <3> QED  BY <3>1, <3>2
  <2>2. CASE JobErases
    <3>1. job.at = "garbage" /\ job'.rows \subseteq job.rows
      BY <1>3, <1>4, <2>2 DEF JobErases, MoverAt, JobGoes, JobType
    <3> QED  BY <3>1
  <2>3. CASE JobRuns \/ JobSettled \/ JobCopies \/ JobSwitches
    <3>1. job' = None \/ job'.at \in {"settle", "copy", "switch"}
      BY <1>3, <1>4, <2>3 DEF JobRuns, JobSettled, JobCopies, JobSwitches, JobGoes, JobType
    <3> QED  BY <1>6, <3>1
  <2>4. CASE JobChecks \/ JobFinishes \/ JobFails
    <3>1. Paused.at = "off" /\ \A x : JobGoes(x) => job'.at = x
      BY <1>3, <1>4 DEF Paused, JobGoes, JobType
    <3>2. job' = None \/ job'.at \in {"trash", "settle", "off"}
      BY <2>4, <3>1 DEF JobChecks, JobFinishes, JobFails
    <3> QED  BY <1>6, <3>2
  <2>5. CASE JobTrash
    <3>1. job'.at = "trash"  BY <1>3, <1>4, <2>5 DEF JobTrash, MoverAt, JobType
    <3> QED  BY <1>6, <3>1
  <2> QED  BY <2>1, <2>2, <2>3, <2>4, <2>5 DEF Mover
<1> QED  BY <1>1, <1>2, <1>4, <1>5, <1>6, ErasesStay DEF UploadInv, EndedLasts

\* Channels, and a stop of the server, change no upload.
LEMMA HookUploads ==
  ASSUME Typing, Typing', UploadInv, NEW h \in Hook, OfHook(h)
  PROVE  UploadInv' /\ EndedLasts
<1>1. UNCHANGED <<uploads, client, leased, torn, tick, eraser>>
  BY DEF OfHook, Retire, RemoveAnyway, Paste, EnqueueMove, tasks, history
<1>2. job' = job \/ job'.at = "off"
  BY DEF OfHook, Retire, RemoveAnyway, Paste, EnqueueMove, tasks
<1>3. \A v \in Upload : Agrees(v)' /\ (Ended(v) => Ended(v)')  BY <1>1, UploadsIdle DEF State
<1> QED  BY <1>1, <1>2, <1>3, ErasesStay DEF UploadInv, EndedLasts

LEMMA RestartUploads ==
  ASSUME Typing, Typing', UploadInv, RestartServer
  PROVE  UploadInv' /\ EndedLasts
<1>1. UNCHANGED <<uploads, client, torn>> /\ leased' = {} /\ tick' = NoTick /\ eraser' = [e \in Eraser |-> None]
  BY DEF RestartServer, Stopped, db
<1>2. job' # None => job'.at = "off"
  BY DEF RestartServer, Stopped, Typing, TypeOK, JobType
<1>3. \A v \in Upload : Agrees(v)' /\ (Ended(v) => Ended(v)')  BY <1>1, UploadsIdle DEF State
<1> QED  BY <1>1, <1>2, <1>3 DEF UploadInv, ErasesEnded, NoTick, EndedLasts

LEMMA InitUploads == Init => UploadInv
<1> SUFFICES ASSUME Init  PROVE UploadInv
  OBVIOUS
<1>1. PICK safe \in [Upload -> BOOLEAN] :
        client = [u \in Upload |-> [at |-> "new", safe |-> safe[u], session |-> 1, got |-> NoAnswers]]
  BY DEF Init
<1>2. \A u \in Upload : client[u].at = "new"  BY <1>1
<1>3. \A u \in Upload : State(u) = "none"  BY DEF Init, State, NoUpload
<1>4. ErasesEnded  BY DEF Init, ErasesEnded, NoTick
<1> QED  BY <1>2, <1>3, <1>4 DEF UploadInv, Agrees, Tombstones, Init

LEMMA NextUploads == Typing /\ Typing' /\ UploadInv /\ [Next]_vars => UploadInv' /\ EndedLasts
<1> SUFFICES ASSUME Typing, Typing', UploadInv, [Next]_vars  PROVE UploadInv' /\ EndedLasts
  OBVIOUS
<1>1. CASE UNCHANGED vars
  BY <1>1 DEF vars, db, tasks, history, UploadInv, ErasesEnded, Agrees, Ended, State, EndedLasts
<1> QED
  BY <1>1, UploadUploads, PutUploads, EraserUploads, HookUploads, TickUploads, MoverUploads, RestartUploads DEF Next

-----------------------------------------------------------------------------
(* Pieces                                                                  *)

\* A message that a row, an answer or a task names already.
Used(m) ==
  \/ \E b \in Blob : blobs[b] # None /\ blobs[b].msg = m
  \/ \E b \in Blob : Got(b) # None /\ Got(b).msg = m
  \/ \E p \in Put : put[p] # None /\ put[p].old = m
  \/ \E e \in Eraser : eraser[e] # None /\ \E r \in eraser[e].rows : r[2] = m
  \/ job # None /\ m \in job.trash

\* What was just posted belongs to the one who posted it, and is there.
NewInv ==
  /\ \A p \in Put : put[p] # None /\ put[p].msg # None =>
       /\ ~Used(put[p].msg) /\ messages[put[p].msg].live
       /\ messages[put[p].msg].hash = put[p].hash
       /\ \A q \in Put : q # p /\ put[q] # None => put[q].msg # put[p].msg
       /\ job # None => job.msg # put[p].msg
  /\ job # None /\ job.msg # None => ~Used(job.msg) /\ messages[job.msg].live

\* The message in a row is that piece's: what another row, an answer, a put or
\* an eraser names for another piece is another one, and so is the trash.
RowInv ==
  \A c \in Blob : blobs[c] # None =>
    /\ \A b \in Blob : blobs[b] # None /\ blobs[b].msg = blobs[c].msg => b = c
    /\ \A b \in Blob : Got(b) # None /\ Got(b).msg = blobs[c].msg => b = c
    /\ \A p \in Put : put[p] # None /\ put[p].old = blobs[c].msg => put[p].blob = c
    /\ \A e \in Eraser : eraser[e] # None =>
         \A r \in eraser[e].rows : r[2] = blobs[c].msg => <<eraser[e].upload, r[1]>> = c
    /\ job # None => blobs[c].msg \notin job.trash

\* Hashes are those of sessions so far; rows are marked only when the upload
\* has ended.
HashInv ==
  /\ \A b \in Blob : blobs[b] # None => blobs[b].hash <= client[b[1]].session
  /\ \A p \in Put : put[p] # None => put[p].hash <= client[put[p].blob[1]].session
  /\ \A b \in Blob : blobs[b] # None /\ blobs[b].deleted => Ended(b[1])

\* While one put of a piece is in progress the client has no answer for the
\* piece, and the row, if there is one, is of an earlier session.
PutInv ==
  \A p \in Put : put[p] # None /\ put[p].blob \notin raced =>
    /\ \A q \in Put : q # p /\ put[q] # None => put[q].blob # put[p].blob
    /\ Got(put[p].blob) = None
    /\ blobs[put[p].blob] # None => blobs[put[p].blob].hash # client[put[p].blob[1]].session
                                     \/ Ended(put[p].blob[1])

\* The row of a piece that was answered, or is of the present session, names
\* a message that is there; and the answer is the row's, or stands for it.
PieceInv ==
  \A b \in Blob : b \notin raced /\ ~Ended(b[1]) =>
    /\ blobs[b] # None /\ blobs[b].hash = client[b[1]].session => messages[blobs[b].msg].live
    /\ Got(b) # None =>
         /\ blobs[b] # None /\ messages[blobs[b].msg].live
         /\ blobs[b].hash = Got(b).hash
         /\ blobs[b].msg = Got(b).msg \/ [msg |-> Got(b).msg, blob |-> b] \in aliases

PiecesInv == NewInv /\ RowInv /\ HashInv /\ PutInv /\ PieceInv

-----------------------------------------------------------------------------
(* Most steps bind no message: they take one out of use, end or begin      *)
(* something about messages that are named already, or delete bytes that   *)
(* are not needed                                                          *)

RowsKeep ==
  \A b \in Blob :
    \/ blobs'[b] = blobs[b]
    \/ /\ blobs[b] # None /\ blobs'[b] # None /\ Ended(b[1])
       /\ blobs'[b].msg = blobs[b].msg /\ blobs'[b].hash = blobs[b].hash

\* Answers are forgotten, or are those of the rows.
AnswersKeep ==
  /\ \A u \in Upload : client'[u].session >= client[u].session
  /\ \A b \in Blob :
       \/ Got(b)' \in {None, Got(b)}
       \/ /\ blobs[b] # None /\ blobs[b].hash = client[b[1]].session
          /\ Got(b)'.msg = blobs[b].msg /\ Got(b)'.hash = blobs[b].hash
          /\ client'[b[1]].session = client[b[1]].session
          /\ \A p \in Put : put'[p] # None /\ put'[p].blob = b => b \in raced'

\* A put goes on, or begins with nothing but the row it may replace.
Goes(p) ==
  /\ put[p] # None /\ put'[p].blob = put[p].blob /\ put'[p].hash = put[p].hash
  /\ put'[p].old = put[p].old /\ put'[p].msg = put[p].msg
Asks(p, b) ==
  /\ put'[p].blob = b /\ put'[p].msg = None /\ put'[p].hash <= client[b[1]].session
  /\ put'[p].old # None => blobs[b] # None /\ put'[p].old = blobs[b].msg
  /\ Got(b) = None /\ UNCHANGED client
  /\ blobs[b] # None => blobs[b].hash # client[b[1]].session \/ Ended(b[1])
  /\ \A q \in Put : q # p => put'[q] = put[q] /\ (put[q] # None /\ put[q].blob = b => b \in raced')
PutsKeep == \A p \in Put : put'[p] # None => Goes(p) \/ \E b \in Blob : Asks(p, b)

ErasersKeep ==
  \A e \in Eraser : eraser'[e] # None => \A r \in eraser'[e].rows :
    \/ eraser[e] # None /\ eraser'[e].upload = eraser[e].upload /\ r \in eraser[e].rows
    \/ /\ blobs[<<eraser'[e].upload, r[1]>>] # None
       /\ r[2] = blobs[<<eraser'[e].upload, r[1]>>].msg

JobKeeps ==
  job' # None =>
    /\ job'.trash = {} \/ (job # None /\ job'.trash \subseteq job.trash)
    /\ job'.msg = None \/ (job # None /\ job'.msg = job.msg)

\* Bytes go that no put or copy in progress has, and no row but that of an
\* upload that has ended, or of a piece that is being put again.
LivesKeep ==
  \A m \in Known : messages[m].live /\ ~messages'[m].live =>
    /\ \A p \in Put : put'[p] # None => put'[p].msg # m
    /\ job' # None => job'.msg # m
    /\ \A b \in Blob : blobs[b] # None /\ blobs[b].msg = m =>
         Ended(b[1]) \/ \E p \in Put : put[p] # None /\ put[p].blob = b

BindsNothing ==
  /\ RowsKeep /\ AnswersKeep /\ PutsKeep /\ ErasersKeep /\ JobKeeps /\ LivesKeep
  /\ aliases' = aliases /\ MessagesKept /\ raced \subseteq raced' /\ EndedLasts

\* What a new name stands for was named before.
LEMMA UsedBefore ==
  ASSUME Typing, Typing', BindsNothing, NEW m \in Msg, Used(m)'
  PROVE  Used(m)
<1>1. CASE \E b \in Blob : blobs'[b] # None /\ blobs'[b].msg = m
  BY <1>1 DEF BindsNothing, RowsKeep, Used
<1>2. CASE \E b \in Blob : Got(b)' # None /\ Got(b)'.msg = m
  BY <1>2 DEF BindsNothing, AnswersKeep, Used
<1>3. CASE \E p \in Put : put'[p] # None /\ put'[p].old = m
  <2>1. PICK p \in Put : put'[p] # None /\ put'[p].old = m  BY <1>3
  <2>2. m # None  BY ConstantsAreTyped DEF Msg
  <2> QED  BY <2>1, <2>2 DEF BindsNothing, PutsKeep, Goes, Asks, Used
<1>4. CASE \E e \in Eraser : eraser'[e] # None /\ \E r \in eraser'[e].rows : r[2] = m
  <2>1. PICK e \in Eraser : eraser'[e] # None /\ \E r \in eraser'[e].rows : r[2] = m  BY <1>4
  <2>2. PICK r \in eraser'[e].rows : r[2] = m  BY <2>1
  <2>3. eraser'[e].upload \in Upload /\ r \in Piece \X Msg  BY <2>1 DEF Typing, TypeOK, EraserType
  <2>4. <<eraser'[e].upload, r[1]>> \in Blob  BY <2>3 DEF Blob
  <2> QED  BY <2>1, <2>2, <2>4 DEF BindsNothing, ErasersKeep, Used
<1>5. CASE job' # None /\ m \in job'.trash
  BY <1>5 DEF BindsNothing, JobKeeps, Used
<1> QED  BY <1>1, <1>2, <1>3, <1>4, <1>5 DEF Used

LEMMA KeepsNew ==
  ASSUME Typing, Typing', BindsNothing, NewInv
  PROVE  NewInv'
<1>1. MessagesKept /\ Known \subseteq Msg  BY KnownAreMessages DEF BindsNothing, Typing
<1>2. ASSUME NEW p \in Put, put'[p] # None, put'[p].msg # None
      PROVE  /\ ~Used(put[p].msg)' /\ messages'[put'[p].msg].live
             /\ messages'[put'[p].msg].hash = put'[p].hash
             /\ \A q \in Put : q # p /\ put'[q] # None => put'[q].msg # put'[p].msg
             /\ job' # None => job'.msg # put'[p].msg
  <2>1. Goes(p) /\ put[p].msg # None  BY <1>2 DEF BindsNothing, PutsKeep, Goes, Asks
  <2> DEFINE m == put[p].msg
  <2>2. m \in Known /\ put'[p].msg = m  BY <2>1, InProgress DEF Goes, PutKnown
  <2>3. /\ ~Used(m) /\ messages[m].live /\ messages[m].hash = put[p].hash
        /\ \A q \in Put : q # p /\ put[q] # None => put[q].msg # m
        /\ job # None => job.msg # m
    BY <2>1 DEF NewInv, Goes
  <2>4. PICK k \in Known : k = m  BY <2>2
  <2>5. ~Used(k)'  BY <1>1, <2>3, <2>4, UsedBefore
  <2>6. ~Used(put[p].msg)'  BY <2>2, <2>4, <2>5 DEF Used
  <2>7. messages'[m].live  BY <1>2, <2>2, <2>3 DEF BindsNothing, LivesKeep
  <2>8. messages'[m].hash = put'[p].hash  BY <1>1, <2>1, <2>2, <2>3 DEF MessagesKept, Goes
  <2>9. ASSUME NEW q \in Put, q # p, put'[q] # None  PROVE put'[q].msg # m
    <3>1. put'[q].msg = None \/ (put[q] # None /\ put'[q].msg = put[q].msg)
      BY <2>9 DEF BindsNothing, PutsKeep, Goes, Asks
    <3> QED  BY <2>1, <2>3, <2>9, <3>1
  <2>10. job' # None => job'.msg # m  BY <2>1, <2>3 DEF BindsNothing, JobKeeps
  <2> QED  BY <2>2, <2>6, <2>7, <2>8, <2>9, <2>10
<1>3. ASSUME job' # None, job'.msg # None
      PROVE  ~Used(job.msg)' /\ messages'[job'.msg].live
  <2>1. job # None /\ job'.msg = job.msg /\ job.msg \in Known
    BY <1>3 DEF BindsNothing, JobKeeps, Typing, InHand, JobKnown
  <2>2. ~Used(job.msg) /\ messages[job.msg].live  BY <1>3, <2>1 DEF NewInv
  <2>3. PICK k \in Known : k = job.msg  BY <2>1
  <2>4. ~Used(k)'  BY <1>1, <2>2, <2>3, UsedBefore
  <2>5. ~Used(job.msg)'  BY <2>1, <2>3, <2>4 DEF Used
  <2>6. messages'[job'.msg].live  BY <1>3, <2>1, <2>2 DEF BindsNothing, LivesKeep
  <2> QED  BY <2>5, <2>6
<1> QED  BY <1>2, <1>3 DEF NewInv

LEMMA KeepsRows ==
  ASSUME Typing, Typing', BindsNothing, RowInv
  PROVE  RowInv'
<1> SUFFICES ASSUME NEW c \in Blob, blobs'[c] # None
             PROVE  /\ \A b \in Blob : blobs'[b] # None /\ blobs'[b].msg = blobs'[c].msg => b = c
                    /\ \A b \in Blob : Got(b)' # None /\ Got(b)'.msg = blobs'[c].msg => b = c
                    /\ \A p \in Put : put'[p] # None /\ put'[p].old = blobs'[c].msg => put'[p].blob = c
                    /\ \A e \in Eraser : eraser'[e] # None =>
                         \A r \in eraser'[e].rows : r[2] = blobs'[c].msg => <<eraser'[e].upload, r[1]>> = c
                    /\ job' # None => blobs'[c].msg \notin job'.trash
  BY DEF RowInv
<1> DEFINE m == blobs'[c].msg
<1>1. blobs[c] # None /\ blobs[c].msg = m  BY DEF BindsNothing, RowsKeep
<1>2. /\ \A b \in Blob : blobs[b] # None /\ blobs[b].msg = m => b = c
      /\ \A b \in Blob : Got(b) # None /\ Got(b).msg = m => b = c
      /\ \A p \in Put : put[p] # None /\ put[p].old = m => put[p].blob = c
      /\ \A e \in Eraser : eraser[e] # None =>
           \A r \in eraser[e].rows : r[2] = m => <<eraser[e].upload, r[1]>> = c
      /\ job # None => m \notin job.trash
  BY <1>1 DEF RowInv
<1>3. m # None  BY <1>1, KnownAreMessages DEF Typing, InHand, RowsKnown
<1> HIDE DEF m
<1>4. \A b \in Blob : blobs'[b] # None /\ blobs'[b].msg = m => b = c  BY <1>2 DEF BindsNothing, RowsKeep
<1>5. \A b \in Blob : Got(b)' # None /\ Got(b)'.msg = m => b = c  BY <1>2 DEF BindsNothing, AnswersKeep
<1>6. \A p \in Put : put'[p] # None /\ put'[p].old = m => put'[p].blob = c
  BY <1>2, <1>3 DEF BindsNothing, PutsKeep, Goes, Asks
<1>7. ASSUME NEW e \in Eraser, eraser'[e] # None, NEW r \in eraser'[e].rows, r[2] = m
      PROVE  <<eraser'[e].upload, r[1]>> = c
  <2>1. eraser'[e].upload \in Upload /\ r \in Piece \X Msg  BY <1>7 DEF Typing, TypeOK, EraserType
  <2>2. <<eraser'[e].upload, r[1]>> \in Blob  BY <2>1 DEF Blob
  <2> QED  BY <1>2, <1>7, <2>2 DEF BindsNothing, ErasersKeep
<1>8. job' # None => m \notin job'.trash  BY <1>2 DEF BindsNothing, JobKeeps
<1> QED  BY <1>4, <1>5, <1>6, <1>7, <1>8 DEF m

LEMMA Sessions ==
  ASSUME Typing, Typing', NEW u \in Upload, NEW b \in Blob
  PROVE  /\ client[u].session \in Nat /\ client'[u].session \in Nat /\ b[1] \in Upload
         /\ blobs[b] # None => blobs[b].hash \in Nat /\ blobs[b].deleted \in BOOLEAN
         /\ blobs'[b] # None => blobs'[b].hash \in Nat
BY DEF Typing, TypeOK, ClientType, Hash, Blob, Row

LEMMA KeepsHashes ==
  ASSUME Typing, Typing', BindsNothing, HashInv
  PROVE  HashInv'
<1>1. ASSUME NEW b \in Blob, blobs'[b] # None
      PROVE  /\ blobs'[b].hash <= client'[b[1]].session
             /\ blobs'[b].deleted => Ended(b[1])'
  <2>1. blobs[b] # None /\ blobs'[b].hash = blobs[b].hash /\ (blobs'[b].deleted => Ended(b[1]))
    BY <1>1 DEF BindsNothing, RowsKeep, HashInv
  <2>2. b[1] \in Upload  BY DEF Blob
  <2>3. client[b[1]].session \in Nat /\ client'[b[1]].session \in Nat /\ blobs[b].hash \in Nat
    BY <2>1, <2>2, Sessions
  <2>4. blobs[b].hash <= client[b[1]].session /\ client'[b[1]].session >= client[b[1]].session
    BY <2>1, <2>2 DEF HashInv, BindsNothing, AnswersKeep
  <2>5. blobs'[b].hash <= client'[b[1]].session  BY <2>1, <2>3, <2>4
  <2>6. blobs'[b].deleted => Ended(b[1])'  BY <2>1, <2>2 DEF BindsNothing, EndedLasts
  <2> QED  BY <2>5, <2>6
<1>2. ASSUME NEW p \in Put, put'[p] # None
      PROVE  put'[p].hash <= client'[put'[p].blob[1]].session
  <2> DEFINE b == put'[p].blob
  <2>1. b \in Blob /\ put'[p].hash \in Nat  BY <1>2 DEF Typing, TypeOK, PutType, Hash
  <2>2. b[1] \in Upload /\ client[b[1]].session \in Nat /\ client'[b[1]].session \in Nat
    BY <2>1, Sessions DEF Blob
  <2>3. put'[p].hash <= client[b[1]].session  BY <1>2 DEF BindsNothing, PutsKeep, Goes, Asks, HashInv
  <2>4. client'[b[1]].session >= client[b[1]].session  BY <2>2 DEF BindsNothing, AnswersKeep
  <2> HIDE DEF b
  <2>5. put'[p].hash <= client'[b[1]].session  BY <2>1, <2>2, <2>3, <2>4
  <2> QED  BY <2>5 DEF b
<1> QED  BY <1>1, <1>2 DEF HashInv

LEMMA KeepsPuts ==
  ASSUME Typing, Typing', BindsNothing, HashInv, PutInv
  PROVE  PutInv'
<1> SUFFICES ASSUME NEW p \in Put, put'[p] # None, put'[p].blob \notin raced'
             PROVE  /\ \A q \in Put : q # p /\ put'[q] # None => put'[q].blob # put'[p].blob
                    /\ Got(put[p].blob)' = None
                    /\ blobs'[put'[p].blob] # None => blobs'[put'[p].blob].hash # client'[put'[p].blob[1]].session
                                                      \/ Ended(put[p].blob[1])'
  BY DEF PutInv
<1>1. PICK b \in Blob : b = put'[p].blob /\ b \notin raced' /\ b \notin raced
  BY DEF Typing, TypeOK, PutType, BindsNothing
<1>2. b[1] \in Upload  BY DEF Blob
<1>3. /\ Got(b) = None
      /\ blobs[b] # None => blobs[b].hash # client[b[1]].session \/ Ended(b[1])
      /\ \A q \in Put : q # p /\ put'[q] # None => put'[q].blob # b
  <2>1. CASE Goes(p)
    <3>1. put[p] # None /\ put[p].blob = b  BY <1>1, <2>1 DEF Goes
    <3>2. \A q \in Put : q # p /\ put[q] # None => put[q].blob # b  BY <1>1, <3>1 DEF PutInv
    <3>3. ASSUME NEW q \in Put, q # p, put'[q] # None, put'[q].blob = b  PROVE FALSE
      <4>1. CASE Goes(q)  BY <3>2, <3>3, <4>1 DEF Goes
      <4>2. CASE \E c \in Blob : Asks(q, c)
        BY <1>1, <3>1, <3>3, <4>2 DEF Asks
      <4> QED  BY <3>3, <4>1, <4>2 DEF BindsNothing, PutsKeep
    <3> QED  BY <1>1, <3>1, <3>3 DEF PutInv
  <2>2. CASE Asks(p, b)
    <3>1. \A q \in Put : q # p => put'[q] = put[q] /\ (put[q] # None /\ put[q].blob = b => b \in raced')
      BY <2>2 DEF Asks
    <3> QED  BY <1>1, <2>2, <3>1 DEF Asks
  <2>3. Goes(p) \/ Asks(p, b)  BY <1>1 DEF BindsNothing, PutsKeep, Asks
  <2> QED  BY <2>1, <2>2, <2>3
<1>4. blobs'[b] # None => blobs'[b].hash # client'[b[1]].session \/ Ended(b[1])'
  <2> SUFFICES ASSUME blobs'[b] # None, ~Ended(b[1])'  PROVE blobs'[b].hash # client'[b[1]].session
    OBVIOUS
  <2>1. blobs[b] # None /\ blobs'[b].hash = blobs[b].hash  BY DEF BindsNothing, RowsKeep
  <2>2. ~Ended(b[1])  BY <1>2 DEF BindsNothing, EndedLasts
  <2>3. blobs[b].hash # client[b[1]].session /\ blobs[b].hash <= client[b[1]].session
    BY <1>3, <2>1, <2>2 DEF HashInv
  <2>4. client'[b[1]].session >= client[b[1]].session  BY <1>2 DEF BindsNothing, AnswersKeep
  <2>5. client[b[1]].session \in Nat /\ client'[b[1]].session \in Nat /\ blobs[b].hash \in Nat
    BY <1>2, <2>1, Sessions
  <2> QED  BY <2>1, <2>3, <2>4, <2>5
<1>5. Got(b)' = None
  <2>1. CASE Got(b)' \in {None, Got(b)}  BY <1>3, <2>1
  <2>2. CASE Got(b)' \notin {None, Got(b)}  BY <1>1, <2>2 DEF BindsNothing, AnswersKeep
  <2> QED  BY <2>1, <2>2
<1>6. Got(put[p].blob)' = None  BY <1>1, <1>5 DEF Got
<1>7. Ended(put[p].blob[1])' = Ended(b[1])'  BY <1>1 DEF Ended, State
<1> QED  BY <1>1, <1>3, <1>4, <1>6, <1>7

LEMMA KeepsPieces ==
  ASSUME Typing, Typing', BindsNothing, HashInv, PutInv, PieceInv
  PROVE  PieceInv'
<1> SUFFICES ASSUME NEW b \in Blob, b \notin raced', ~Ended(b[1])'
             PROVE  /\ blobs'[b] # None /\ blobs'[b].hash = client'[b[1]].session => messages'[blobs'[b].msg].live
                    /\ Got(b)' # None =>
                         /\ blobs'[b] # None /\ messages'[blobs'[b].msg].live
                         /\ blobs'[b].hash = Got(b)'.hash
                         /\ blobs'[b].msg = Got(b)'.msg \/ [msg |-> Got(b)'.msg, blob |-> b] \in aliases'
  BY DEF PieceInv
<1>1. b \notin raced /\ b[1] \in Upload /\ ~Ended(b[1])  BY DEF BindsNothing, EndedLasts, Blob
<1>2. blobs'[b] = blobs[b]  BY <1>1 DEF BindsNothing, RowsKeep
<1>3. /\ blobs[b] # None /\ blobs[b].hash = client[b[1]].session => messages[blobs[b].msg].live
      /\ Got(b) # None =>
           /\ blobs[b] # None /\ messages[blobs[b].msg].live
           /\ blobs[b].hash = Got(b).hash
           /\ blobs[b].msg = Got(b).msg \/ [msg |-> Got(b).msg, blob |-> b] \in aliases
  BY <1>1 DEF PieceInv
<1>4. blobs[b] # None => /\ blobs[b].hash \in Nat /\ client[b[1]].session \in Nat /\ client'[b[1]].session \in Nat
                         /\ blobs[b].hash <= client[b[1]].session /\ blobs[b].msg \in Known
  BY <1>1, Sessions DEF HashInv, Typing, InHand, RowsKnown
<1>5. client'[b[1]].session >= client[b[1]].session  BY <1>1 DEF BindsNothing, AnswersKeep
\* The bytes of the row stay when they are of the session, or answered.
<1>6. ASSUME blobs[b] # None, messages[blobs[b].msg].live,
             blobs[b].hash = client[b[1]].session \/ Got(b) # None
      PROVE  messages'[blobs[b].msg].live
  <2> SUFFICES ASSUME ~messages'[blobs[b].msg].live  PROVE FALSE
    OBVIOUS
  <2>1. PICK p \in Put : put[p] # None /\ put[p].blob = b
    BY <1>1, <1>4, <1>6 DEF BindsNothing, LivesKeep
  <2>2. Got(b) = None /\ blobs[b].hash # client[b[1]].session  BY <1>1, <1>6, <2>1 DEF PutInv
  <2> QED  BY <1>6, <2>2
<1>7. ASSUME blobs[b] # None, blobs[b].hash = client'[b[1]].session  PROVE messages'[blobs[b].msg].live
  <2>1. blobs[b].hash = client[b[1]].session  BY <1>4, <1>5, <1>7
  <2> QED  BY <1>3, <1>6, <1>7, <2>1
<1>8. ASSUME Got(b)' # None
      PROVE  /\ blobs[b] # None /\ messages'[blobs[b].msg].live
             /\ blobs[b].hash = Got(b)'.hash
             /\ blobs[b].msg = Got(b)'.msg \/ [msg |-> Got(b)'.msg, blob |-> b] \in aliases'
  <2>1. CASE Got(b)' = Got(b)  BY <1>3, <1>6, <1>8, <2>1 DEF BindsNothing
  <2>2. CASE Got(b)' # Got(b)
    <3>1. /\ blobs[b] # None /\ blobs[b].hash = client[b[1]].session
          /\ Got(b)'.msg = blobs[b].msg /\ Got(b)'.hash = blobs[b].hash
      BY <1>8, <2>2 DEF BindsNothing, AnswersKeep
    <3> QED  BY <1>3, <1>6, <3>1
  <2> QED  BY <2>1, <2>2
<1> QED  BY <1>2, <1>7, <1>8

LEMMA BindsNothingKeeps ==
  ASSUME Typing, Typing', BindsNothing, PiecesInv
  PROVE  PiecesInv'
BY KeepsNew, KeepsRows, KeepsHashes, KeepsPuts, KeepsPieces DEF PiecesInv

\* What an eraser begins with are rows.
LEMMA EraseKeeps ==
  ASSUME Typing, NEW e \in Eraser, NEW u \in Upload, Erase(e, u), UNCHANGED <<blobs, messages>>
  PROVE  ErasersKeep
<1> SUFFICES ASSUME NEW f \in Eraser, eraser'[f] # None, NEW r \in eraser'[f].rows
             PROVE  \/ eraser[f] # None /\ eraser'[f].upload = eraser[f].upload /\ r \in eraser[f].rows
                    \/ /\ blobs[<<eraser'[f].upload, r[1]>>] # None
                       /\ r[2] = blobs[<<eraser'[f].upload, r[1]>>].msg
  BY DEF ErasersKeep
<1>1. CASE f # e  BY <1>1, Erasing
<1>2. CASE f = e
  <2>1. eraser'[f].upload = u /\ eraser'[f].rows = RowsOf(u)  BY <1>2, Erasing
  <2> QED  BY <2>1, RowsRead DEF Stored
<1> QED  BY <1>1, <1>2

LEMMA Idling ==
  ASSUME Typing
  PROVE  /\ UNCHANGED blobs => RowsKeep
         /\ UNCHANGED client => AnswersKeep
         /\ UNCHANGED put => PutsKeep
         /\ UNCHANGED eraser => ErasersKeep
         /\ UNCHANGED job => JobKeeps
         /\ UNCHANGED messages => LivesKeep /\ MessagesKept
<1>1. UNCHANGED blobs => RowsKeep  BY DEF RowsKeep
<1>2. UNCHANGED client => AnswersKeep
  BY DEF AnswersKeep, Got, Typing, TypeOK, ClientType, Hash
<1>3. UNCHANGED put => PutsKeep  BY DEF PutsKeep, Goes
<1>4. UNCHANGED eraser => ErasersKeep  BY DEF ErasersKeep
<1>5. UNCHANGED job => JobKeeps  BY DEF JobKeeps
<1>6. UNCHANGED messages => LivesKeep /\ MessagesKept  BY Standing DEF LivesKeep
<1> QED  BY <1>1, <1>2, <1>3, <1>4, <1>5, <1>6

\* A stop leaves nothing in hand.
LEMMA StoppedKeeps ==
  ASSUME Typing, Stopped
  PROVE  PutsKeep /\ ErasersKeep /\ JobKeeps
<1>1. job \in JobType \cup {None}  BY DEF Typing, TypeOK
<1>2. JobKeeps  BY <1>1 DEF Stopped, JobKeeps, JobType
<1> QED  BY <1>2 DEF Stopped, PutsKeep, ErasersKeep

LEMMA UploadKeeps ==
  ASSUME Typing, Typing', EndedLasts, NEW u \in Upload, OfUpload(u)
  PROVE  BindsNothing
<1>1. UNCHANGED <<blobs, aliases, messages, raced>>
  BY DEF OfUpload, RenewLease, EndLease, GoIdle, Begin, Resume, Commit, CommitOutside, CommitTorn, Drop, Restore,
     Finalize, Cancel, Released, Kept, db, tasks, history
<1>2. ClientTyped /\ PutTyped /\ client[u] \in ClientType  BY Types DEF Typing, TasksTyped, ClientTyped
<1>3. AnswersKeep
  <2>1. CASE Resume(u)
    <3>1. PICK kept \in SUBSET Piece :
            client' = [client EXCEPT ![u].at = "sending", ![u].session = @ + 1,
                         ![u].got = [i \in Piece |-> IF i \in kept THEN @[i] ELSE None]]
      BY <2>1 DEF Resume
    <3> DEFINE g == [i \in Piece |-> IF i \in kept THEN client[u].got[i] ELSE None]
               r == [client[u] EXCEPT !.at = "sending", !.session = @ + 1, !.got = g]
    <3>2. client' = [client EXCEPT ![u] = r]  BY <3>1
    <3>3. \A i \in Piece : g[i] = None \/ g[i] = client[u].got[i]  OBVIOUS
    <3> HIDE DEF g
    <3>4. r.got = g /\ r.session = client[u].session + 1 /\ client[u].session \in Nat
      BY <1>2 DEF ClientType, Hash
    <3> HIDE DEF r
    <3>5. \A v \in Upload : client'[v] = IF v = u THEN r ELSE client[v]  BY <1>2, <3>2 DEF ClientTyped
    <3>6. \A b \in Blob : Got(b)' \in {None, Got(b)}  BY <3>3, <3>4, <3>5 DEF Got, Blob
    <3>7. \A v \in Upload : client[v].session \in Nat  BY DEF Typing, TypeOK, ClientType, Hash
    <3>8. \A v \in Upload : client'[v].session >= client[v].session  BY <3>4, <3>5, <3>7
    <3> QED  BY <3>6, <3>8 DEF AnswersKeep
  <2>2. CASE \E x \in Stage : client' = [client EXCEPT ![u].at = x]
    <3>1. PICK x \in Stage : client' = [client EXCEPT ![u].at = x]  BY <2>2
    <3>2. /\ \A v \in Upload : client'[v].session = client[v].session
          /\ \A b \in Blob : Got(b)' = Got(b)
      BY <1>2, <3>1, AtChanges
    <3>3. \A v \in Upload : client[v].session \in Nat  BY DEF Typing, TypeOK, ClientType, Hash
    <3> QED  BY <3>2, <3>3 DEF AnswersKeep
  <2>3. CASE UNCHANGED client  BY <2>3, Idling
  <2>4. UNCHANGED client \/ Resume(u) \/ \E x \in Stage : client' = [client EXCEPT ![u].at = x]
    BY DEF OfUpload, RenewLease, EndLease, GoIdle, Begin, Commit, CommitOutside, CommitTorn, Drop, Restore,
       Finalize, Cancel, Released, Kept, Stage
  <2> QED  BY <2>1, <2>2, <2>3, <2>4
<1>4. PutsKeep /\ ErasersKeep /\ JobKeeps
  <2>1. CASE CommitTorn(u)  BY <2>1, StoppedKeeps DEF CommitTorn
  <2>2. CASE Cancel(u)
    <3> DEFINE S == {p \in Put : put[p] # None /\ put[p].blob[1] = u}
    <3>1. put' = [p \in Put |-> IF put[p] # None /\ p \in S THEN [put[p] EXCEPT !.heard = FALSE] ELSE put[p]]
      BY <2>2 DEF Cancel
    <3> HIDE DEF S
    <3>2. /\ \A p \in Put : (put'[p] = None <=> put[p] = None)
          /\ \A p \in Put : put[p] # None =>
               /\ put'[p].blob = put[p].blob /\ put'[p].hash = put[p].hash
               /\ put'[p].old = put[p].old /\ put'[p].msg = put[p].msg
      BY <1>2, <3>1, Unheard
    <3>3. PutsKeep  BY <3>2 DEF PutsKeep, Goes
    <3>4. ErasersKeep
      <4>1. CASE UNCHANGED eraser  BY <4>1, Idling
      <4>2. CASE Erase("cancel", u)  BY <1>1, <4>2, EraseKeeps DEF Eraser
      <4> QED  BY <2>2, <4>1, <4>2 DEF Cancel
    <3>5. UNCHANGED job  BY <2>2 DEF Cancel
    <3> QED  BY <3>3, <3>4, <3>5, Idling
  <2>3. CASE UNCHANGED tasks  BY <2>3, Idling DEF tasks
  <2> QED
    BY <2>1, <2>2, <2>3
    DEF OfUpload, RenewLease, EndLease, GoIdle, Begin, Resume, Commit, CommitOutside, Drop, Restore,
        Finalize, Released, Kept
<1> QED  BY <1>1, <1>3, <1>4, Idling DEF BindsNothing

\* A request that goes on, or ends, is still about the same.
LEMMA PutGoesOn ==
  ASSUME Typing, NEW p \in Put, NEW r, put' = [put EXCEPT ![p] = r],
         r # None => /\ put[p] # None /\ r.blob = put[p].blob /\ r.hash = put[p].hash
                     /\ r.old = put[p].old /\ r.msg = put[p].msg
  PROVE  /\ PutsKeep /\ \A q \in Put : q # p => put'[q] = put[q]
         /\ put'[p] # None => put[p] # None /\ put'[p].msg = put[p].msg
<1>1. \A q \in Put : put'[q] = IF q = p THEN r ELSE put[q]  BY DEF Typing, TypeOK
<1> QED  BY <1>1 DEF PutsKeep, Goes

LEMMA DeletingKeeps ==
  ASSUME Typing, NEW m \in Known, messages' = Deleted(m) \/ UNCHANGED messages,
         \A p \in Put : put'[p] # None => put'[p].msg # m, job' # None => job'.msg # m,
         \A b \in Blob : blobs[b] # None /\ blobs[b].msg = m =>
           Ended(b[1]) \/ \E p \in Put : put[p] # None /\ put[p].blob = b
  PROVE  LivesKeep /\ MessagesKept
<1>1. CASE messages' = Deleted(m)  BY <1>1, Deleting DEF Typing, LivesKeep
<1>2. CASE UNCHANGED messages  BY <1>2, Idling
<1> QED  BY <1>1, <1>2

\* A new request, or the answer from the row.
LEMMA StartKeeps ==
  ASSUME Typing, Typing', EndedLasts, PiecesInv, NEW p \in Put, NEW u \in Upload, NEW i \in Piece,
         PutStart(p, u, i)
  PROVE  BindsNothing
<1> DEFINE b == <<u, i>>
<1>1. /\ UNCHANGED <<blobs, aliases, messages, eraser, job>>
      /\ raced' = IF \E q \in Put : put[q] # None /\ put[q].blob = b THEN raced \cup {b} ELSE raced
      /\ put[p] = None /\ client[u].got[i] = None
  BY DEF PutStart, Sending
<1>2. b \in Blob /\ b[1] = u /\ Got(b) = None  BY <1>1 DEF Blob, Got
<1>3. client[u].session \in Hash /\ client[u].session \in Nat
  BY DEF Typing, TypeOK, ClientType, Hash
<1>4. PutsKeep /\ AnswersKeep
  <2>1. CASE Stored(b) /\ blobs[b].hash = client[u].session
    <3> DEFINE a == [msg |-> blobs[b].msg, hash |-> client[u].session]
    <3>1. Answer(b, a, TRUE) /\ UNCHANGED put  BY <2>1 DEF PutStart
    <3>2. blobs[b] # None /\ blobs[b].msg \in Known /\ Known \subseteq Msg
      BY <1>2, <2>1, KnownAreMessages DEF Typing, InHand, RowsKnown, Stored
    <3>3. a \in Placement /\ a.msg = blobs[b].msg /\ a.hash = blobs[b].hash
      BY <1>3, <2>1, <3>2 DEF Placement
    <3> HIDE DEF a, b
    <3>4. /\ \A v \in Upload : client'[v].session = client[v].session
          /\ \A c \in Blob : Got(c)' = Got(c) \/ (c = b /\ Got(c)' = a)
      BY <1>2, <3>1, <3>2, <3>3, Answering
    <3>5. \A q \in Put : put'[q] # None /\ put'[q].blob = b => b \in raced'  BY <1>1, <3>1
    <3>6. \A v \in Upload : client[v].session \in Nat  BY DEF Typing, TypeOK, ClientType, Hash
    <3>7. AnswersKeep  BY <1>2, <2>1, <3>2, <3>3, <3>4, <3>5, <3>6 DEF AnswersKeep
    <3> QED  BY <3>1, <3>7, Idling
  <2>2. CASE ~(Stored(b) /\ blobs[b].hash = client[u].session)
    <3> DEFINE new == [blob |-> b, hash |-> client[u].session, at |-> "reading",
                       old |-> IF Stored(b) THEN blobs[b].msg ELSE None,
                       hooks |-> {}, msg |-> None, heard |-> TRUE]
    <3>1. put' = [put EXCEPT ![p] = new] /\ UNCHANGED client  BY <2>2 DEF PutStart
    <3>2. /\ new.blob = b /\ new.msg = None /\ new.hash = client[u].session
          /\ new.old # None => blobs[b] # None /\ new.old = blobs[b].msg
      BY DEF Stored
    <3>3. blobs[b] # None => blobs[b].hash # client[u].session \/ Ended(u)
      <4>1. blobs[b] # None => blobs[b] \in Row  BY <1>2 DEF Typing, TypeOK
      <4> QED  BY <1>2, <2>2, <4>1 DEF Stored, PiecesInv, HashInv, Row
    <3> HIDE DEF new, b
    <3>4. \A q \in Put : put'[q] = IF q = p THEN new ELSE put[q]  BY <3>1 DEF Typing, TypeOK
    <3>5. put'[p] # None => Asks(p, b)  BY <1>1, <1>2, <1>3, <3>1, <3>2, <3>3, <3>4 DEF Asks
    <3>6. PutsKeep  BY <1>2, <3>4, <3>5 DEF PutsKeep, Goes
    <3> QED  BY <3>1, <3>6, Idling
  <2> QED  BY <2>1, <2>2
<1>5. raced \subseteq raced'  BY <1>1
<1> QED  BY <1>1, <1>4, <1>5, Idling DEF BindsNothing

\* A request that stores nothing yet and has not learned of its message.
LEMMA PutKeeps ==
  ASSUME Typing, Typing', EndedLasts, PiecesInv, NEW p \in Put, OfPut(p),
         ~((PutPosted(p) \/ PutReplaced(p)) /\ Store(p)), ~PutLands(p) \/ UNCHANGED put
  PROVE  BindsNothing
<1>1. CASE \E u \in Upload, i \in Piece : PutStart(p, u, i)  BY <1>1, StartKeeps
<1>2. CASE PutLands(p)
  <2>1. UNCHANGED <<db, client, eraser, job, raced, put>> /\ put[p] # None  BY <1>2 DEF PutLands, history
  <2>2. PICK h \in put[p].hooks : Post(h, put[p].hash)  BY <1>2 DEF PutLands
  <2>3. h \in Hook /\ put[p].hash \in Hash  BY <2>1, InProgress
  <2>4. MessagesKept /\ \A m \in Known : messages'[m] = messages[m]
    BY <2>2, <2>3, Posting DEF Typing
  <2>5. LivesKeep  BY <2>4 DEF LivesKeep
  <2> QED  BY <2>1, <2>4, <2>5, Idling DEF BindsNothing, db
<1>3. CASE PutBody(p) \/ PutPosted(p) \/ HangUp(p)
  <2>1. put[p] # None /\ put[p] \in PutType  BY <1>3, InProgress DEF PutBody, PutPosted, HangUp
  <2>2. PICK r : /\ put' = [put EXCEPT ![p] = r]
                 /\ r.blob = put[p].blob /\ r.hash = put[p].hash /\ r.old = put[p].old /\ r.msg = put[p].msg
    <3>1. CASE PutBody(p)
      <4> DEFINE r == [put[p] EXCEPT !.at = "posting", !.hooks = HooksFor]
      <4>1. put' = [put EXCEPT ![p] = r]  BY <3>1 DEF PutBody
      <4>2. r.blob = put[p].blob /\ r.hash = put[p].hash /\ r.old = put[p].old /\ r.msg = put[p].msg
        BY <2>1 DEF PutType
      <4> HIDE DEF r
      <4> QED  BY <4>1, <4>2
    <3>2. CASE PutPosted(p)
      <4> DEFINE x == IF Gone(put[p].blob[1]) THEN "dropping" ELSE "replacing"
                 r == [put[p] EXCEPT !.at = x]
      <4>1. put' = [put EXCEPT ![p] = r]  BY <3>2 DEF PutPosted
      <4> HIDE DEF x
      <4>2. r.blob = put[p].blob /\ r.hash = put[p].hash /\ r.old = put[p].old /\ r.msg = put[p].msg
        BY <2>1 DEF PutType
      <4> HIDE DEF r
      <4> QED  BY <4>1, <4>2
    <3>3. CASE HangUp(p)
      <4> DEFINE r == [put[p] EXCEPT !.heard = FALSE]
      <4>1. put' = [put EXCEPT ![p] = r]  BY <3>3 DEF HangUp
      <4>2. r.blob = put[p].blob /\ r.hash = put[p].hash /\ r.old = put[p].old /\ r.msg = put[p].msg
        BY <2>1 DEF PutType
      <4> HIDE DEF r
      <4> QED  BY <4>1, <4>2
    <3> QED  BY <1>3, <3>1, <3>2, <3>3
  <2>3. PutsKeep  BY <2>1, <2>2, PutGoesOn
  <2>4. UNCHANGED <<blobs, aliases, messages, client, eraser, job, raced>>
    BY <1>3 DEF PutBody, PutPosted, HangUp, db, history
  <2> QED  BY <2>3, <2>4, Idling DEF BindsNothing
<1>4. CASE PutFails(p) \/ PutDropped(p)
  <2>1. /\ UNCHANGED <<db, client, eraser, job, raced>> /\ put' = [put EXCEPT ![p] = None]
        /\ put[p] # None
    BY <1>4 DEF PutFails, PutDropped, history
  <2> DEFINE none == None
  <2>2. put' = [put EXCEPT ![p] = none] /\ none = None  BY <2>1
  <2> HIDE DEF none
  <2>3. PutsKeep /\ \A q \in Put : q # p => put'[q] = put[q]  BY <2>2, PutGoesOn
  <2>4. put'[p] = None  BY <2>1 DEF Typing, TypeOK
  <2>5. LivesKeep /\ MessagesKept
    <3>1. CASE PutFails(p)  BY <3>1, Idling DEF PutFails
    <3>2. CASE PutDropped(p)
      <4>1. put[p].msg \in Known /\ put[p].msg # None
        BY <2>1, <3>2, InProgress, KnownAreMessages DEF PutDropped, PutKnown, Sent, Typing
      <4>2. PICK m \in Known : m = put[p].msg  BY <4>1
      <4>3. /\ ~Used(m) /\ \A q \in Put : q # p /\ put[q] # None => put[q].msg # m
            /\ job # None => job.msg # m
        BY <2>1, <4>1, <4>2 DEF PiecesInv, NewInv
      <4>4. messages' = Deleted(m) \/ UNCHANGED messages  BY <3>2, <4>2 DEF PutDropped, MayDelete
      <4>5. \A q \in Put : put'[q] # None => put'[q].msg # m  BY <2>3, <2>4, <4>3
      <4>6. job' # None => job'.msg # m  BY <2>1, <4>3
      <4> QED  BY <4>3, <4>4, <4>5, <4>6, DeletingKeeps DEF Used
    <3> QED  BY <1>4, <3>1, <3>2
  <2> QED  BY <2>1, <2>3, <2>5, Idling DEF BindsNothing, db
<1>5. CASE PutReplaces(p)
  <2> DEFINE r == [put[p] EXCEPT !.at = "replaced"]
  <2>1. /\ put[p] # None /\ put[p].at = "replacing" /\ put' = [put EXCEPT ![p] = r] /\ MayDelete(put[p].old)
        /\ UNCHANGED <<db, client, eraser, job, raced>>
    BY <1>5 DEF PutReplaces, history
  <2>2. r.blob = put[p].blob /\ r.hash = put[p].hash /\ r.old = put[p].old /\ r.msg = put[p].msg
    BY <2>1, InProgress DEF PutType
  <2> HIDE DEF r
  <2>3. /\ PutsKeep /\ \A q \in Put : q # p => put'[q] = put[q]
        /\ put'[p] # None => put'[p].msg = put[p].msg
    BY <2>1, <2>2, PutGoesOn
  <2>4. put[p].old \in Known /\ None \notin Known
    BY <2>1, InProgress, KnownAreMessages DEF PutKnown, Typing
  <2>5. PICK m \in Known : m = put[p].old  BY <2>4
  <2>6. Used(m)  BY <2>1, <2>5 DEF Used
  <2>7. ASSUME NEW q \in Put, put'[q] # None  PROVE put'[q].msg # m
    <3>1. put[q] # None /\ put'[q].msg = put[q].msg  BY <2>1, <2>3, <2>7
    <3>2. put[q].msg # None => ~Used(put[q].msg)  BY <3>1 DEF PiecesInv, NewInv
    <3> QED  BY <2>4, <2>6, <3>1, <3>2
  <2>8. job' # None => job'.msg # m
    <3>1. job # None /\ job.msg # None => ~Used(job.msg)  BY DEF PiecesInv, NewInv
    <3> QED  BY <2>1, <2>4, <2>6, <3>1
  <2>9. \A b \in Blob : blobs[b] # None /\ blobs[b].msg = m => put[p].blob = b
    BY <2>1, <2>5 DEF PiecesInv, RowInv
  <2>10. messages' = Deleted(m) \/ UNCHANGED messages  BY <2>1, <2>5 DEF MayDelete
  <2>11. LivesKeep /\ MessagesKept  BY <2>1, <2>7, <2>8, <2>9, <2>10, DeletingKeeps
  <2> QED  BY <2>1, <2>3, <2>11, Idling DEF BindsNothing, db
<1>6. ~PutReplaced(p)  BY DEF PutReplaced
<1> QED  BY <1>1, <1>2, <1>3, <1>4, <1>5, <1>6 DEF OfPut

\* An eraser deletes messages of rows of an upload that has ended.
LEMMA EraserKeeps ==
  ASSUME Typing, Typing', EndedLasts, UploadInv, PiecesInv, NEW e \in Eraser, OfEraser(e)
  PROVE  BindsNothing
<1>1. eraser[e] # None /\ UNCHANGED <<aliases, client, put, raced>>
  BY DEF OfEraser, EraseMessage, EraseSkips, EraseMarks, EraseThrows, db, history
<1>2. EraserTyped /\ job \in JobType \cup {None}  BY Types DEF Typing, TasksTyped
<1>3. ASSUME NEW rows, rows \subseteq eraser[e].rows, NEW hit, hit = None \/ hit \in eraser[e].rows,
             Left(e, rows, hit)
      PROVE  ErasersKeep
  <2>1. PICK r \in EraserType \cup {None} :
          /\ eraser' = [eraser EXCEPT ![e] = r]
          /\ r # None => r.upload = eraser[e].upload /\ r.rows = rows
    BY <1>1, <1>3, Leaving
  <2>2. \A f \in Eraser : eraser'[f] = IF f = e THEN r ELSE eraser[f]  BY <1>2, <2>1 DEF EraserTyped
  <2> QED  BY <1>1, <1>3, <2>1, <2>2 DEF ErasersKeep
<1>4. CASE EraseMessage(e)
  <2>1. PICK r \in eraser[e].rows : messages' = Deleted(r[2]) /\ Left(e, eraser[e].rows \ {r}, r)
    BY <1>4 DEF EraseMessage
  <2> DEFINE left == eraser[e].rows \ {r}
  <2>2. left \subseteq eraser[e].rows /\ Left(e, left, r)  BY <2>1
  <2> HIDE DEF left
  <2>3. ErasersKeep  BY <1>3, <2>2
  <2>4. UNCHANGED <<blobs, job>>  BY <1>4 DEF EraseMessage, db
  <2>5. r[2] \in Known /\ None \notin Known
    BY <1>1, AtWork, KnownAreMessages DEF EraserKnown, Typing
  <2>6. PICK m \in Known : m = r[2]  BY <2>5
  <2>7. Used(m)  BY <1>1, <2>6 DEF Used
  <2>8. \A p \in Put : put'[p] # None => put'[p].msg # m
    BY <1>1, <2>5, <2>7 DEF PiecesInv, NewInv
  <2>9. job' # None => job'.msg # m  BY <2>4, <2>5, <2>7 DEF PiecesInv, NewInv
  <2>10. ASSUME NEW b \in Blob, blobs[b] # None, blobs[b].msg = m  PROVE Ended(b[1])
    <3>1. <<eraser[e].upload, r[1]>> = b  BY <1>1, <2>6, <2>10 DEF PiecesInv, RowInv
    <3>2. b[1] = eraser[e].upload  BY <3>1
    <3> QED  BY <1>1, <3>2 DEF UploadInv, ErasesEnded
  <2>11. LivesKeep /\ MessagesKept
    <3>1. messages' = Deleted(m) \/ UNCHANGED messages  BY <2>1, <2>6
    <3> QED  BY <2>8, <2>9, <2>10, <3>1, DeletingKeeps
  <2> QED  BY <1>1, <2>3, <2>4, <2>11, Idling DEF BindsNothing
<1>5. CASE EraseSkips(e)
  <2>1. PICK r \in eraser[e].rows : Left(e, eraser[e].rows \ {r}, None)  BY <1>5 DEF EraseSkips
  <2> DEFINE left == eraser[e].rows \ {r}
             none == None
  <2>2. left \subseteq eraser[e].rows /\ Left(e, left, none) /\ none = None  BY <2>1
  <2> HIDE DEF left, none
  <2>3. ErasersKeep  BY <1>3, <2>2
  <2> QED  BY <1>1, <1>5, <2>3, Idling DEF EraseSkips, db, BindsNothing
<1>6. CASE EraseMarks(e)
  <2> DEFINE b == <<eraser[e].upload, eraser[e].hit[1]>>
             row == [blobs[b] EXCEPT !.deleted = TRUE]
             left == eraser[e].rows
             none == None
  <2>1. b \in Blob /\ blobs[b] # None /\ b[1] = eraser[e].upload
    BY <1>1, <1>6, AtWork DEF EraserKnown, EraseMarks
  <2>2. blobs' = [blobs EXCEPT ![b] = row]  BY <1>6 DEF EraseMarks
  <2>3. blobs[b] \in Row  BY <2>1 DEF Typing, TypeOK
  <2>4. row \in Row /\ row.msg = blobs[b].msg /\ row.hash = blobs[b].hash  BY <2>3 DEF Row
  <2>5. row # None  BY <2>4, NoneIsNoRecord
  <2>6. left \subseteq eraser[e].rows /\ Left(e, left, none) /\ none = None  BY <1>6 DEF EraseMarks
  <2>7. Ended(b[1])  BY <1>1, <2>1 DEF UploadInv, ErasesEnded
  <2> HIDE DEF b, row, left, none
  <2>8. \A c \in Blob : blobs'[c] = IF c = b THEN row ELSE blobs[c]
    BY <2>1, <2>2 DEF Typing, TypeOK
  <2>9. RowsKeep  BY <2>1, <2>4, <2>5, <2>7, <2>8 DEF RowsKeep
  <2>10. ErasersKeep  BY <1>3, <2>6
  <2> QED  BY <1>1, <1>6, <2>9, <2>10, Idling DEF EraseMarks, BindsNothing
<1>7. CASE EraseThrows(e)
  <2>1. ErasersKeep
    <3> DEFINE none == None
    <3>1. eraser' = [eraser EXCEPT ![e] = none] /\ none = None  BY <1>7 DEF EraseThrows
    <3> HIDE DEF none
    <3>2. \A f \in Eraser : eraser'[f] = IF f = e THEN none ELSE eraser[f]  BY <1>2, <3>1 DEF EraserTyped
    <3> QED  BY <3>1, <3>2 DEF ErasersKeep
  <2>2. JobKeeps
    <3>1. CASE UNCHANGED job  BY <3>1, Idling
    <3>2. CASE e = "mover"
      <4>1. job' = Paused /\ job # None  BY <1>1, <1>7, <3>2 DEF EraseThrows, Typing, InHand, MoverKnown
      <4> QED  BY <1>2, <4>1 DEF Paused, JobType, JobKeeps
    <3> QED  BY <1>7, <3>1, <3>2 DEF EraseThrows
  <2> QED  BY <1>1, <1>7, <2>1, <2>2, Idling DEF EraseThrows, db, BindsNothing
<1> QED  BY <1>4, <1>5, <1>6, <1>7 DEF OfEraser

LEMMA TickKeeps ==
  ASSUME Typing, Typing', EndedLasts, Tick
  PROVE  BindsNothing
<1>1. UNCHANGED <<blobs, aliases, messages, client, put, job, raced>>
  BY DEF Tick, TickStart, TickReap, TickPurges, TickPurge, TickPurged, TickLeftovers, TickLeftover, db, history
<1>2. tick.todo \subseteq Upload  BY DEF Typing, TypeOK, TickType
<1>3. UNCHANGED eraser \/ \E u \in Upload : Erase("tick", u)
  BY <1>2 DEF Tick, TickStart, TickReap, TickPurges, TickPurge, TickPurged, TickLeftovers, TickLeftover
<1>4. ErasersKeep  BY <1>1, <1>3, Idling, EraseKeeps DEF Eraser
<1> QED  BY <1>1, <1>4, Idling DEF BindsNothing

LEMMA HookKeeps ==
  ASSUME Typing, Typing', EndedLasts, NEW h \in Hook, OfHook(h)
  PROVE  BindsNothing
<1>1. UNCHANGED <<blobs, aliases, messages, client, put, eraser, raced>>
  BY DEF OfHook, Retire, RemoveAnyway, Paste, EnqueueMove, tasks, history
<1>2. UNCHANGED job \/ (job'.trash = {} /\ job'.msg = None)
  BY DEF OfHook, Retire, RemoveAnyway, Paste, EnqueueMove, tasks
<1>3. JobKeeps  BY <1>2 DEF JobKeeps
<1> QED  BY <1>1, <1>3, Idling DEF BindsNothing

LEMMA RestartKeeps ==
  ASSUME Typing, Typing', EndedLasts, RestartServer
  PROVE  BindsNothing
<1>1. UNCHANGED <<blobs, aliases, messages, client, raced>>  BY DEF RestartServer, db
<1>2. Stopped  BY DEF RestartServer
<1> QED  BY <1>1, <1>2, Idling, StoppedKeeps DEF BindsNothing

\* The steps of the move that post no copy and switch no row.
LEMMA MoverKeeps ==
  ASSUME Typing, Typing', EndedLasts, PiecesInv, Mover, ~JobCopies \/ (job' = None /\ UNCHANGED messages),
         ~JobSwitches \/ ~StillThere(job.row)
  PROVE  BindsNothing
<1>1. UNCHANGED <<client, put, raced>>
  BY DEF Mover, JobRuns, JobSettled, JobBatch, JobCopies, JobSwitches, JobErases, JobChecks,
     JobTrash, JobFinishes, JobFails, db, history
<1>2. job # None /\ job \in JobType /\ JobKnown
  BY DEF Mover, MoverAt, JobRuns, JobSettled, JobBatch, JobCopies, JobSwitches, JobErases, JobChecks,
     JobTrash, JobFinishes, JobFails, Typing, TypeOK, InHand
<1>3. CASE JobSwitches
  <2>1. /\ MayDelete(job.msg) /\ UNCHANGED <<blobs, aliases, eraser>> /\ job.at = "switch"
        /\ job' = [job EXCEPT !.at = "copy", !.row = None, !.msg = None]
    BY <1>3 DEF JobSwitches, MoverAt
  <2>2. job'.trash = job.trash /\ job'.msg = None  BY <1>2, <2>1 DEF JobType
  <2>3. job.msg \in Known /\ job.msg # None  BY <1>2, <2>1, KnownAreMessages DEF JobKnown, Typing
  <2>4. PICK m \in Known : m = job.msg  BY <2>3
  <2>5. ~Used(m)  BY <1>2, <2>3, <2>4 DEF PiecesInv, NewInv
  <2>6. \A p \in Put : put'[p] # None => put'[p].msg # m
    BY <1>1, <1>2, <2>3, <2>4 DEF PiecesInv, NewInv
  <2>7. job' # None => job'.msg # m  BY <2>2, <2>3, <2>4
  <2>8. messages' = Deleted(m) \/ UNCHANGED messages  BY <2>1, <2>4 DEF MayDelete
  <2>9. LivesKeep /\ MessagesKept  BY <2>5, <2>6, <2>7, <2>8, DeletingKeeps DEF Used
  <2>10. JobKeeps  BY <1>2, <2>2 DEF JobKeeps
  <2> QED  BY <1>1, <2>1, <2>9, <2>10, Idling DEF BindsNothing
<1>4. CASE JobTrash
  <2>1. UNCHANGED <<blobs, aliases, eraser>>  BY <1>4 DEF JobTrash, db
  <2>2. PICK k \in job.trash :
          /\ messages' = IF Present(HookOf(k)) THEN Deleted(k) ELSE messages
          /\ job' = [job EXCEPT !.trash = @ \ {k}]
    BY <1>4 DEF JobTrash
  <2>3. job'.trash = job.trash \ {k} /\ job'.msg = job.msg  BY <1>2, <2>2 DEF JobType
  <2>4. PICK m \in Known : m = k  BY <1>2 DEF JobKnown
  <2>5. None \notin Known /\ Used(m)  BY <1>2, <2>4, KnownAreMessages DEF Used, Typing
  <2>6. \A p \in Put : put'[p] # None => put'[p].msg # m
    BY <1>1, <2>5 DEF PiecesInv, NewInv
  <2>7. job' # None => job'.msg # m  BY <1>2, <2>3, <2>5 DEF PiecesInv, NewInv
  <2>8. \A b \in Blob : blobs[b] # None => blobs[b].msg # m  BY <1>2, <2>4 DEF PiecesInv, RowInv
  <2>9. messages' = Deleted(m) \/ UNCHANGED messages  BY <2>2, <2>4
  <2>10. LivesKeep /\ MessagesKept  BY <2>6, <2>7, <2>8, <2>9, DeletingKeeps
  <2>11. JobKeeps  BY <1>2, <2>3 DEF JobKeeps
  <2> QED  BY <1>1, <2>1, <2>10, <2>11, Idling DEF BindsNothing
<1>5. CASE ~JobSwitches /\ ~JobTrash
  <2>1. UNCHANGED <<blobs, aliases, messages>>
    BY <1>2, <1>5 DEF Mover, JobRuns, JobSettled, JobBatch, JobCopies, JobErases, JobChecks, JobFinishes, JobFails, db
  <2>2. JobKeeps
    <3>1. CASE job' = None  BY <3>1 DEF JobKeeps
    <3>2. CASE job' # None
      <4>1. job'.trash = job.trash /\ (job'.msg = job.msg \/ job'.msg = None)
        BY <1>2, <1>5, <3>2
        DEF Mover, JobRuns, JobSettled, JobBatch, JobCopies, JobErases, JobChecks, JobFinishes, JobFails,
            JobGoes, Paused, JobType
      <4> QED  BY <1>2, <4>1 DEF JobKeeps
    <3> QED  BY <3>1, <3>2
  <2>3. ErasersKeep
    <3>1. CASE JobErases
      <4>1. MoverAt("garbage") /\ (UNCHANGED eraser \/ \E u \in job.rows : Erase("mover", u))
        BY <3>1 DEF JobErases
      <4>2. job.rows \subseteq Upload  BY <1>2, <4>1 DEF MoverAt, JobKnown
      <4> QED  BY <2>1, <4>1, <4>2, Idling, EraseKeeps DEF Eraser
    <3>2. CASE UNCHANGED eraser  BY <3>2, Idling
    <3> QED
      BY <1>5, <3>1, <3>2
      DEF Mover, JobRuns, JobSettled, JobBatch, JobCopies, JobChecks, JobFinishes, JobFails
  <2> QED  BY <1>1, <2>1, <2>2, <2>3, Idling DEF BindsNothing
<1> QED  BY <1>3, <1>4, <1>5

-----------------------------------------------------------------------------
(* The steps that bind a message: a put or the move learns of the one it    *)
(* posted, and the row is written or switched                               *)

LEMMA NamesAreKnown ==
  ASSUME Typing, NEW m
  PROVE  /\ Used(m) => m \in Known \cup {None}
         /\ \A p \in Put : put[p] # None => put[p].msg \in Known \cup {None}
         /\ job # None => job.msg \in Known \cup {None}
<1>1. ASSUME NEW e \in Eraser, eraser[e] # None, NEW r \in eraser[e].rows  PROVE r[2] \in Known
  BY <1>1, AtWork DEF EraserKnown
<1> QED  BY <1>1 DEF Used, Typing, InHand, RowsKnown, AnswersKnown, PutsKnown, JobKnown

\* A put learns of its message, which is new.
LEMMA LandsBinds ==
  ASSUME Typing, Typing', PiecesInv, NEW p \in Put, PutLands(p), ~UNCHANGED put
  PROVE  PiecesInv'
<1>1. /\ UNCHANGED <<uploads, blobs, aliases, client, eraser, job, raced>>
      /\ put[p] # None /\ put' = [put EXCEPT ![p].at = "posted", ![p].msg = Len(messages) + 1]
  BY DEF PutLands, db, history
<1>2. PICK h \in put[p].hooks : Post(h, put[p].hash)  BY DEF PutLands
<1>3. h \in Hook /\ put[p].hash \in Hash  BY <1>1, <1>2, InProgress
<1>4. PICK n \in Msg : n = Len(messages) + 1  BY <1>2, <1>3, Posting DEF Typing
<1>5. /\ n \notin Known /\ n # None /\ MessagesKept
      /\ \A m \in Known : messages'[m] = messages[m]
      /\ messages'[n].live /\ messages'[n].hash = put[p].hash
  <2>1. /\ MessagesKept /\ \A m \in Known : messages'[m] = messages[m]
        /\ n \notin Known
        /\ messages'[n] = [hook |-> h, hash |-> put[p].hash, live |-> TRUE]
    BY <1>2, <1>3, <1>4, Posting DEF Typing
  <2>2. n # None  BY ConstantsAreTyped DEF Msg
  <2> QED  BY <2>1, <2>2
<1> DEFINE r == [put[p] EXCEPT !.at = "posted", !.msg = n]
<1>6. put' = [put EXCEPT ![p] = r]  BY <1>1, <1>4
<1>7. r.msg = n /\ r.blob = put[p].blob /\ r.hash = put[p].hash /\ r.old = put[p].old /\ r \in PutType
  BY <1>1, InProgress DEF PutType
<1>8. r # None  BY <1>7, NoneIsNoRecord
<1> HIDE DEF r
<1>9. \A q \in Put : put'[q] = IF q = p THEN r ELSE put[q]  BY <1>6 DEF Typing, TypeOK
<1>10. \A q \in Put : /\ put'[q] # None <=> put[q] # None
                      /\ put[q] # None => /\ put'[q].blob = put[q].blob /\ put'[q].hash = put[q].hash
                                          /\ put'[q].old = put[q].old
  BY <1>1, <1>7, <1>8, <1>9
<1>11. \A b \in Blob : Got(b)' = Got(b)  BY <1>1 DEF Got
<1>12. \A u \in Upload : Ended(u)' = Ended(u)  BY <1>1 DEF Ended, State
<1>13. ASSUME NEW m  PROVE Used(m)' <=> Used(m)
  <2>1. (\E q \in Put : put'[q] # None /\ put'[q].old = m) <=> \E q \in Put : put[q] # None /\ put[q].old = m
    BY <1>10
  <2> QED  BY <1>1, <1>11, <2>1 DEF Used
<1>14. ~Used(n)  BY <1>5, NamesAreKnown
<1>15. NewInv'
  <2>1. ASSUME NEW q \in Put, put'[q] # None, put'[q].msg # None
        PROVE  /\ ~Used(put[q].msg)' /\ messages'[put'[q].msg].live
               /\ messages'[put'[q].msg].hash = put'[q].hash
               /\ \A t \in Put : t # q /\ put'[t] # None => put'[t].msg # put'[q].msg
               /\ job' # None => job'.msg # put'[q].msg
    <3>1. CASE q = p
      <4>1. put'[q].msg = n /\ put'[q].hash = put[p].hash  BY <1>7, <1>9, <3>1
      <4>2. ~Used(n)'  BY <1>13, <1>14
      <4>3. ~Used(put[q].msg)'  BY <4>1, <4>2 DEF Used
      <4>4. \A t \in Put : t # q /\ put'[t] # None => put'[t].msg # n
        BY <1>5, <1>9, <3>1, NamesAreKnown
      <4>5. job' # None => job'.msg # n  BY <1>1, <1>5, NamesAreKnown
      <4> QED  BY <1>5, <4>1, <4>3, <4>4, <4>5
    <3>2. CASE q # p
      <4>1. put'[q] = put[q] /\ put[q] # None /\ put[q].msg # None  BY <1>9, <2>1, <3>2
      <4>2. PICK m \in Known : m = put[q].msg  BY <4>1, NamesAreKnown
      <4>3. /\ ~Used(m) /\ messages[m].live /\ messages[m].hash = put[q].hash
            /\ \A t \in Put : t # q /\ put[t] # None => put[t].msg # m
            /\ job # None => job.msg # m
        BY <4>1, <4>2 DEF PiecesInv, NewInv
      <4>4. ~Used(m)'  BY <1>13, <4>3
      <4>5. ~Used(put[q].msg)'  BY <4>1, <4>2, <4>4 DEF Used
      <4>6. ASSUME NEW t \in Put, t # q, put'[t] # None  PROVE put'[t].msg # m
        BY <1>5, <1>7, <1>9, <4>2, <4>3, <4>6
      <4> QED  BY <1>1, <1>5, <4>1, <4>2, <4>3, <4>5, <4>6
    <3> QED  BY <3>1, <3>2
  <2>2. ASSUME job' # None, job'.msg # None  PROVE ~Used(job.msg)' /\ messages'[job'.msg].live
    <3>1. ~Used(job.msg) /\ messages[job.msg].live  BY <1>1, <2>2 DEF PiecesInv, NewInv
    <3>2. PICK m \in Known : m = job.msg  BY <1>1, <2>2, NamesAreKnown
    <3>3. ~Used(m)'  BY <1>13, <3>1, <3>2
    <3>4. ~Used(job.msg)'  BY <1>1, <3>2, <3>3 DEF Used
    <3> QED  BY <1>1, <1>5, <3>1, <3>2, <3>4
  <2> QED  BY <2>1, <2>2 DEF NewInv
<1>16. RowInv'
  <2> SUFFICES ASSUME NEW c \in Blob, blobs'[c] # None
               PROVE  /\ \A b \in Blob : blobs'[b] # None /\ blobs'[b].msg = blobs'[c].msg => b = c
                      /\ \A b \in Blob : Got(b)' # None /\ Got(b)'.msg = blobs'[c].msg => b = c
                      /\ \A q \in Put : put'[q] # None /\ put'[q].old = blobs'[c].msg => put'[q].blob = c
                      /\ \A e \in Eraser : eraser'[e] # None =>
                           \A x \in eraser'[e].rows : x[2] = blobs'[c].msg => <<eraser'[e].upload, x[1]>> = c
                      /\ job' # None => blobs'[c].msg \notin job'.trash
    BY DEF RowInv
  <2>1. /\ \A b \in Blob : blobs[b] # None /\ blobs[b].msg = blobs[c].msg => b = c
        /\ \A b \in Blob : Got(b) # None /\ Got(b).msg = blobs[c].msg => b = c
        /\ \A q \in Put : put[q] # None /\ put[q].old = blobs[c].msg => put[q].blob = c
        /\ \A e \in Eraser : eraser[e] # None =>
             \A x \in eraser[e].rows : x[2] = blobs[c].msg => <<eraser[e].upload, x[1]>> = c
        /\ job # None => blobs[c].msg \notin job.trash
    BY <1>1 DEF PiecesInv, RowInv
  <2>2. \A q \in Put : put'[q] # None /\ put'[q].old = blobs[c].msg => put'[q].blob = c  BY <1>10, <2>1
  <2> QED  BY <1>1, <1>11, <2>1, <2>2
<1>17. HashInv'
  <2>1. \A q \in Put : put'[q] # None => put'[q].hash <= client'[put'[q].blob[1]].session
    BY <1>1, <1>10 DEF PiecesInv, HashInv
  <2>2. \A b \in Blob : b[1] \in Upload  BY DEF Blob
  <2> QED  BY <1>1, <1>12, <2>1, <2>2 DEF PiecesInv, HashInv
<1>18. PutInv'
  <2> SUFFICES ASSUME NEW q \in Put, put'[q] # None, put'[q].blob \notin raced'
               PROVE  /\ \A t \in Put : t # q /\ put'[t] # None => put'[t].blob # put'[q].blob
                      /\ Got(put[q].blob)' = None
                      /\ blobs'[put'[q].blob] # None =>
                           blobs'[put'[q].blob].hash # client'[put'[q].blob[1]].session \/ Ended(put[q].blob[1])'
    BY DEF PutInv
  <2>1. put[q] # None /\ put'[q].blob = put[q].blob  BY <1>10
  <2>2. PICK b \in Blob : b = put[q].blob  BY <2>1, InProgress
  <2>3. /\ \A t \in Put : t # q /\ put[t] # None => put[t].blob # b
        /\ Got(b) = None
        /\ blobs[b] # None => blobs[b].hash # client[b[1]].session \/ Ended(b[1])
    BY <1>1, <2>1, <2>2 DEF PiecesInv, PutInv
  <2>4. Got(put[q].blob)' = None  BY <1>1, <2>1, <2>2, <2>3 DEF Got
  <2>5. Ended(put[q].blob[1])' <=> Ended(b[1])  BY <1>1, <2>1, <2>2 DEF Ended, State
  <2>6. \A t \in Put : t # q /\ put'[t] # None => put'[t].blob # b  BY <1>10, <2>3
  <2> QED  BY <1>1, <2>1, <2>2, <2>3, <2>4, <2>5, <2>6
<1>19. PieceInv'
  <2>1. \A b \in Blob : b[1] \in Upload /\ (blobs[b] # None => blobs[b].msg \in Known)
    BY DEF Blob, Typing, InHand, RowsKnown
  <2> QED  BY <1>1, <1>5, <1>11, <1>12, <2>1 DEF PiecesInv, PieceInv
<1> QED  BY <1>15, <1>16, <1>17, <1>18, <1>19 DEF PiecesInv

\* The row is written: it names the put's message, and so does the answer.
LEMMA StoreBinds ==
  ASSUME Typing, Typing', PiecesInv, NEW p \in Put, put[p] # None, put[p].at \in {"posted", "replaced"},
         Store(p), UNCHANGED <<uploads, aliases, hooks, messages, leased, tick, eraser, job, history>>
  PROVE  PiecesInv'
<1>1. PICK c \in Blob : c = put[p].blob  BY InProgress
<1>2. PICK n \in Known : n = put[p].msg  BY InProgress, KnownAreMessages DEF PutKnown, Sent, Typing
<1>3. PICK x \in Hash : x = put[p].hash  BY InProgress
<1>4. /\ ~Used(n) /\ messages[n].live /\ messages[n].hash = x
      /\ \A q \in Put : q # p /\ put[q] # None => put[q].msg # n
      /\ job # None => job.msg # n
      /\ n # None /\ n \in Msg
  BY <1>2, <1>3, KnownAreMessages DEF PiecesInv, NewInv, Typing
<1>5. \A b \in Blob : blobs'[b] = IF b = c THEN [msg |-> n, hash |-> x, deleted |-> FALSE] ELSE blobs[b]
  BY <1>1, <1>2, <1>3, Storing
<1>6. /\ blobs'[c] # None /\ blobs'[c].msg = n /\ blobs'[c].hash = x /\ blobs'[c].deleted = FALSE
  <2> DEFINE row == [msg |-> n, hash |-> x, deleted |-> FALSE]
  <2>1. row \in Row /\ row.msg = n /\ row.hash = x /\ row.deleted = FALSE  BY <1>4 DEF Row
  <2>2. row # None  BY <2>1, NoneIsNoRecord
  <2>3. blobs'[c] = row  BY <1>5
  <2> HIDE DEF row
  <2> QED  BY <2>1, <2>2, <2>3
<1>7. \A q \in Put : put'[q] = IF q = p THEN None ELSE put[q]
  <2>1. put' = [put EXCEPT ![p] = None]  BY DEF Store
  <2> QED  BY <2>1 DEF Typing, TypeOK
<1>8. /\ \A v \in Upload : client'[v].at = client[v].at /\ client'[v].session = client[v].session
      /\ \A b \in Blob : \/ Got(b)' = Got(b)
                         \/ b = c /\ Got(b)' # None /\ Got(b)'.msg = n /\ Got(b)'.hash = x
  <2> DEFINE a == [msg |-> n, hash |-> x]
  <2>1. PICK heard : Answer(c, a, heard)
    <3>1. Answer(put[p].blob, [msg |-> put[p].msg, hash |-> put[p].hash], put[p].heard)  BY DEF Store
    <3> QED  BY <1>1, <1>2, <1>3, <3>1
  <2>2. a \in Placement /\ a.msg = n /\ a.hash = x  BY <1>4 DEF Placement
  <2>3. a # None  BY <2>2, NoneIsNoRecord
  <2> HIDE DEF a
  <2>4. /\ \A v \in Upload : client'[v].at = client[v].at /\ client'[v].session = client[v].session
        /\ \A b \in Blob : Got(b)' = Got(b) \/ (b = c /\ Got(b)' = a)
    BY <2>1, <2>2, Answering
  <2> QED  BY <2>2, <2>3, <2>4
<1>9. \A u \in Upload : Ended(u)' <=> Ended(u)  BY <1>8 DEF Ended, State
<1>10. UNCHANGED <<messages, aliases, eraser, job, raced>>  BY DEF history
<1>11. ASSUME NEW m, Used(m)'  PROVE Used(m) \/ m = n
  <2>1. CASE \E b \in Blob : blobs'[b] # None /\ blobs'[b].msg = m
    BY <1>5, <1>6, <2>1 DEF Used
  <2>2. CASE \E b \in Blob : Got(b)' # None /\ Got(b)'.msg = m
    BY <1>8, <2>2 DEF Used
  <2>3. CASE \E q \in Put : put'[q] # None /\ put'[q].old = m
    BY <1>7, <2>3 DEF Used
  <2>4. CASE \E e \in Eraser : eraser'[e] # None /\ \E r \in eraser'[e].rows : r[2] = m
    BY <1>10, <2>4 DEF Used
  <2>5. CASE job' # None /\ m \in job'.trash
    BY <1>10, <2>5 DEF Used
  <2> QED  BY <1>11, <2>1, <2>2, <2>3, <2>4, <2>5 DEF Used
<1>12. NewInv'
  <2>1. ASSUME NEW q \in Put, put'[q] # None, put'[q].msg # None
        PROVE  /\ ~Used(put[q].msg)' /\ messages'[put'[q].msg].live
               /\ messages'[put'[q].msg].hash = put'[q].hash
               /\ \A t \in Put : t # q /\ put'[t] # None => put'[t].msg # put'[q].msg
               /\ job' # None => job'.msg # put'[q].msg
    <3>1. q # p /\ put'[q] = put[q] /\ put[q] # None /\ put[q].msg # None  BY <1>7, <2>1
    <3>2. PICK m \in Known : m = put[q].msg  BY <3>1, NamesAreKnown
    <3>3. /\ ~Used(m) /\ messages[m].live /\ messages[m].hash = put[q].hash
          /\ \A t \in Put : t # q /\ put[t] # None => put[t].msg # m
          /\ job # None => job.msg # m
      BY <3>1, <3>2 DEF PiecesInv, NewInv
    <3>4. m # n  BY <1>4, <3>1, <3>2
    <3>5. ~Used(m)'  BY <1>11, <3>3, <3>4
    <3>6. ~Used(put[q].msg)'  BY <3>1, <3>2, <3>5 DEF Used
    <3>7. \A t \in Put : t # q /\ put'[t] # None => put'[t].msg # m  BY <1>7, <3>3
    <3> QED  BY <1>10, <3>1, <3>2, <3>3, <3>6, <3>7
  <2>2. ASSUME job' # None, job'.msg # None  PROVE ~Used(job.msg)' /\ messages'[job'.msg].live
    <3>1. ~Used(job.msg) /\ messages[job.msg].live  BY <1>10, <2>2 DEF PiecesInv, NewInv
    <3>2. PICK m \in Known : m = job.msg  BY <1>10, <2>2, NamesAreKnown
    <3>3. m # n  BY <1>4, <1>10, <2>2, <3>2
    <3>4. ~Used(m)'  BY <1>11, <3>1, <3>2, <3>3
    <3>5. ~Used(job.msg)'  BY <1>10, <3>2, <3>4 DEF Used
    <3> QED  BY <1>10, <3>1, <3>5
  <2> QED  BY <2>1, <2>2 DEF NewInv
<1>13. RowInv'
  <2> SUFFICES ASSUME NEW d \in Blob, blobs'[d] # None
               PROVE  /\ \A b \in Blob : blobs'[b] # None /\ blobs'[b].msg = blobs'[d].msg => b = d
                      /\ \A b \in Blob : Got(b)' # None /\ Got(b)'.msg = blobs'[d].msg => b = d
                      /\ \A q \in Put : put'[q] # None /\ put'[q].old = blobs'[d].msg => put'[q].blob = d
                      /\ \A e \in Eraser : eraser'[e] # None =>
                           \A r \in eraser'[e].rows : r[2] = blobs'[d].msg => <<eraser'[e].upload, r[1]>> = d
                      /\ job' # None => blobs'[d].msg \notin job'.trash
    BY DEF RowInv
  <2>1. CASE d = c
    <3>1. /\ \A b \in Blob : blobs[b] # None => blobs[b].msg # n
          /\ \A b \in Blob : Got(b) # None => Got(b).msg # n
          /\ \A q \in Put : put[q] # None => put[q].old # n
          /\ \A e \in Eraser : eraser[e] # None => \A r \in eraser[e].rows : r[2] # n
          /\ job # None => n \notin job.trash
      BY <1>4 DEF Used
    <3>2. \A b \in Blob : blobs'[b] # None /\ blobs'[b].msg = n => b = d  BY <1>5, <2>1, <3>1
    <3>3. \A b \in Blob : Got(b)' # None /\ Got(b)'.msg = n => b = d  BY <1>8, <2>1, <3>1
    <3>4. \A q \in Put : put'[q] # None => put'[q].old # n  BY <1>7, <3>1
    <3> QED  BY <1>6, <1>10, <2>1, <3>1, <3>2, <3>3, <3>4
  <2>2. CASE d # c
    <3>1. PICK k \in Known : k = blobs[d].msg /\ blobs'[d].msg = k /\ blobs[d] # None
      BY <1>5, <2>2 DEF Typing, InHand, RowsKnown
    <3>2. k # n  BY <1>4, <3>1 DEF Used
    <3>3. /\ \A b \in Blob : blobs[b] # None /\ blobs[b].msg = k => b = d
          /\ \A b \in Blob : Got(b) # None /\ Got(b).msg = k => b = d
          /\ \A q \in Put : put[q] # None /\ put[q].old = k => put[q].blob = d
          /\ \A e \in Eraser : eraser[e] # None =>
               \A r \in eraser[e].rows : r[2] = k => <<eraser[e].upload, r[1]>> = d
          /\ job # None => k \notin job.trash
      BY <3>1 DEF PiecesInv, RowInv
    <3>4. \A b \in Blob : blobs'[b] # None /\ blobs'[b].msg = k => b = d  BY <1>5, <1>6, <3>2, <3>3
    <3>5. \A b \in Blob : Got(b)' # None /\ Got(b)'.msg = k => b = d  BY <1>8, <3>2, <3>3
    <3>6. \A q \in Put : put'[q] # None /\ put'[q].old = k => put'[q].blob = d  BY <1>7, <3>3
    <3> QED  BY <1>10, <3>1, <3>3, <3>4, <3>5, <3>6
  <2> QED  BY <2>1, <2>2
<1>14. HashInv'
  <2>1. c[1] \in Upload /\ x <= client[c[1]].session  BY <1>1, <1>3 DEF Blob, PiecesInv, HashInv
  <2>2. \A b \in Blob : b[1] \in Upload  BY DEF Blob
  <2>3. ASSUME NEW b \in Blob, blobs'[b] # None
        PROVE  /\ blobs'[b].hash <= client'[b[1]].session
               /\ blobs'[b].deleted => Ended(b[1])'
    <3>1. CASE b = c  BY <1>6, <1>8, <2>1, <3>1
    <3>2. CASE b # c
      <4>1. blobs'[b] = blobs[b]  BY <1>5, <3>2
      <4> QED  BY <1>8, <1>9, <2>2, <2>3, <4>1 DEF PiecesInv, HashInv
    <3> QED  BY <3>1, <3>2
  <2>4. \A q \in Put : put[q] # None => put[q].blob[1] \in Upload  BY InProgress DEF Blob
  <2>5. \A q \in Put : put'[q] # None => put'[q].hash <= client'[put'[q].blob[1]].session
    BY <1>7, <1>8, <2>4 DEF PiecesInv, HashInv
  <2> QED  BY <2>3, <2>5 DEF HashInv
<1>15. PutInv'
  <2> SUFFICES ASSUME NEW q \in Put, put'[q] # None, put'[q].blob \notin raced'
               PROVE  /\ \A t \in Put : t # q /\ put'[t] # None => put'[t].blob # put'[q].blob
                      /\ Got(put[q].blob)' = None
                      /\ blobs'[put'[q].blob] # None =>
                           blobs'[put'[q].blob].hash # client'[put'[q].blob[1]].session \/ Ended(put[q].blob[1])'
    BY DEF PutInv
  <2>1. q # p /\ put'[q] = put[q] /\ put[q] # None  BY <1>7
  <2>2. PICK b \in Blob : b = put[q].blob /\ b[1] \in Upload  BY <2>1, InProgress DEF Blob
  <2>3. /\ \A t \in Put : t # q /\ put[t] # None => put[t].blob # b
        /\ Got(b) = None
        /\ blobs[b] # None => blobs[b].hash # client[b[1]].session \/ Ended(b[1])
    BY <1>10, <2>1, <2>2 DEF PiecesInv, PutInv
  <2>4. b # c  BY <1>1, <2>1, <2>3
  <2>5. blobs'[b] = blobs[b] /\ Got(b)' = None  BY <1>5, <1>8, <2>3, <2>4
  <2>6. Got(put[q].blob)' = None  BY <2>1, <2>2, <2>5 DEF Got
  <2>7. Ended(b[1])' <=> Ended(b[1])  BY <1>8, <2>2 DEF Ended, State
  <2>8. Ended(put[q].blob[1])' <=> Ended(b[1])  BY <2>1, <2>2, <2>7 DEF Ended, State
  <2>9. \A t \in Put : t # q /\ put'[t] # None => put'[t].blob # b  BY <1>7, <2>3
  <2> QED  BY <1>8, <2>1, <2>2, <2>3, <2>5, <2>6, <2>8, <2>9
<1>16. PieceInv'
  <2> SUFFICES ASSUME NEW b \in Blob, b \notin raced', ~Ended(b[1])'
               PROVE  /\ blobs'[b] # None /\ blobs'[b].hash = client'[b[1]].session => messages'[blobs'[b].msg].live
                      /\ Got(b)' # None =>
                           /\ blobs'[b] # None /\ messages'[blobs'[b].msg].live
                           /\ blobs'[b].hash = Got(b)'.hash
                           /\ blobs'[b].msg = Got(b)'.msg \/ [msg |-> Got(b)'.msg, blob |-> b] \in aliases'
    BY DEF PieceInv
  <2>1. b[1] \in Upload /\ b \notin raced  BY <1>10 DEF Blob
  <2>2. CASE b # c
    <3>1. blobs'[b] = blobs[b] /\ Got(b)' = Got(b) /\ ~Ended(b[1]) /\ client'[b[1]].session = client[b[1]].session
      BY <1>5, <1>8, <1>9, <2>1, <2>2
    <3> QED  BY <1>10, <2>1, <3>1 DEF PiecesInv, PieceInv
  <2>3. CASE b = c
    <3>1. Got(c) = None  BY <1>1, <2>1, <2>3 DEF PiecesInv, PutInv
    <3> QED  BY <1>4, <1>6, <1>8, <1>10, <2>3, <3>1
  <2> QED  BY <2>2, <2>3
<1> QED  BY <1>12, <1>13, <1>14, <1>15, <1>16 DEF PiecesInv

\* The move has posted a copy of a row's bytes.
LEMMA CopyBinds ==
  ASSUME Typing, Typing', PiecesInv, JobCopies, ~(job' = None /\ UNCHANGED messages)
  PROVE  PiecesInv'
<1>1. /\ UNCHANGED <<uploads, blobs, aliases, client, put, eraser, raced>>
      /\ job # None /\ job.at = "copy" /\ job \in JobType /\ JobKnown
  BY DEF JobCopies, MoverAt, db, history, Typing, TypeOK, InHand
<1>2. PICK r \in job.rows :
        /\ \E h \in HooksFor : Post(h, messages[r.msg].hash)
        /\ job' = [job EXCEPT !.at = "switch", !.rows = @ \ {r}, !.row = r, !.msg = Len(messages) + 1]
  BY DEF JobCopies
<1>3. PICK h \in HooksFor : Post(h, messages[r.msg].hash)  BY <1>2
<1>4. r.msg \in Known  BY <1>1 DEF JobKnown
<1>5. h \in Hook /\ messages[r.msg].hash \in Hash
  BY <1>3, <1>4, KnownAreMessages DEF HooksFor, MessageType, Typing
<1>6. PICK n \in Msg : n = Len(messages) + 1  BY <1>3, <1>5, Posting DEF Typing
<1>7. n \notin Known /\ n # None /\ messages'[n].live /\ \A m \in Known : messages'[m] = messages[m]
  <2>1. /\ n \notin Known /\ \A m \in Known : messages'[m] = messages[m]
        /\ messages'[n] = [hook |-> h, hash |-> messages[r.msg].hash, live |-> TRUE]
    BY <1>3, <1>5, <1>6, Posting DEF Typing
  <2>2. n # None  BY ConstantsAreTyped DEF Msg
  <2> QED  BY <2>1, <2>2
<1>8. job'.msg = n /\ job'.trash = job.trash
  <2>1. job' = [job EXCEPT !.at = "switch", !.rows = @ \ {r}, !.row = r, !.msg = n]  BY <1>2, <1>6
  <2> QED  BY <1>1, <2>1 DEF JobType
<1>9. \A b \in Blob : Got(b)' = Got(b)  BY <1>1 DEF Got
<1>10. \A u \in Upload : Ended(u)' <=> Ended(u)  BY <1>1 DEF Ended, State
<1>11. ASSUME NEW m, Used(m)'  PROVE Used(m)  BY <1>1, <1>8, <1>9, <1>11 DEF Used
<1>12. NewInv'
  <2>1. ASSUME NEW q \in Put, put'[q] # None, put'[q].msg # None
        PROVE  /\ ~Used(put[q].msg)' /\ messages'[put'[q].msg].live
               /\ messages'[put'[q].msg].hash = put'[q].hash
               /\ \A t \in Put : t # q /\ put'[t] # None => put'[t].msg # put'[q].msg
               /\ job' # None => job'.msg # put'[q].msg
    <3>1. put'[q] = put[q] /\ put[q] # None /\ put[q].msg # None  BY <1>1, <2>1
    <3>2. PICK m \in Known : m = put[q].msg  BY <3>1, NamesAreKnown
    <3>3. /\ ~Used(m) /\ messages[m].live /\ messages[m].hash = put[q].hash
          /\ \A t \in Put : t # q /\ put[t] # None => put[t].msg # m
      BY <3>1, <3>2 DEF PiecesInv, NewInv
    <3>4. ~Used(m)'  BY <1>11, <3>3
    <3>5. ~Used(put[q].msg)'  BY <3>1, <3>2, <3>4 DEF Used
    <3>6. m # n  BY <1>7, <3>2
    <3> QED  BY <1>1, <1>7, <1>8, <3>1, <3>2, <3>3, <3>5, <3>6
  <2>2. ~Used(n)'  BY <1>7, <1>11, NamesAreKnown
  <2>3. ~Used(job.msg)'  BY <1>8, <2>2 DEF Used
  <2> QED  BY <1>7, <1>8, <2>1, <2>3 DEF NewInv
<1>13. RowInv'
  <2> SUFFICES ASSUME NEW c \in Blob, blobs'[c] # None
               PROVE  /\ \A b \in Blob : blobs'[b] # None /\ blobs'[b].msg = blobs'[c].msg => b = c
                      /\ \A b \in Blob : Got(b)' # None /\ Got(b)'.msg = blobs'[c].msg => b = c
                      /\ \A q \in Put : put'[q] # None /\ put'[q].old = blobs'[c].msg => put'[q].blob = c
                      /\ \A e \in Eraser : eraser'[e] # None =>
                           \A x \in eraser'[e].rows : x[2] = blobs'[c].msg => <<eraser'[e].upload, x[1]>> = c
                      /\ job' # None => blobs'[c].msg \notin job'.trash
    BY DEF RowInv
  <2>1. /\ \A b \in Blob : blobs[b] # None /\ blobs[b].msg = blobs[c].msg => b = c
        /\ \A b \in Blob : Got(b) # None /\ Got(b).msg = blobs[c].msg => b = c
        /\ \A q \in Put : put[q] # None /\ put[q].old = blobs[c].msg => put[q].blob = c
        /\ \A e \in Eraser : eraser[e] # None =>
             \A x \in eraser[e].rows : x[2] = blobs[c].msg => <<eraser[e].upload, x[1]>> = c
        /\ blobs[c].msg \notin job.trash
    BY <1>1 DEF PiecesInv, RowInv
  <2> QED  BY <1>1, <1>8, <1>9, <2>1
<1>14. HashInv'
  <2>1. \A b \in Blob : b[1] \in Upload  BY DEF Blob
  <2> QED  BY <1>1, <1>10, <2>1 DEF PiecesInv, HashInv
<1>15. PutInv'
  <2> SUFFICES ASSUME NEW q \in Put, put'[q] # None, put'[q].blob \notin raced'
               PROVE  /\ \A t \in Put : t # q /\ put'[t] # None => put'[t].blob # put'[q].blob
                      /\ Got(put[q].blob)' = None
                      /\ blobs'[put'[q].blob] # None =>
                           blobs'[put'[q].blob].hash # client'[put'[q].blob[1]].session \/ Ended(put[q].blob[1])'
    BY DEF PutInv
  <2>1. Got(put[q].blob)' = Got(put[q].blob)  BY <1>1 DEF Got
  <2>2. Ended(put[q].blob[1])' <=> Ended(put[q].blob[1])  BY <1>1 DEF Ended, State
  <2> QED  BY <1>1, <2>1, <2>2 DEF PiecesInv, PutInv
<1>16. PieceInv'
  <2>1. \A b \in Blob : b[1] \in Upload /\ (blobs[b] # None => blobs[b].msg \in Known)
    BY DEF Blob, Typing, InHand, RowsKnown
  <2> QED  BY <1>1, <1>7, <1>9, <1>10, <2>1 DEF PiecesInv, PieceInv
<1> QED  BY <1>12, <1>13, <1>14, <1>15, <1>16 DEF PiecesInv

\* The row is switched to its copy; what an answer or an alias named stands
\* for it still.
LEMMA SwitchBinds ==
  ASSUME Typing, Typing', PiecesInv, JobSwitches, StillThere(job.row)
  PROVE  PiecesInv'
<1>1. /\ UNCHANGED <<uploads, messages, client, put, eraser, raced>>
      /\ job # None /\ job.at = "switch" /\ job \in JobType /\ JobKnown
  BY DEF JobSwitches, MoverAt, history, Typing, TypeOK, InHand
<1>2. PICK r \in OldRow : r = job.row  BY <1>1 DEF JobKnown, JobType
<1>3. PICK c \in Blob : c = r.blob  BY DEF OldRow
<1>4. PICK k \in Known : k = r.msg  BY <1>1, <1>2 DEF JobKnown
<1>5. PICK n \in Known : n = job.msg  BY <1>1 DEF JobKnown
<1>6. n # None /\ n \in Msg /\ k \in Msg  BY KnownAreMessages DEF Typing
<1>7. ~Used(n) /\ messages[n].live /\ \A p \in Put : put[p] # None => put[p].msg # n
  BY <1>1, <1>5, <1>6 DEF PiecesInv, NewInv
<1>8. blobs[c] # None /\ blobs[c].msg = k /\ blobs[c] \in Row
  BY <1>2, <1>3, <1>4 DEF StillThere, Stored, Typing, TypeOK
<1>9. n # k /\ Used(k)  BY <1>7, <1>8 DEF Used
<1> DEFINE row == [blobs[c] EXCEPT !.msg = n]
<1>10. row \in Row /\ row.msg = n /\ row.hash = blobs[c].hash /\ row.deleted = blobs[c].deleted
  BY <1>6, <1>8 DEF Row
<1>11. row # None  BY <1>10, NoneIsNoRecord
<1>12. blobs' = [blobs EXCEPT ![c] = row]  BY <1>2, <1>3, <1>5 DEF JobSwitches
<1> HIDE DEF row
<1>13. \A b \in Blob : blobs'[b] = IF b = c THEN row ELSE blobs[b]  BY <1>12 DEF Typing, TypeOK
<1>14. job'.msg = None /\ job'.trash = job.trash \cup {k}
  <2>1. job' = [job EXCEPT !.at = "copy", !.row = None, !.msg = None, !.trash = @ \cup {job.row.msg}]
    BY DEF JobSwitches
  <2> QED  BY <1>1, <1>2, <1>4, <2>1 DEF JobType
<1>15. aliases' = {a \in aliases : a.msg # k} \cup {r}  BY <1>2, <1>4 DEF JobSwitches, Aliased
<1>16. r = [msg |-> k, blob |-> c]  BY <1>3, <1>4 DEF OldRow
<1>17. \A b \in Blob : Got(b)' = Got(b)  BY <1>1 DEF Got
<1>18. \A u \in Upload : Ended(u)' <=> Ended(u)  BY <1>1 DEF Ended, State
<1>19. ASSUME NEW m, Used(m)'  PROVE Used(m) \/ m = n
  <2>1. CASE \E b \in Blob : blobs'[b] # None /\ blobs'[b].msg = m
    BY <1>10, <1>13, <2>1 DEF Used
  <2>2. CASE job' # None /\ m \in job'.trash
    BY <1>1, <1>9, <1>14, <2>2 DEF Used
  <2>3. CASE ~(\E b \in Blob : blobs'[b] # None /\ blobs'[b].msg = m) /\ ~(job' # None /\ m \in job'.trash)
    BY <1>1, <1>17, <1>19, <2>3 DEF Used
  <2> QED  BY <2>1, <2>2, <2>3
<1>20. NewInv'
  <2>1. ASSUME NEW q \in Put, put'[q] # None, put'[q].msg # None
        PROVE  /\ ~Used(put[q].msg)' /\ messages'[put'[q].msg].live
               /\ messages'[put'[q].msg].hash = put'[q].hash
               /\ \A t \in Put : t # q /\ put'[t] # None => put'[t].msg # put'[q].msg
               /\ job' # None => job'.msg # put'[q].msg
    <3>1. put'[q] = put[q] /\ put[q] # None /\ put[q].msg # None  BY <1>1, <2>1
    <3>2. PICK m \in Known : m = put[q].msg  BY <3>1, NamesAreKnown
    <3>3. /\ ~Used(m) /\ messages[m].live /\ messages[m].hash = put[q].hash
          /\ \A t \in Put : t # q /\ put[t] # None => put[t].msg # m
      BY <3>1, <3>2 DEF PiecesInv, NewInv
    <3>4. ~Used(m)'  BY <1>7, <1>19, <3>1, <3>2, <3>3
    <3>5. ~Used(put[q].msg)'  BY <3>1, <3>2, <3>4 DEF Used
    <3> QED  BY <1>1, <1>14, <2>1, <3>1, <3>2, <3>3, <3>5
  <2> QED  BY <1>14, <2>1 DEF NewInv
<1>21. RowInv'
  <2> SUFFICES ASSUME NEW d \in Blob, blobs'[d] # None
               PROVE  /\ \A b \in Blob : blobs'[b] # None /\ blobs'[b].msg = blobs'[d].msg => b = d
                      /\ \A b \in Blob : Got(b)' # None /\ Got(b)'.msg = blobs'[d].msg => b = d
                      /\ \A q \in Put : put'[q] # None /\ put'[q].old = blobs'[d].msg => put'[q].blob = d
                      /\ \A e \in Eraser : eraser'[e] # None =>
                           \A x \in eraser'[e].rows : x[2] = blobs'[d].msg => <<eraser'[e].upload, x[1]>> = d
                      /\ job' # None => blobs'[d].msg \notin job'.trash
    BY DEF RowInv
  <2>1. CASE d = c
    <3>1. /\ \A b \in Blob : blobs[b] # None => blobs[b].msg # n
          /\ \A b \in Blob : Got(b) # None => Got(b).msg # n
          /\ \A q \in Put : put[q] # None => put[q].old # n
          /\ \A e \in Eraser : eraser[e] # None => \A x \in eraser[e].rows : x[2] # n
          /\ n \notin job.trash
      BY <1>1, <1>7 DEF Used
    <3>2. \A b \in Blob : blobs'[b] # None /\ blobs'[b].msg = n => b = d  BY <1>13, <2>1, <3>1
    <3>3. \A b \in Blob : Got(b)' # None => Got(b)'.msg # n  BY <1>17, <3>1
    <3>4. blobs'[d].msg = n  BY <1>10, <1>13, <2>1
    <3>5. n \notin job'.trash  BY <1>9, <1>14, <3>1
    <3> QED  BY <1>1, <3>1, <3>2, <3>3, <3>4, <3>5
  <2>2. CASE d # c
    <3>1. PICK j \in Known : j = blobs[d].msg /\ blobs'[d].msg = j /\ blobs[d] # None
      BY <1>13, <2>2 DEF Typing, InHand, RowsKnown
    <3>2. j # n  BY <1>7, <3>1 DEF Used
    <3>3. /\ \A b \in Blob : blobs[b] # None /\ blobs[b].msg = j => b = d
          /\ \A b \in Blob : Got(b) # None /\ Got(b).msg = j => b = d
          /\ \A q \in Put : put[q] # None /\ put[q].old = j => put[q].blob = d
          /\ \A e \in Eraser : eraser[e] # None =>
               \A x \in eraser[e].rows : x[2] = j => <<eraser[e].upload, x[1]>> = d
          /\ j \notin job.trash
      BY <1>1, <3>1 DEF PiecesInv, RowInv
    <3>4. j # k  BY <1>8, <2>2, <3>3
    <3>5. \A b \in Blob : blobs'[b] # None /\ blobs'[b].msg = j => b = d  BY <1>10, <1>13, <3>2, <3>3
    <3>6. \A b \in Blob : Got(b)' # None /\ Got(b)'.msg = j => b = d  BY <1>17, <3>3
    <3>7. j \notin job'.trash  BY <1>14, <3>3, <3>4
    <3> QED  BY <1>1, <3>1, <3>3, <3>5, <3>6, <3>7
  <2> QED  BY <2>1, <2>2
<1>22. \A b \in Blob : /\ b[1] \in Upload
                       /\ blobs'[b] # None <=> blobs[b] # None
                       /\ blobs[b] # None => blobs'[b].hash = blobs[b].hash /\ blobs'[b].deleted = blobs[b].deleted
  BY <1>8, <1>10, <1>11, <1>13 DEF Blob
<1>23. HashInv'
  <2>1. ASSUME NEW b \in Blob, blobs'[b] # None
        PROVE  blobs'[b].hash <= client'[b[1]].session /\ (blobs'[b].deleted => Ended(b[1])')
    BY <1>1, <1>18, <1>22, <2>1 DEF PiecesInv, HashInv
  <2>2. \A p \in Put : put'[p] # None => put'[p].hash <= client'[put'[p].blob[1]].session
    BY <1>1 DEF PiecesInv, HashInv
  <2> QED  BY <2>1, <2>2 DEF HashInv
<1>24. PutInv'
  <2> SUFFICES ASSUME NEW q \in Put, put'[q] # None, put'[q].blob \notin raced'
               PROVE  /\ \A t \in Put : t # q /\ put'[t] # None => put'[t].blob # put'[q].blob
                      /\ Got(put[q].blob)' = None
                      /\ blobs'[put'[q].blob] # None =>
                           blobs'[put'[q].blob].hash # client'[put'[q].blob[1]].session \/ Ended(put[q].blob[1])'
    BY DEF PutInv
  <2>1. Got(put[q].blob)' = Got(put[q].blob)  BY <1>1 DEF Got
  <2>2. Ended(put[q].blob[1])' <=> Ended(put[q].blob[1])  BY <1>1 DEF Ended, State
  <2>3. put[q].blob \in Blob  BY <1>1, InProgress
  <2> QED  BY <1>1, <1>22, <2>1, <2>2, <2>3 DEF PiecesInv, PutInv
<1>25. PieceInv'
  <2> SUFFICES ASSUME NEW b \in Blob, b \notin raced', ~Ended(b[1])'
               PROVE  /\ blobs'[b] # None /\ blobs'[b].hash = client'[b[1]].session => messages'[blobs'[b].msg].live
                      /\ Got(b)' # None =>
                           /\ blobs'[b] # None /\ messages'[blobs'[b].msg].live
                           /\ blobs'[b].hash = Got(b)'.hash
                           /\ blobs'[b].msg = Got(b)'.msg \/ [msg |-> Got(b)'.msg, blob |-> b] \in aliases'
    BY DEF PieceInv
  <2>1. ~Ended(b[1]) /\ b \notin raced  BY <1>1, <1>18, <1>22
  <2>2. /\ blobs[b] # None /\ blobs[b].hash = client[b[1]].session => messages[blobs[b].msg].live
        /\ Got(b) # None =>
             /\ blobs[b] # None /\ messages[blobs[b].msg].live
             /\ blobs[b].hash = Got(b).hash
             /\ blobs[b].msg = Got(b).msg \/ [msg |-> Got(b).msg, blob |-> b] \in aliases
    BY <2>1 DEF PiecesInv, PieceInv
  <2>3. blobs'[b] # None /\ messages[blobs[b].msg].live => messages'[blobs'[b].msg].live
    BY <1>1, <1>7, <1>10, <1>13
  <2>4. ASSUME Got(b) # None
        PROVE  blobs'[b].msg = Got(b).msg \/ [msg |-> Got(b).msg, blob |-> b] \in aliases'
    <3>1. CASE blobs[b].msg = Got(b).msg
      <4>1. CASE b = c  BY <1>8, <1>15, <1>16, <3>1, <4>1
      <4>2. CASE b # c  BY <1>13, <3>1, <4>2
      <4> QED  BY <4>1, <4>2
    <3>2. CASE [msg |-> Got(b).msg, blob |-> b] \in aliases
      <4>1. CASE Got(b).msg # k  BY <1>15, <3>2, <4>1
      <4>2. CASE Got(b).msg = k
        <5>1. b = c  BY <1>8, <2>4, <4>2 DEF PiecesInv, RowInv
        <5> QED  BY <1>15, <1>16, <4>2, <5>1
      <4> QED  BY <4>1, <4>2
    <3> QED  BY <2>2, <2>4, <3>1, <3>2
  <2> QED  BY <1>1, <1>17, <1>22, <2>2, <2>3, <2>4
<1> QED  BY <1>20, <1>21, <1>23, <1>24, <1>25 DEF PiecesInv

LEMMA InitPieces == Init => PiecesInv
<1> SUFFICES ASSUME Init  PROVE PiecesInv
  OBVIOUS
<1>1. \A b \in Blob : blobs[b] = None  BY DEF Init
<1>2. \A b \in Blob : Got(b) = None
  <2>1. PICK safe \in [Upload -> BOOLEAN] :
          client = [u \in Upload |-> [at |-> "new", safe |-> safe[u], session |-> 1, got |-> NoAnswers]]
    BY DEF Init
  <2> QED  BY <2>1 DEF Got, NoAnswers, Blob
<1>3. (\A p \in Put : put[p] = None) /\ job = None  BY DEF Init
<1> QED  BY <1>1, <1>2, <1>3 DEF PiecesInv, NewInv, RowInv, HashInv, PutInv, PieceInv

LEMMA NextPieces ==
  Typing /\ Typing' /\ UploadInv /\ PiecesInv /\ EndedLasts /\ [Next]_vars => PiecesInv'
<1> SUFFICES ASSUME Typing, Typing', UploadInv, PiecesInv, EndedLasts, [Next]_vars  PROVE PiecesInv'
  OBVIOUS
<1>1. ASSUME BindsNothing  PROVE PiecesInv'  BY <1>1, BindsNothingKeeps
<1>2. CASE UNCHANGED vars
  <2>1. BindsNothing  BY <1>2, Idling DEF vars, db, tasks, history, BindsNothing
  <2> QED  BY <1>1, <2>1
<1>3. ASSUME NEW p \in Put, OfPut(p)  PROVE PiecesInv'
  <2>1. CASE (PutPosted(p) \/ PutReplaced(p)) /\ Store(p)
    <3>1. /\ put[p] # None /\ put[p].at \in {"posted", "replaced"}
          /\ UNCHANGED <<uploads, aliases, hooks, messages, leased, tick, eraser, job, history>>
      BY <2>1 DEF PutPosted, PutReplaced
    <3> QED  BY <2>1, <3>1, StoreBinds
  <2>2. CASE PutLands(p) /\ ~UNCHANGED put  BY <2>2, LandsBinds
  <2>3. CASE ~((PutPosted(p) \/ PutReplaced(p)) /\ Store(p)) /\ (~PutLands(p) \/ UNCHANGED put)
    BY <1>1, <1>3, <2>3, PutKeeps
  <2> QED  BY <2>1, <2>2, <2>3
<1>4. CASE Mover
  <2>1. CASE JobCopies /\ ~(job' = None /\ UNCHANGED messages)  BY <2>1, CopyBinds
  <2>2. CASE JobSwitches /\ StillThere(job.row)  BY <2>2, SwitchBinds
  <2>3. CASE /\ ~JobCopies \/ (job' = None /\ UNCHANGED messages)
             /\ ~JobSwitches \/ ~StillThere(job.row)
    BY <1>1, <1>4, <2>3, MoverKeeps
  <2> QED  BY <2>1, <2>2, <2>3
<1>5. CASE \E u \in Upload : OfUpload(u)  BY <1>1, <1>5, UploadKeeps
<1>6. CASE \E e \in Eraser : OfEraser(e)  BY <1>1, <1>6, EraserKeeps
<1>7. CASE \E h \in Hook : OfHook(h)  BY <1>1, <1>7, HookKeeps
<1>8. CASE Tick  BY <1>1, <1>8, TickKeeps
<1>9. CASE RestartServer  BY <1>1, <1>9, RestartKeeps
<1> QED  BY <1>2, <1>3, <1>4, <1>5, <1>6, <1>7, <1>8, <1>9 DEF Next

-----------------------------------------------------------------------------
(* What clients are promised                                               *)

IInv == Typing /\ UploadInv /\ PiecesInv

LEMMA IInvHolds == Spec => []IInv
<1>1. Init => IInv  BY InitTyping, InitUploads, InitPieces DEF IInv
<1>2. IInv /\ [Next]_vars => IInv'
  <2> SUFFICES ASSUME IInv, [Next]_vars  PROVE IInv'
    OBVIOUS
  <2>1. Typing'  BY NextTyping DEF IInv
  <2>2. UploadInv' /\ EndedLasts  BY <2>1, NextUploads DEF IInv
  <2>3. PiecesInv'  BY <2>1, <2>2, NextPieces DEF IInv
  <2> QED  BY <2>1, <2>2, <2>3 DEF IInv
<1> QED  BY <1>1, <1>2, PTL DEF Spec

\* Answers to a piece that were not crossed stand for the stored row.
LEMMA AnswersStand == IInv => AnswerStands
<1> SUFFICES ASSUME IInv, NEW u \in Upload, NEW i \in Piece, Answered(u, i), <<u, i>> \notin raced
             PROVE  Stands(client[u].got[i])
  BY DEF AnswerStands
<1> DEFINE b == <<u, i>>
           a == client[u].got[i]
<1>1. b \in Blob /\ b[1] = u /\ Got(b) = a /\ a # None  BY DEF Blob, Got, Answered
<1>2. ~Ended(u)  BY DEF Answered, Ended, Tombstones, LetGo
<1>3. /\ blobs[b] # None /\ blobs[b].hash = a.hash
      /\ blobs[b].msg = a.msg \/ [msg |-> a.msg, blob |-> b] \in aliases
  BY <1>1, <1>2 DEF IInv, PiecesInv, PieceInv
<1>4. Stored(b)  BY <1>1, <1>2, <1>3 DEF IInv, PiecesInv, HashInv, Stored
<1> HIDE DEF b, a
<1>5. \A c \in Blob : Stored(c) /\ blobs[c].msg = a.msg => b = c
  BY <1>1 DEF IInv, PiecesInv, RowInv, Stored
<1>6. b \in Resolve(a.msg)
  <2>1. CASE blobs[b].msg = a.msg  BY <1>1, <1>4, <2>1 DEF Resolve
  <2>2. CASE blobs[b].msg # a.msg
    <3>1. {c \in Blob : Stored(c) /\ blobs[c].msg = a.msg} = {}  BY <1>5, <2>2
    <3> QED  BY <1>1, <1>3, <1>4, <2>2, <3>1 DEF Resolve
  <2> QED  BY <2>1, <2>2
<1>7. Stands(a)  BY <1>3, <1>6 DEF Stands
<1> QED  BY <1>7 DEF a

\* What a client was answered for a piece (PUT of a blob) goes on standing for
\* the stored blob with the same bytes through any moves of its channel.
THEOREM AnswersHold == Spec => []AnswerStands
BY IInvHolds, AnswersStand, PTL

LEMMA BytesAreThere == IInv => BytesStay
<1> SUFFICES ASSUME IInv, NEW u \in Upload, client[u].at = "bound", u \notin torn
             PROVE  /\ State(u) \in {"final", "committed"}
                    /\ \A i \in Piece : <<u, i>> \notin raced =>
                         Stored(<<u, i>>) /\ messages[blobs[<<u, i>>].msg].live
  BY DEF BytesStay
<1>1. State(u) = "committed" /\ \A i \in Piece : client[u].got[i] # None
  BY DEF IInv, UploadInv, Agrees
<1>2. ~Ended(u)  BY <1>1 DEF Ended, Tombstones, LetGo
<1>3. ASSUME NEW i \in Piece, <<u, i>> \notin raced
      PROVE  Stored(<<u, i>>) /\ messages[blobs[<<u, i>>].msg].live
  <2> DEFINE b == <<u, i>>
  <2>1. b \in Blob /\ b[1] = u /\ Got(b) # None  BY <1>1 DEF Blob, Got
  <2>2. blobs[b] # None /\ messages[blobs[b].msg].live
    BY <1>2, <1>3, <2>1 DEF IInv, PiecesInv, PieceInv
  <2>3. ~blobs[b].deleted  BY <1>2, <2>1, <2>2 DEF IInv, PiecesInv, HashInv
  <2> QED  BY <2>2, <2>3 DEF Stored
<1> QED  BY <1>1, <1>3

\* An upload that a version of a file names is neither reaped nor cancelled,
\* and its pieces keep their rows and bytes.
THEOREM BytesHold == Spec => []BytesStay
BY IInvHolds, BytesAreThere, PTL
=============================================================================
