-------------------------------- MODULE Chat --------------------------------
(***************************************************************************)
(* The dashboard's chat: folders, conversations and messages               *)
(* (server/src/chat/store.ts) and the route that answers a turn through    *)
(* the gateway (chat/routes.ts), which forwards the chunks to the browser  *)
(* and collects them for the stored answer (chat/sse.ts).  The browser's   *)
(* reader of the stream is web/src/api/chat.ts.  A turn is a Gateway       *)
(* request of the set Chat; a piece of text is the target it came from.    *)
(***************************************************************************)
EXTENDS Gateway

CONSTANTS Conversation, NoConversation, Folder, NoFolder

ASSUME ChatConstants == NoFolder \notin Folder /\ NoConversation \notin Conversation

VARIABLES
  folder,        \* existing folders
  conv,          \* per conversation: its row; "none" before it is made, "deleted" after
  msgs,          \* rows of chat_messages in order of insertion; attachments are left out
  turn           \* per chat request: its conversation once the user message is stored

chatVars == <<folder, conv, msgs, turn>>
vars == <<gatewayVars, chatVars>>

\* An edit of the store, bounded with the other moves.
Edit == Counted /\ UNCHANGED <<served, node, rr, requestVars, firsts, seconds, turn>>

Live(c) == conv[c].is = "live"
NoRow == [is |-> "none", folder |-> NoFolder]

----------------------------------------------------------------------------
(* Reading an event stream, as both ends do: a line at a time.             *)

Clean == [text |-> <<>>, tail |-> NoTarget]

\* One chunk: a line that begins inside an unfinished one of another engine is
\* lost with it.
Feed(reader, e) ==
  LET mine == reader.tail = IF e.part = "last" THEN e.by ELSE NoTarget
      text == IF e.status = "ok" /\ e.part # "first" /\ mine THEN <<e.by>> ELSE <<>>
  IN [text |-> reader.text \o text,
      tail |-> IF e.part # "first" THEN NoTarget
               ELSE IF reader.tail = NoTarget THEN e.by ELSE reader.tail]

\* A reader that is given all chunks but those of answers with a skipped status.
Reader(chunks, skipped) ==
  LET upto[i \in 0..Len(chunks)] ==
        IF i = 0 THEN Clean
        ELSE IF chunks[i].status \in skipped THEN upto[i - 1]
        ELSE Feed(upto[i - 1], chunks[i])
  IN upto[Len(chunks)]

\* What the browser shows of a turn, and what the server has collected.
Shown(chunks) == Reader(chunks, {"failed"})

\* Fault: only the last engine's chunks are collected.
CollectedLast(chunks) ==
  Reader(Only(chunks, {e \in Range(chunks) : e.by = chunks[Len(chunks)].by}), {})

Collected(chunks) == Reader(chunks, {})

----------------------------------------------------------------------------
(* The store.                                                              *)

CreateFolder == Edit /\ (\E f \in Folder \ folder : folder' = folder \cup {f}) /\ UNCHANGED <<conv, msgs>>

\* The conversations are kept and detached (ON DELETE SET NULL).
DeleteFolder ==
  /\ \E f \in folder :
       /\ folder' = folder \ {f}
       /\ conv' = [c \in Conversation |->
                     IF conv[c].folder = f THEN [conv[c] EXCEPT !.folder = NoFolder] ELSE conv[c]]
  /\ Edit /\ UNCHANGED msgs

CreateConversation(c) ==
  /\ conv[c].is = "none"
  /\ \E f \in folder \cup {NoFolder} : conv' = [conv EXCEPT ![c] = [is |-> "live", folder |-> f]]
  /\ UNCHANGED <<folder, msgs, turn, gatewayVars>>

PatchConversation(c) ==
  /\ Live(c) /\ \E f \in folder \cup {NoFolder} : conv' = [conv EXCEPT ![c].folder = f]
  /\ Edit /\ UNCHANGED <<folder, msgs>>

\* Messages and attachments go with it (ON DELETE CASCADE).
DeleteConversation(c) ==
  /\ Live(c) /\ conv' = [conv EXCEPT ![c] = [NoRow EXCEPT !.is = "deleted"]]
  /\ msgs' = Only(msgs, {m \in Range(msgs) : m.conv # c})
  /\ UNCHANGED <<folder, turn, gatewayVars>>

Row(c, r, role, text, error) == [conv |-> c, turn |-> r, role |-> role, text |-> text, error |-> error]

\* appendMessage refuses an unknown conversation.
Append1(rows, m) == IF Live(m.conv) THEN Append(rows, m) ELSE rows

----------------------------------------------------------------------------
(* A turn.                                                                 *)

Answer(c, r, chunks, status) ==
  LET text == Collected(chunks).text
  IN Row(c, r, "assistant", text, status # "ok" \/ text = <<>>)

\* Fault: an answer without text is not stored.
SettleSilent(r, rows, c) ==
  msgs' = IF at'[r] = "done" /\ Collected(heard'[r]).text # <<>>
          THEN Append1(rows, Answer(c, r, heard'[r], reply'[r])) ELSE rows

\* Fault: the answer is inserted whether or not the conversation is still there.
SettleAlways(r, rows, c) ==
  msgs' = IF at'[r] = "done" THEN Append(rows, Answer(c, r, heard'[r], reply'[r])) ELSE rows

\* When the gateway has returned, the answer is stored in the same step.
Settle(r, rows, c) ==
  msgs' = IF at'[r] = "done" THEN Append1(rows, Answer(c, r, heard'[r], reply'[r])) ELSE rows

\* addAttachment takes an image up to 8 MiB.
Fits(image) == image # "large"

\* Images go only to a model marked for them.
Sees == served # NoModel /\ served.vision

\* POST /api/chat/conversations/:id/messages, to its first await: the checks,
\* the user message, its image (none, one that fits, one that is too large) and the
\* gateway.  Titles are left out.
PostMessage(r, c, image) ==
  /\ at[r] = "new" /\ r \in Chat
  /\ \/ /\ ~Live(c) /\ Close(r, "unknownConversation")
        /\ UNCHANGED <<conv, msgs, turn, rr, firsts, seconds>>
     \/ /\ Live(c) /\ image # "none" /\ ~Sees
        /\ Close(r, "notVision") /\ UNCHANGED <<conv, msgs, turn, rr, firsts, seconds>>
     \/ /\ Live(c) /\ image # "none" /\ ~Fits(image) /\ Sees
        /\ Close(r, "tooLarge")
        /\ msgs' = Append(msgs, Row(c, r, "user", <<>>, FALSE))
        /\ UNCHANGED <<conv, turn, rr, firsts, seconds>>
     \/ /\ Live(c) /\ (image = "none" \/ (Fits(image) /\ Sees))
        /\ Begin(r)
        /\ turn' = [turn EXCEPT ![r] = c]
        /\ UNCHANGED conv
        /\ Settle(r, Append(msgs, Row(c, r, "user", <<>>, FALSE)), c)
  /\ UNCHANGED <<served, node, moves, folder>>

TurnStep(r) ==
  /\ r \in Chat /\ (RequestStep(r) \/ Chunk(r))
  /\ \E c \in Conversation : turn[r] = c /\ Settle(r, msgs, c)
  /\ UNCHANGED <<folder, conv, turn>>

ApiStep(r) == r \notin Chat /\ (Arrive(r) \/ RequestStep(r)) /\ UNCHANGED chatVars

Environment == (NodeMoves \/ SaveModel \/ RemoveModel \/ GatewayRestart) /\ UNCHANGED chatVars

Init ==
  /\ GatewayInit /\ folder \in SUBSET Folder /\ msgs = <<>>
  /\ conv = [c \in Conversation |-> NoRow]
  /\ turn = [r \in Chat |-> NoConversation]

Next ==
  \/ CreateFolder \/ DeleteFolder
  \/ \E c \in Conversation : CreateConversation(c) \/ PatchConversation(c) \/ DeleteConversation(c)
  \/ \E r \in Chat, c \in Conversation, image \in {"none", "fits", "large"} : PostMessage(r, c, image)
  \/ \E r \in Request : TurnStep(r) \/ ApiStep(r)
  \/ Environment

\* The server's own steps: engines answer or are aborted after 300 s, the
\* warm-up wait has a deadline, and the chain's loop runs on.
Spec == Init /\ [][Next]_vars
FairSpec == Spec /\ \A r \in Chat : WF_vars(TurnStep(r))

----------------------------------------------------------------------------
TypeOK ==
  /\ served \in Offered \cup {NoModel} /\ rr \in Nat /\ moves \in 0..MaxMoves
  /\ node \in [Target -> [health : Health, host : BOOLEAN]]
  /\ at \in [Request -> Phase] /\ firsts \in [Target -> Nat] /\ seconds \in [Target -> Nat]
  /\ folder \subseteq Folder /\ turn \in [Chat -> Conversation \cup {NoConversation}]
  /\ conv \in [Conversation -> [is : {"none", "live", "deleted"}, folder : Folder \cup {NoFolder}]]

Rank(h) == CHOOSE i \in 1..4 : HealthOrder[i] = h

\* Failover order.  A request tries each target of the record it was given at
\* most once and never one that ranked worse before one that ranked better, by
\* the health it resolved its route with; and it is told that no upstream is
\* left (502) only after it has tried them all.
HealthierFirst ==
  \A r \in Request :
    LET grade(t) == Rank(route[r].seen[t])
        chosen == Range(tried[r])
    IN at[r] # "new" /\ route[r] # NoRoute =>
         /\ IsInjective(tried[r])
         /\ \A i \in 1..Len(tried[r]) : \A j \in 1..(i - 1) : grade(tried[r][j]) <= grade(tried[r][i])
         /\ \A t \in chosen, u \in Range(route[r].model.targets) \ chosen : grade(t) <= grade(u)
         /\ reply[r] = "noUpstream" => chosen = Range(route[r].model.targets)

Heads(t) == firsts[t] + seconds[t]

\* Round robin.  As long as neither health nor the model changes, no target
\* heads more requests' chains than another one of its class does, up to one and
\* up to those it heads after a warm-up, however requests overlap.  The second
\* resolution does not advance the counter (gateway.ts:168): those who waited
\* head the chain that the next new request heads.
RoundRobin ==
  served # NoModel =>
    \A t, u \in Range(served.targets) :
      node[t].health = node[u].health => Heads(t) <= Heads(u) + 1 + seconds[t]

\* Routing, of one request and among the requests that overlap (servedModels.ts:48-101,
\* gateway.ts:183-243).
RoutedWell == HealthierFirst /\ RoundRobin

\* The store.  A message belongs to a conversation that exists, a conversation's
\* folder exists, and a turn has at most one answer, after its question and in
\* its conversation, whatever was deleted while the engine was answering.
StoreSound ==
  /\ \A c \in Conversation : Live(c) => conv[c].folder \in folder \cup {NoFolder}
  /\ \A i \in 1..Len(msgs) :
       /\ Live(msgs[i].conv)
       /\ msgs[i].role = "assistant" =>
            /\ \E j \in 1..(i - 1) : /\ msgs[j].role = "user" /\ msgs[j].turn = msgs[i].turn
                                      /\ msgs[j].conv = msgs[i].conv
            /\ \A j \in 1..Len(msgs) : msgs[j].turn = msgs[i].turn /\ msgs[j].role = "assistant" => j = i

\* What the user watched arriving is what the conversation shows when it is
\* opened again, unless the body of an engine that failed with a 5xx, which the
\* browser never gets, left an unfinished line in the collector or ended one
\* (chat/sse.ts: "while the same chunks stream to the browser").
ShownIsStored ==
  \A i \in 1..Len(msgs) :
    LET chunks == heard[msgs[i].turn]
        OpenLine(k) == chunks[k].part = "first"
    IN msgs[i].role = "assistant" /\ msgs[i].text # Shown(chunks).text =>
         \E k \in 1..Len(chunks) :
           chunks[k].status = "failed" /\ (OpenLine(k) \/ (k > 1 /\ OpenLine(k - 1)))

\* Every accepted question gets a stored answer, if only an error, unless its
\* conversation is deleted or the dashboard restarts meanwhile.
QuestionsAreAnswered ==
  \A r \in Chat, c \in Conversation :
    turn[r] = c ~>
      \/ \E i \in 1..Len(msgs) : msgs[i].turn = r /\ msgs[i].role = "assistant"
      \/ ~Live(c)
      \/ at[r] = "lost"
=============================================================================
