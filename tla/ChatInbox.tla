----------------------------- MODULE ChatInbox ------------------------------
(***************************************************************************)
(* The list of messages a panel shows.  It asks for what is newer than its *)
(* cursor, in answers of limited length; its own messages come by another  *)
(* way, out of turn; messages are removed meanwhile and the database may   *)
(* be rebuilt, after which the numbers begin anew.  The gateway then says  *)
(* so and the panel begins anew too.                                       *)
(***************************************************************************)
EXTENDS Naturals, FiniteSets, FiniteSetsExt

CONSTANTS
  Limit,         \* messages in an answer (300)
  Kept,          \* messages in the list (200)
  MaxMessages, MaxLosses, MaxRebuilds, \* bounds
  MaxId          \* Date.now(): above every number of the database

VARIABLES
  db,            \* messages this user may see: records [id, uid, own]
  lastId,        \* the database's AUTOINCREMENT
  cursor,        \* lastSeenId
  begun,         \* initializedRef
  list,          \* messages: the same records, and the one being sent
  open,          \* the panel; what comes while it is closed is counted as unread
  poll,          \* [at, since, got, reset]
  post,          \* [at, msg]: a message of its own, and the row it became
  noticed,       \* ghost: the panel knows of the last rebuilding
  counted,       \* ghost: [uid -> times it was counted as unread]
  written, losses, rebuilds

InboxAssumption ==
  /\ {Limit, Kept, MaxMessages, MaxId} \subseteq Nat
  /\ Limit > 0 /\ MaxMessages < MaxId

vars == <<db, lastId, cursor, begun, list, open, poll, post, noticed, counted, written, losses, rebuilds>>

NoPoll == [at |-> "idle", since |-> 0, got |-> {}, reset |-> FALSE]
NoPost == [at |-> "idle", msg |-> {}]
Temp == [id |-> MaxId, uid |-> 0, own |-> TRUE]
IdsOf(S) == {m.id : m \in S}
Newest(S, n) == {m \in S : Cardinality({x \in S : x.id > m.id}) < n}
Oldest(S, n) == {m \in S : Cardinality({x \in S : x.id < m.id}) < n}

(* mergeById(): by number, the last of them.                               *)
Merge(old, new) == Newest({m \in old : m.id \notin IdsOf(new)} \cup new, Kept)

------------------------------------------------------------------------------
(* Somebody writes to this user; a message this user may not see only      *)
(* takes a number. After a rebuilding the numbers stay below the cursor    *)
(* until the panel has noticed: it asks every few seconds.                 *)
Numbered == (noticed \/ lastId + 1 < cursor) /\ written < MaxMessages /\ written' = written + 1 /\ lastId' = lastId + 1
Arrives ==
  /\ Numbered /\ db' = db \cup {[id |-> lastId + 1, uid |-> written + 1, own |-> FALSE]}
  /\ UNCHANGED <<cursor, begun, list, open, poll, post, noticed, counted, losses, rebuilds>>
ArrivesElsewhere ==
  /\ Numbered
  /\ UNCHANGED <<db, cursor, begun, list, open, poll, post, noticed, counted, losses, rebuilds>>

(* Pruned, cleared, or gone with its sender.                               *)
Vanishes ==
  /\ losses < MaxLosses /\ losses' = losses + 1
  /\ \E gone \in (SUBSET db) \ {{}} : db' = db \ gone
  /\ UNCHANGED <<lastId, cursor, begun, list, open, poll, post, noticed, counted, written, rebuilds>>
(* A new database: the gateway has been down, and no answer comes from     *)
(* before.                                                                 *)
Rebuilt ==
  /\ rebuilds < MaxRebuilds /\ rebuilds' = rebuilds + 1 /\ noticed /\ cursor > 0
  /\ db' = {} /\ lastId' = 0 /\ noticed' = FALSE
  /\ poll' = NoPoll /\ post' = NoPost /\ list' = list \ {Temp}
  /\ UNCHANGED <<cursor, begun, open, counted, written, losses>>

------------------------------------------------------------------------------
(* GET /gateway/api/messages. Newer than the cursor come the oldest first. *)
Asks ==
  /\ poll.at = "idle" /\ poll' = [NoPoll EXCEPT !.at = "asked", !.since = cursor]
  /\ UNCHANGED <<db, lastId, cursor, begun, list, open, post, noticed, counted, written, losses, rebuilds>>

Latest == IF db = {} THEN 0 ELSE Max(IdsOf(db))
(* Slip: the newest of them.                                               *)
AfterNewest(since) == Newest({m \in db : m.id > since}, Limit)
After(since) == Oldest({m \in db : m.id > since}, Limit)
(* Slip: an answer without messages is only that.                          *)
BeyondNever(since) == FALSE
Beyond(since) == since > 0 /\ After(since) = {} /\ since > Latest
Answer(since) ==
  IF since = 0 \/ Beyond(since) THEN Newest(db, Limit) ELSE After(since)
Answers ==
  /\ poll.at = "asked"
  /\ poll' = [poll EXCEPT !.at = "answered", !.got = Answer(poll.since), !.reset = Beyond(poll.since)]
  /\ UNCHANGED <<db, lastId, cursor, begun, list, open, post, noticed, counted, written, losses, rebuilds>>

(* The panel takes the answer: isCursorReset(), the count of what is new,  *)
(* the cursor, the list.                                                   *)
Reset == poll.reset \/ (cursor > 0 /\ \E m \in poll.got : m.id <= cursor)
MaxGot == IF poll.got = {} THEN 0 ELSE Max(IdsOf(poll.got))
New == IF ~Reset /\ begun THEN {m \in poll.got : ~m.own /\ m.id > cursor} ELSE {}
(* Slip: the cursor moves only while the panel is open.                    *)
CursorIfOpen == IF Reset THEN MaxGot ELSE IF open /\ MaxGot > cursor THEN MaxGot ELSE cursor
NextCursor == IF Reset THEN MaxGot ELSE IF MaxGot > cursor THEN MaxGot ELSE cursor
Takes ==
  /\ poll.at = "answered" /\ poll' = NoPoll
  /\ cursor' = NextCursor /\ begun' = TRUE
  /\ counted' = [u \in DOMAIN counted |-> counted[u] + (IF ~open /\ u \in {m.uid : m \in New} THEN 1 ELSE 0)]
  /\ list' = IF Reset THEN poll.got ELSE Merge(list, poll.got)
  /\ noticed' = (noticed \/ Reset)
  /\ UNCHANGED <<db, lastId, open, post, written, losses, rebuilds>>
(* No answer, or not the gateway's; or the entry was switched off.         *)
Misses ==
  /\ poll.at # "idle" /\ poll' = NoPoll
  /\ losses < MaxLosses /\ losses' = losses + 1
  /\ UNCHANGED <<db, lastId, cursor, begun, list, open, post, noticed, counted, written, rebuilds>>

------------------------------------------------------------------------------
(* send(): the message is shown at once; its answer replaces it.           *)
Posts ==
  /\ begun /\ post = NoPost /\ post' = [post EXCEPT !.at = "asked"] /\ list' = Merge(list, {Temp})
  /\ UNCHANGED <<db, lastId, cursor, begun, open, poll, noticed, counted, written, losses, rebuilds>>
Stores ==
  /\ post.at = "asked" /\ Numbered
  /\ post' = [at |-> "stored", msg |-> {[id |-> lastId + 1, uid |-> written + 1, own |-> TRUE]}]
  /\ db' = db \cup post'.msg
  /\ UNCHANGED <<cursor, begun, list, open, poll, noticed, counted, losses, rebuilds>>
Confirms ==
  /\ post.at = "stored" /\ post' = NoPost
  /\ list' = Merge(list \ {Temp}, post.msg)
  /\ UNCHANGED <<db, lastId, cursor, begun, open, poll, noticed, counted, written, losses, rebuilds>>
Withdraws ==
  /\ post # NoPost /\ post' = NoPost /\ list' = list \ {Temp}
  /\ UNCHANGED <<db, lastId, cursor, begun, open, poll, noticed, counted, written, losses, rebuilds>>

Opens == /\ ~open /\ open' = TRUE
         /\ UNCHANGED <<db, lastId, cursor, begun, list, poll, post, noticed, counted, written, losses, rebuilds>>
Closes == /\ open /\ open' = FALSE
          /\ UNCHANGED <<db, lastId, cursor, begun, list, poll, post, noticed, counted, written, losses, rebuilds>>

------------------------------------------------------------------------------
Init ==
  /\ db = {} /\ lastId = 0 /\ cursor = 0 /\ begun = FALSE /\ list = {}
  /\ open = FALSE /\ poll = NoPoll /\ post = NoPost /\ noticed = TRUE
  /\ counted = [u \in 1 .. MaxMessages |-> 0]
  /\ written = 0 /\ losses = 0 /\ rebuilds = 0

Next ==
  \/ Arrives \/ ArrivesElsewhere \/ Vanishes \/ Rebuilt
  \/ Asks \/ Answers \/ Takes \/ Misses
  \/ Posts \/ Stores \/ Confirms \/ Withdraws
  \/ Opens \/ Closes

(* The panel asks again and again, and is mostly answered.                 *)
Polls == Asks \/ Answers \/ Takes
Spec == Init /\ [][Next]_vars /\ WF_vars(Polls)

------------------------------------------------------------------------------
(* Between a message of others that is shown and the cursor nothing is     *)
(* missing: an answer too short, a message of its own out of turn, a       *)
(* removal or a rebuilding leave no gap behind the cursor (chat.tsx:607).  *)
NoGap ==
  noticed =>
    \A m \in db, x \in list :
      m.id <= cursor /\ ~x.own /\ x.id < m.id => m \in list

(* A panel learns of a rebuilt database, though its cursor is beyond       *)
(* everything in it and every answer would be empty (messages.ts:133).     *)
Noticed == noticed
RebuildIsNoticed == ~Noticed ~> Noticed

(* No message is announced as unread twice (chat.tsx:599).                 *)
CountedOnce == \A u \in DOMAIN counted : counted[u] <= 1
==============================================================================
