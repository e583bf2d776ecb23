---------------------------- MODULE MessageMedia ----------------------------
(***************************************************************************)
(* The media of chat messages: rows in the database that the gateway and   *)
(* the plugin share, files in a directory of the gateway.  An upload is    *)
(* announced (a pending row), received into a temporary file, renamed      *)
(* among the objects and finalized; a message takes ready media along; a   *)
(* sweep, the pruning of old messages and the removal of a user delete     *)
(* rows and leave the keys of their files in a queue.                      *)
(*                                                                         *)
(* A gateway handler runs to its end without another of the gateway        *)
(* between its calls, but the plugin's transactions come between, and the  *)
(* gateway may be killed after any call.  Sizes, types and names are left  *)
(* out: a check of them is a choice.                                       *)
(***************************************************************************)
EXTENDS Integers, FiniteSets, SequencesExt

CONSTANTS
  Users,
  Admin,         \* one of them, the main user
  Nobody,        \* no user
  MaxMedia,      \* bound: uploads announced
  MaxPuts,       \* bound: transfers
  MaxMessages,   \* bound: messages sent
  MaxCrashes,    \* bound: kills of the gateway
  MaxUnbound,    \* MEDIA_MAX_PENDING_ASSETS_PER_USER
  MaxActive,     \* MEDIA_MAX_CONCURRENT_UPLOADS
  KeptMessages,  \* MESSAGES_MAX_ROWS
  PruneEvery,    \* MESSAGES_PRUNE_EVERY
  MaxQueue,      \* PENDING_MEDIA_REMOVALS_MAX
  DrainMax       \* PENDING_MEDIA_DRAIN_MAX

Medium == 1 .. MaxMedia
Put == 1 .. MaxPuts
Message == 1 .. MaxMessages
None == 0

VARIABLES
  row,         \* media_assets: state, owner, storage key (the transfer), expired
  link,        \* message_media: the message that holds the medium
  message,     \* messages: sender and recipient (Nobody is everybody)
  inserts,     \* messageInsertCount
  queue,       \* pending_media_removals
  put,         \* the transfers: medium, user, state
  temps,       \* files under tmp/, by the transfer that wrote them
  objects,     \* files under objects/
  step,        \* what the gateway is in the middle of
  hand,        \* the keys it is about to unlink
  remove,      \* removal of a user by the plugin: user, state, keys
  crashes,
  lost         \* keys in a hand at a kill, fallen out of the queue, or of files
               \* that could not be unlinked once the queue had given them up

database == <<row, link, message, queue>>
transfers == <<put, temps, objects>>
vars == <<database, inserts, transfers, step, hand, remove, crashes, lost>>

MediaAssumption ==
  {MaxMedia, MaxPuts, MaxMessages, MaxQueue, DrainMax} \subseteq Nat

Idle == step = "idle"
Nothing == [state |-> "none", by |-> Nobody, key |-> None, expired |-> FALSE]
Gone == [Nothing EXCEPT !.state = "gone"]
Unsent == [state |-> "none", from |-> Nobody, to |-> Nobody]
Deleted == [Unsent EXCEPT !.state = "gone"]
Sent(k) == message[k].state = "sent"

Holds(m) == link[m] # None
Unbound(u) ==
  {m \in Medium : /\ row[m].by = u /\ ~row[m].expired
                  /\ \/ row[m].state = "pending"
                     \/ row[m].state = "ready" /\ ~Holds(m)}
Over(p) == [put[p] EXCEPT !.state = "over", !.by = Nobody]
Active(u) == {p \in Put : put[p].state = "open" /\ put[p].by = u}

------------------------------------------------------------------------------
(* enqueueMediaRemovalInTransaction(): keys of files only, and the oldest  *)
(* are dropped beyond the limit.                                           *)
Enqueued(media) ==
  LET keys == SetToSeq({row[m].key : m \in media} \ ({None} \cup ToSet(queue)))
      all == queue \o keys
      over == IF Len(all) > MaxQueue THEN Len(all) - MaxQueue ELSE 0
  IN  /\ queue' = SubSeq(all, over + 1, Len(all))
      /\ lost' = lost \cup {all[i] : i \in 1 .. over}

(* Rows leave the table with their relations and their keys are queued.    *)
(* Slip: the keys are left to the caller.                                  *)
DropUnqueued(media, unlinked) ==
  /\ row' = [m \in Medium |-> IF m \in media THEN Gone ELSE row[m]]
  /\ link' = [m \in Medium |-> IF m \in media \cup unlinked THEN None ELSE link[m]]
  /\ UNCHANGED <<queue, lost>>

Drop(media, unlinked) ==
  /\ row' = [m \in Medium |-> IF m \in media THEN Gone ELSE row[m]]
  /\ link' = [m \in Medium |-> IF m \in media \cup unlinked THEN None ELSE link[m]]
  /\ Enqueued(media)

Doomed(sent) == {k \in sent : Cardinality({n \in sent : n > k}) >= KeptMessages}

(* releaseMessageMedia() and the deletion of the messages                  *)
Discard(doomed) ==
  LET media == {m \in Medium : link[m] \in doomed}
  IN  /\ Drop(media, {})
      /\ message' = [k \in Message |-> IF k \in doomed THEN Deleted ELSE message[k]]

------------------------------------------------------------------------------
(* POST /message-media/init                                                *)
Announce(u, m) ==
  /\ Idle
  /\ row[m].state = "none"
  /\ (\A n \in 1 .. m - 1 : row[n].state # "none")
  /\ Cardinality(Unbound(u)) < MaxUnbound
  /\ Cardinality(Active(u)) < MaxActive
  /\ row' = [row EXCEPT ![m] = [Nothing EXCEPT !.state = "pending", !.by = u]]
  /\ UNCHANGED <<link, message, queue, inserts, transfers, step, hand, remove, crashes, lost>>

(* expires_at passes: half an hour after the announcement, thirty days     *)
(* after the upload.                                                       *)
Expire(m) ==
  /\ row[m].state \in {"pending", "ready", "failed"} /\ ~row[m].expired
  /\ row' = [row EXCEPT ![m].expired = TRUE]
  /\ UNCHANGED <<link, message, queue, inserts, transfers, step, hand, remove, crashes, lost>>

(* failMediaUpload()                                                       *)
Failed(m) == IF row[m].state = "pending" THEN [row EXCEPT ![m].state = "failed"] ELSE row

(* PUT /message-media/:id: the checks, each of which but the limit on      *)
(* concurrent uploads fails the medium, and the temporary file.            *)
Open(p, m) ==
  /\ Idle
  /\ put[p].state = "new"
  /\ (\A q \in 1 .. p - 1 : put[q].state # "new")
  /\ row[m].state = "pending"
  /\ \/ /\ Cardinality(Active(row[m].by)) < MaxActive
        /\ put' = [put EXCEPT ![p] = [of |-> m, by |-> row[m].by, state |-> "open"]]
        /\ temps' = temps \cup {p} /\ UNCHANGED row
     \/ /\ put' = [put EXCEPT ![p] = [of |-> m, by |-> Nobody, state |-> "over"]]
        /\ row' = Failed(m) /\ UNCHANGED temps
  /\ UNCHANGED <<link, message, queue, inserts, objects, step, hand, remove, crashes, lost>>

(* finishFailure(): timeout, abort, wrong content, an error of the disk.   *)
(* The temporary file stays when it cannot be unlinked.                    *)
Fail(p) ==
  /\ Idle /\ put[p].state = "open"
  /\ put' = [put EXCEPT ![p] = Over(p)]
  /\ temps' \in {temps, temps \ {p}} /\ row' = Failed(put[p].of)
  /\ UNCHANGED <<link, message, queue, inserts, objects, step, hand, remove, crashes, lost>>

(* finishSuccess(): renamed, then finalized.                               *)
Rename(p) ==
  /\ Idle /\ put[p].state = "open"
  /\ put' = [put EXCEPT ![p] = Over(p)]
  /\ temps' = temps \ {p} /\ objects' = objects \cup {p}
  /\ step' = "renamed" /\ hand' = {p}
  /\ UNCHANGED <<database, inserts, remove, crashes, lost>>

(* finalizeMediaAsset(). Slip: it also takes a row that is ready.          *)
MayFinalizeReady(m) == row[m].state \in {"pending", "ready"}
MayFinalize(m) == row[m].state = "pending"

Finalize(p) ==
  LET m == put[p].of
  IN  /\ step = "renamed" /\ hand = {p}
      /\ \/ /\ MayFinalize(m)
            /\ row' = [row EXCEPT ![m] = [state |-> "ready", by |-> row[m].by, key |-> p, expired |-> FALSE]]
            /\ step' = "idle" /\ hand' = {}
         \/ step' = "unlink" /\ UNCHANGED <<row, hand>>  \* refused, or the database fails
      /\ UNCHANGED <<link, message, queue, inserts, transfers, remove, crashes, lost>>

(* unlinkMediaFiles(), and the unlinkSync() of a refused upload: a failure *)
(* is swallowed, and only the queue would ever try that file again.        *)
Unlink ==
  /\ step \in {"unlink", "pruned"}
  /\ \E kept \in SUBSET (hand \cap objects) :
       /\ objects' = objects \ (hand \ kept)
       /\ lost' = lost \cup (kept \ ToSet(queue))
  /\ hand' = {}
  /\ step' = IF step = "pruned" THEN "drain" ELSE "idle"
  /\ UNCHANGED <<database, inserts, put, temps, remove, crashes>>

------------------------------------------------------------------------------
(* attachMediaInTransaction(). Slip: a medium in use is taken again.       *)
AttachableAgain(u, m) == row[m].by = u /\ row[m].state = "ready" /\ ~row[m].expired
Attachable(u, m) == AttachableAgain(u, m) /\ ~Holds(m)

(* addMessageWithMedia(), in a transaction of its own                      *)
Insert(u, to, k, media) ==
  /\ \A m \in media : Attachable(u, m)
  /\ message' = [message EXCEPT ![k] = [state |-> "sent", from |-> u, to |-> to]]
  /\ link' = [m \in Medium |-> IF m \in media THEN k ELSE link[m]]
  /\ inserts' = (inserts + 1) % PruneEvery
  /\ step' = IF inserts' = 0 THEN "prune" ELSE "idle"

(* POST /messages: the main user writes to anybody or to all, the others   *)
(* to the main user.                                                       *)
Addressable(u) == IF u = Admin THEN (Users \ {u}) \cup {Nobody} ELSE {Admin}

Post(u, k, media) ==
  /\ Idle
  /\ message[k].state = "none"
  /\ (\A n \in 1 .. k - 1 : message[n].state # "none")
  /\ \E to \in Addressable(u) : Insert(u, to, k, media)
  /\ UNCHANGED <<row, queue, transfers, hand, remove, crashes, lost>>

(* maybePruneMessages(): its failure is swallowed.                         *)
PruneMessages ==
  /\ step = "prune" /\ step' = "idle"
  /\ \/ Discard(Doomed({k \in Message : Sent(k)}))
     \/ UNCHANGED <<database, lost>>
  /\ UNCHANGED <<inserts, transfers, hand, remove, crashes>>

------------------------------------------------------------------------------
(* pruneMedia(): expired and in no message. Slip: in a message or not.     *)
UnwantedAll == {m \in Medium : row[m].expired}
Unwanted == {m \in Medium : row[m].expired /\ ~Holds(m)}

(* sweepMedia(): its files are unlinked, and then those of the queue.      *)
Sweep ==
  /\ Idle
  /\ Drop(Unwanted, {})
  /\ hand' = {row[m].key : m \in Unwanted} \ {None} /\ step' = "pruned"
  /\ UNCHANGED <<message, inserts, transfers, remove, crashes>>

(* drainPendingMediaRemovals()                                             *)
Drain ==
  /\ step = "drain"
  /\ LET n == IF Len(queue) < DrainMax THEN Len(queue) ELSE DrainMax
     IN  hand' = {queue[i] : i \in 1 .. n} /\ queue' = SubSeq(queue, n + 1, Len(queue))
  /\ step' = "unlink"
  /\ UNCHANGED <<row, link, message, inserts, transfers, remove, crashes, lost>>

(* pruneStaleMediaTemps(): two hours after the last byte, unless it fails. *)
PruneTemps(p) ==
  /\ Idle /\ p \in temps /\ put[p].state # "open"
  /\ temps' = temps \ {p}
  /\ UNCHANGED <<database, inserts, put, objects, step, hand, remove, crashes, lost>>

------------------------------------------------------------------------------
(* POST users/remove of the plugin (the main user stays): the keys are     *)
(* peeked at, the removal awaited, the files unlinked.                     *)
Peek(u) ==
  /\ remove.state = "idle" /\ u # Admin
  /\ remove' = [state |-> "peeked", user |-> u, keys |-> {row[m].key : m \in {n \in Medium : row[n].by = u}} \ {None}]
  /\ UNCHANGED <<database, inserts, transfers, step, hand, crashes, lost>>

(* deleteMediaRelationsOfUser(). Slip: of the media of the user alone.     *)
ReleasedOwn(involved) == {m \in Medium : Holds(m) /\ row[m].by = remove.user}
Released(involved) == {m \in Medium : link[m] \in involved}

(* deleteUser(), or its refusal                                            *)
Delete ==
  /\ remove.state = "peeked"
  /\ \/ /\ remove' = [remove EXCEPT !.state = "deleted"]
        /\ LET involved == {k \in Message : Sent(k) /\ remove.user \in {message[k].from, message[k].to}}
           IN  /\ message' = [k \in Message |-> IF k \in involved THEN Deleted ELSE message[k]]
               /\ Drop({m \in Medium : row[m].by = remove.user}, Released(involved))
     \/ remove' = [state |-> "over", user |-> Nobody, keys |-> {}] /\ UNCHANGED <<database, lost>>
  /\ UNCHANGED <<inserts, transfers, step, hand, crashes>>

(* The keys were queued with the rows: what stays here is tried again.     *)
UnlinkPeeked ==
  /\ remove.state = "deleted"
  /\ \E kept \in SUBSET (remove.keys \cap objects) : objects' = objects \ (remove.keys \ kept)
  /\ remove' = [state |-> "over", user |-> Nobody, keys |-> {}]
  /\ UNCHANGED <<database, inserts, put, temps, step, hand, crashes, lost>>

(* The gateway is killed and started again: transfers end, what it held is *)
(* nobody's.  (Bound: only in the middle of something.)                    *)
Crash ==
  /\ hand # {} \/ \E p \in Put : put[p].state = "open"
  /\ crashes < MaxCrashes /\ crashes' = crashes + 1
  /\ put' = [p \in Put |-> IF put[p].state = "open" THEN Over(p) ELSE put[p]]
  /\ lost' = lost \cup hand /\ hand' = {} /\ step' = "idle" /\ inserts' = 0
  /\ UNCHANGED <<database, temps, objects, remove>>

Init ==
  /\ row = [m \in Medium |-> Nothing] /\ link = [m \in Medium |-> None]
  /\ message = [k \in Message |-> Unsent]
  /\ inserts = 0 /\ queue = <<>> /\ crashes = 0 /\ lost = {}
  /\ put = [p \in Put |-> [of |-> None, by |-> Nobody, state |-> "new"]] /\ temps = {} /\ objects = {}
  /\ step = "idle" /\ hand = {} /\ remove = [state |-> "idle", user |-> Nobody, keys |-> {}]

Next ==
  \/ \E u \in Users, m \in Medium : Announce(u, m)
  \/ \E m \in Medium : Expire(m)
  \/ \E p \in Put, m \in Medium : Open(p, m)
  \/ \E p \in Put : Fail(p) \/ Rename(p) \/ Finalize(p) \/ PruneTemps(p)
  \/ \E u \in Users, k \in Message, media \in SUBSET Medium : Post(u, k, media)
  \/ PruneMessages \/ Sweep \/ Drain \/ Unlink
  \/ \E u \in Users : Peek(u)
  \/ Delete \/ UnlinkPeeked \/ Crash

Spec == Init /\ [][Next]_vars

------------------------------------------------------------------------------
(* mapMessageRows() and listMessageMedia(): what a list shows the user.    *)
Listed(u, m) ==
  /\ Holds(m) /\ Sent(link[m])
  /\ LET k == message[link[m]] IN k.to \in {Nobody, u} \/ k.from = u
  /\ row[m].by = message[link[m]].from /\ row[m].state = "ready" /\ ~row[m].expired

(* serveMessageMedia(): what the gateway sends on request.                 *)
Served(u, m) == Listed(u, m) /\ row[m].key \in objects

(* What a message shows can be fetched: however uploads, sweeps, removals  *)
(* and kills meet, no file goes before its row, no row before its          *)
(* relation, and no relation outlives its message.                         *)
ShownIsServed ==
  \A m \in Medium :
    /\ \A u \in Users : Listed(u, m) => Served(u, m)
    /\ Holds(m) => Sent(link[m]) /\ row[m].state = "ready" /\ row[m].by = message[link[m]].from

(* A file always belongs to a row, to the queue or to whoever is about to  *)
(* unlink it; only a kill, a full queue or a failed unlink of a key the    *)
(* queue has given up may leave one behind.                                *)
NoFileForgotten ==
  objects \subseteq {row[m].key : m \in Medium} \cup ToSet(queue) \cup hand \cup lost

(* A medium once in a message stays in it until message or user is         *)
(* deleted: it is neither given to another nor swept.                      *)
StaysHeld ==
  \A m \in Medium : Holds(m) => link'[m] = link[m] \/ message'[link[m]].state = "gone"
                                \/ (remove.state = "peeked" /\ remove'.state = "deleted" /\ row[m].by = remove.user)

(* A user holds no more media unsent than the quota.                       *)
QuotaHolds == \A u \in Users : Cardinality(Unbound(u)) <= MaxUnbound

==============================================================================
