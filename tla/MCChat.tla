---------------------------- MODULE MCChat ----------------------------
(***************************************************************************)
(* Instances of the modules about chat: the media of messages, a panel's   *)
(* uploads, the stream of events to its subscribers and a panel's list.    *)
(* They share no state and are checked side by side: a behaviour is one of *)
(* the module that `part' names, and x1 .. x13 stand for its variables.    *)
(***************************************************************************)
EXTENDS Naturals, Sequences, FiniteSets, TLC, SuiteState

CONSTANTS
  Users, Admin, Nobody, MaxMedia, MaxPuts, MaxMessages, MaxKills,
  MaxUnbound, MaxActive, KeptMessages, PruneEvery, MaxQueue, DrainMax,
  MaxParallel, MaxPerMessage, MaxFiles, MaxPosts, MaxRetries, Client,
  HighWater, MaxPending, Frame, MaxFrames, Limit, MaxShown, MaxIds,
  MaxMisses, MaxRebuilds, MaxId

Media == INSTANCE MessageMedia WITH
  row <- x1, link <- x2, message <- x3, inserts <- x4, queue <- x5,
  put <- x6, temps <- x7, objects <- x8, step <- x9, hand <- x10,
  remove <- x11, crashes <- x12, lost <- x13, MaxCrashes <- MaxKills
Uploads == INSTANCE ChatUploads WITH
  uploads <- x1, runs <- x2, sending <- x3, sent <- x4, cleared <- x5,
  files <- x6, sends <- x7, retries <- x8, MaxSends <- MaxPosts
Streams == INSTANCE ChatStream WITH
  stream <- x1, chatClients <- x2, revocable <- x3, frames <- x4
Inbox == INSTANCE ChatInbox WITH
  db <- x1, lastId <- x2, cursor <- x3, begun <- x4, list <- x5, open <- x6,
  poll <- x7, post <- x8, noticed <- x9, counted <- x10, written <- x11,
  losses <- x12, rebuilds <- x13, MaxMessages <- MaxIds,
  Kept <- MaxShown, MaxLosses <- MaxMisses

ASSUME MediaFit == Media!MediaAssumption
ASSUME UploadsFit == Uploads!UploadsAssumption
ASSUME StreamsFit == Streams!StreamAssumption
ASSUME InboxFits == Inbox!InboxAssumption

------------------------------------------------------------------------------
ChatInit ==
  \/ part = "media" /\ Media!Init /\ x14 = 0 /\ x15 = 0 /\ x16 = 0 /\ x17 = 0
       /\ x18 = 0 /\ x19 = 0 /\ x20 = 0
  \/ part = "uploads" /\ Uploads!Init /\ x9 = 0 /\ x10 = 0 /\ x11 = 0
       /\ x12 = 0 /\ x13 = 0 /\ x14 = 0 /\ x15 = 0 /\ x16 = 0 /\ x17 = 0
       /\ x18 = 0 /\ x19 = 0 /\ x20 = 0
  \/ part = "stream" /\ Streams!Init /\ x5 = 0 /\ x6 = 0 /\ x7 = 0 /\ x8 = 0
       /\ x9 = 0 /\ x10 = 0 /\ x11 = 0 /\ x12 = 0 /\ x13 = 0 /\ x14 = 0
       /\ x15 = 0 /\ x16 = 0 /\ x17 = 0 /\ x18 = 0 /\ x19 = 0 /\ x20 = 0
  \/ part = "inbox" /\ Inbox!Init /\ x14 = 0 /\ x15 = 0 /\ x16 = 0 /\ x17 = 0
       /\ x18 = 0 /\ x19 = 0 /\ x20 = 0

MediaSteps ==
  /\ part = "media" /\ Media!Next
  /\ UNCHANGED <<part, x14, x15, x16, x17, x18, x19, x20>>
UploadsSteps ==
  /\ part = "uploads" /\ Uploads!Next
  /\ UNCHANGED <<part, x9, x10, x11, x12, x13, x14, x15, x16, x17, x18, x19,
       x20>>
StreamsSteps ==
  /\ part = "stream" /\ Streams!Next
  /\ UNCHANGED <<part, x5, x6, x7, x8, x9, x10, x11, x12, x13, x14, x15, x16,
       x17, x18, x19, x20>>
InboxSteps ==
  /\ part = "inbox" /\ Inbox!Next
  /\ UNCHANGED <<part, x14, x15, x16, x17, x18, x19, x20>>

ChatNext ==
  \/ MediaSteps
  \/ UploadsSteps
  \/ StreamsSteps
  \/ InboxSteps

ChatSpec == ChatInit /\ [][ChatNext]_suiteVars

------------------------------------------------------------------------------
(* What a message shows can be fetched, and no file is forgotten but by a  *)
(* kill, a full queue or an unlink that fails when no queue holds the key, *)
(* however uploads, sweeps and removals meet (media.ts, db.ts).            *)
MediaWhole == part = "media" => Media!ShownIsServed /\ Media!NoFileForgotten

(* A medium once in a message stays in it until message or user is         *)
(* deleted: it is neither given to another nor swept (db.ts).              *)
MediaStay == [][part = "media" => Media!StaysHeld]_suiteVars

(* A panel runs as many uploads as it may and no file waits forgotten; a   *)
(* subscriber that does not read is dropped before its backlog grows       *)
(* beyond the bound (chat.tsx, messages.ts).                               *)
ChatLimits ==
  /\ part = "uploads" => Uploads!PlacesAreUsed
  /\ part = "stream" => Streams!SlowOnesAreDropped

(* A panel misses nothing behind its cursor and announces no message twice *)
(* (chat.tsx).                                                             *)
InboxIsWhole == part = "inbox" => Inbox!NoGap /\ Inbox!CountedOnce
==============================================================================
