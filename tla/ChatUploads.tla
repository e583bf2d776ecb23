----------------------------- MODULE ChatUploads -----------------------------
(***************************************************************************)
(* The attachments of the chat panel.  A file is queued, announced and     *)
(* transferred by a function that outlives the row it belongs to: the row  *)
(* may be removed, and the signal that aborts it may lose against the      *)
(* answer.  A free place is filled where one is freed.  A send takes what  *)
(* is ready, waits for its answer, and then clears the list.               *)
(***************************************************************************)
EXTENDS Naturals, Sequences, SequencesExt, FiniteSets

CONSTANTS
  MaxParallel,   \* MAX_PARALLEL_UPLOADS
  MaxPerMessage, \* MAX_MEDIA_PER_MESSAGE
  MaxFiles, MaxSends, MaxRetries \* bounds

VARIABLES
  uploads,       \* uploadsRef.current: rows [id, state]
  runs,          \* uploadOne() under way: records [id, stage, aborted]
  sending,       \* [busy, media, stored]: the ready media the request took
  sent,          \* media that a stored message holds
  cleared,       \* ghost: taken out by a send
  files, sends, retries

vars == <<uploads, runs, sending, sent, cleared, files, sends, retries>>

UploadsAssumption == MaxParallel \in Nat

NoRequest == [busy |-> FALSE, media |-> {}, stored |-> FALSE]
In(list, s) == {i \in DOMAIN list : list[i].state = s}
Running(list) == Cardinality(In(list, "uploading"))
Started(id) == [id |-> id, stage |-> "init", aborted |-> FALSE]

(* The place of i among the positions S.                                   *)
Rank(S, i) == Cardinality({j \in S : j <= i})

(* promoteQueued(): the first queued rows take the free places.            *)
Chosen(list) ==
  {i \in In(list, "queued") : Running(list) + Rank(In(list, "queued"), i) <= MaxParallel}
Begun(list) == [i \in DOMAIN list |-> IF i \in Chosen(list) THEN [list[i] EXCEPT !.state = "uploading"] ELSE list[i]]
Promote(list, others) ==
  /\ uploads' = Begun(list)
  /\ runs' = others \cup {Started(list[i].id) : i \in Chosen(list)}

(* updateUpload(): a row that is gone stays gone.                          *)
With(id, s) == [i \in DOMAIN uploads |-> IF uploads[i].id = id THEN [uploads[i] EXCEPT !.state = s] ELSE uploads[i]]
Abort(id) == {IF r.id = id THEN [r EXCEPT !.aborted = TRUE] ELSE r : r \in runs}

(* addFiles(): all of them or none; it starts the new ones only.           *)
AddFiles ==
  \E n \in 1 .. 2 :
    LET new == [i \in 1 .. n |-> [id |-> files + i, state |-> "queued"]]
    IN /\ files + n <= MaxFiles /\ Len(uploads) + n <= MaxPerMessage
       /\ files' = files + n
       /\ Promote(uploads \o new, runs)
       /\ UNCHANGED <<sending, sent, cleared, sends, retries>>

------------------------------------------------------------------------------
(* uploadOne(): announced, or refused, or aborted before the transfer; an  *)
(* abort there is a failure like any other.                                *)
Announced(r) ==
  /\ r.stage = "init" /\ ~r.aborted
  /\ runs' = (runs \ {r}) \cup {[r EXCEPT !.stage = "put"]}
  /\ UNCHANGED <<uploads, sending, sent, cleared, files, sends, retries>>

Outcomes(r) ==
  IF r.stage = "init" THEN {"failed"}
  ELSE IF r.aborted THEN {"canceled"}
  ELSE {"ready", "failed"}

(* Slip: the place that is freed is not filled.                            *)
SettleAlone(list, others) == uploads' = list /\ runs' = others
(* It settles its row and, whatever came of it, fills the place.           *)
Settle(list, others) == Promote(list, others)

Ends(r) ==
  /\ \E s \in Outcomes(r) : Settle(With(r.id, s), runs \ {r})
  /\ UNCHANGED <<sending, sent, cleared, files, sends, retries>>

Cancel(i) ==
  /\ uploads[i].state = "uploading" /\ runs' = Abort(uploads[i].id) /\ runs' # runs
  /\ UNCHANGED <<uploads, sending, sent, cleared, files, sends, retries>>
Retry(i) ==
  /\ uploads[i].state \in {"failed", "canceled"} /\ retries < MaxRetries /\ retries' = retries + 1
  /\ Promote([uploads EXCEPT ![i].state = "queued"], runs)
  /\ UNCHANGED <<sending, sent, cleared, files, sends>>
Removes(i) ==
  /\ Promote(RemoveAt(uploads, i), Abort(uploads[i].id))
  /\ UNCHANGED <<sending, sent, cleared, files, sends, retries>>

------------------------------------------------------------------------------
(* send(): not while anything is under way; it takes what is ready now.    *)
Ready == {uploads[i].id : i \in In(uploads, "ready")}
Send ==
  /\ ~sending.busy /\ sends < MaxSends /\ sends' = sends + 1
  /\ In(uploads, "uploading") = {} /\ In(uploads, "queued") = {}
  /\ sending' = [busy |-> TRUE, media |-> Ready, stored |-> FALSE]
  /\ UNCHANGED <<uploads, runs, sent, cleared, files, retries>>

(* The gateway stores the message with its media, or none of it.           *)
Stores ==
  /\ sending.busy /\ ~sending.stored /\ sending.media \cap sent = {}
  /\ sent' = sent \cup sending.media
  /\ sending' = [sending EXCEPT !.stored = TRUE]
  /\ UNCHANGED <<uploads, runs, cleared, files, sends, retries>>

(* The answer: what is ready by now leaves the list.                       *)
Rest ==
  LET kept == {i \in DOMAIN uploads : uploads[i].state # "ready"}
  IN  [n \in 1 .. Cardinality(kept) |-> uploads[CHOOSE i \in kept : Rank(kept, i) = n]]
Succeeds ==
  /\ sending.busy /\ sending.stored
  /\ uploads' = Rest
  /\ cleared' = cleared \cup {uploads[i].id : i \in {j \in DOMAIN uploads : uploads[j] \notin Range(Rest)}}
  /\ sending' = NoRequest
  /\ UNCHANGED <<runs, sent, files, sends, retries>>
(* Refused, or the answer was lost.                                        *)
Fails ==
  /\ sending.busy /\ sending' = NoRequest
  /\ UNCHANGED <<uploads, runs, sent, cleared, files, sends, retries>>

------------------------------------------------------------------------------
Init ==
  /\ uploads = <<>> /\ runs = {} /\ sending = NoRequest
  /\ sent = {} /\ cleared = {}
  /\ files = 0 /\ sends = 0 /\ retries = 0

Next ==
  \/ AddFiles \/ Send \/ Stores \/ Succeeds \/ Fails
  \/ \E r \in runs : Announced(r) \/ Ends(r)
  \/ \E i \in DOMAIN uploads : Cancel(i) \/ Retry(i) \/ Removes(i)

Spec == Init /\ [][Next]_vars

------------------------------------------------------------------------------
(* No more than MaxParallel are under way, a file waits only while that    *)
(* many are, and each row under way has a transfer that will settle it,    *)
(* whatever was added, cancelled, retried or removed meanwhile             *)
(* (chat.tsx:826).                                                         *)
PlacesAreUsed ==
  /\ Running(uploads) <= MaxParallel
  /\ In(uploads, "queued") # {} => Running(uploads) = MaxParallel
  /\ \A i \in In(uploads, "uploading") : \E r \in runs : r.id = uploads[i].id

(* Violated (chat.tsx:946): an attachment leaves the list only with the    *)
(* message that holds it, or by hand.                                      *)
NoAttachmentLost == cleared \subseteq sent
==============================================================================
