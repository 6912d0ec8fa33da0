--------------------------- MODULE SkySightDecode ---------------------------
(***************************************************************************)
(* Downloaded SkySight forecasts are decoded one after the other in a      *)
(* StandbyThread, SkySightFileDecodeJob, which tells the main thread with  *)
(* a Notify: src/src/Weather/SkySight/SkySightFileDecoder.cpp and the part *)
(* of SkySightAPI.cpp that feeds it.                                       *)
(*                                                                         *)
(* A file is known by its layer.  The main thread's calls are cut where it *)
(* takes the mutex or touches the Notify.                                  *)
(***************************************************************************)
EXTENDS StandbyThread, Notify, Sequences

CONSTANTS
  Layers,
  NoLayer,
  MaxDownloads,  \* bound: how many files are downloaded
  StartMayFail   \* the system may refuse to create a thread

ASSUME SkySightAssumption ==
  /\ NoLayer \notin Layers
  /\ MaxDownloads \in Nat
  /\ StartMayFail \in BOOLEAN

VARIABLES
  status,     \* SkySightFileDecodeJob::Status
  prepared,   \* the file that Start() was given
  expects,    \* the layer that on_success and on_error report to
  result,     \* result_path or error: a layer, "null" or "error"
  cancel,     \* cancel_requested
  file,       \* the copy that Tick() works on, then what it got out of it
  files,      \* pending_decode_jobs
  decoding,   \* the layers that say they are being decoded
  delivered,  \* the last callback: whose it was and what it was given
  downloads,  \* how many downloads there have been
  api        \* where the main thread is

job == <<status, prepared, expects, result>>
decodeVars == <<standby, note, job, cancel, file, files, decoding, delivered, downloads, api>>

(***************************************************************************)
(* Tick() unlocks the mutex at "decode" and takes it back at "lock"; from  *)
(* "notify" to "sent" it holds it.                                         *)
(***************************************************************************)
DecodeTicking == {"decode", "lock", "notify", "inject", "sent"}

Locked == th \in {"notify", "inject", "sent"}

(* "start": in Start(), before it takes the mutex; "notified": in          *)
(* OnNotification(), before that; "stop", "join", "forget": in Cancel();   *)
(* the others are the two halves of ClearNotification().                   *)
Purging == {"purge_start", "purge_stop", "purge_forget"}

Resetting == {"reset_start", "reset_stop", "reset_forget"}

MainPlaces ==
  Purging \cup Resetting \cup {"idle", "start", "notified", "stop", "join", "forget"}

AfterPurge ==
  [purge_start |-> "reset_start", purge_stop |-> "reset_stop", purge_forget |-> "reset_forget"]

AfterReset == [reset_start |-> "start", reset_stop |-> "stop", reset_forget |-> "forget"]

Results == Layers \cup {"null", "error"}

DecodeTypeOK ==
  /\ StandbyTypeOK(DecodeTicking)
  /\ NotifyTypeOK(1)
  /\ status \in {"Idle", "Busy", "Complete", "Error"}
  /\ {prepared, expects} \subseteq Layers \cup {NoLayer}
  /\ result \in Results
  /\ cancel \in BOOLEAN
  /\ file \in Layers \cup {NoLayer, "error"}
  /\ files \in Seq(Layers)
  /\ decoding \subseteq Layers
  /\ delivered \in [to : Layers \cup {NoLayer}, what : Results]
  /\ downloads \in 0..MaxDownloads
  /\ api \in MainPlaces

DecodeInit ==
  /\ StandbyInit
  /\ NotifyInit
  /\ status = "Idle" /\ prepared = NoLayer /\ expects = NoLayer /\ result = "null"
  /\ cancel = FALSE
  /\ file = NoLayer
  /\ files = <<>>
  /\ decoding = {}
  /\ delivered = [to |-> NoLayer, what |-> "null"]
  /\ downloads = 0
  /\ api = "idle"

-----------------------------------------------------------------------------
(* Seeded fault: the status is not looked at. *)
MayStart_Always(stat, queue) == queue # <<>>

MayStart(stat, queue) == queue # <<>> /\ stat = "Idle"

(***************************************************************************)
(* StartNextDecodeJob(), with the status and the queue it finds: the first *)
(* file leaves the queue, and Start() begins with ClearNotification().     *)
(***************************************************************************)
StartNext(stat, queue, layers) ==
  IF MayStart(stat, queue)
  THEN /\ files' = Tail(queue)
       /\ decoding' = layers \cup {Head(queue)}
       /\ prepared' = Head(queue)
       /\ api' = "purge_start"
  ELSE /\ files' = queue
       /\ decoding' = layers
       /\ UNCHANGED prepared
       /\ api' = "idle"

(* OnDatafileDownloaded(), for a file that has to be decoded. *)
OnDatafileDownloaded ==
  /\ api = "idle"
  /\ ~Locked
  /\ downloads < MaxDownloads
  /\ downloads' = downloads + 1
  /\ \E l \in Layers : StartNext(status, Append(files, l), decoding \cup {l})
  /\ UNCHANGED <<standby, note, status, expects, result, cancel, file, delivered>>

(* Seeded fault: the layer is not told that it failed. *)
DatafileError_Silent(layer) == decoding

(* OnDatafileError(): what the layers say after one has failed.            *)
DatafileError(layer) == decoding \ {layer}

(***************************************************************************)
(* The rest of Start(): WaitDone() waits until the thread is not working.  *)
(* If Trigger() throws, OnDatafileError() reports the layer and tries the  *)
(* next file.                                                              *)
(***************************************************************************)
Start ==
  /\ api = "start"
  /\ ~Locked
  /\ alive => ~IsWorking
  /\ cancel' = FALSE
  /\ expects' = prepared
  /\ result' = "null"
  /\ status' = "Busy"
  /\ \/ /\ Trigger
        /\ api' = "idle"
        /\ UNCHANGED <<files, decoding, prepared>>
     \/ /\ StartMayFail
        /\ TriggerThrows
        /\ StartNext("Busy", files, DatafileError(prepared))
  /\ UNCHANGED <<note, file, delivered, downloads>>

(* ClearNotification(), called by Start() and twice by Cancel(). *)
ClearNotification ==
  /\ \/ api \in Purging /\ PurgeCalls /\ api' = AfterPurge[api]
     \/ api \in Resetting /\ ResetPending /\ api' = AfterReset[api]
  /\ UNCHANGED <<standby, job, cancel, file, files, decoding, delivered, downloads>>

(* Configure() and ClearDownloadedData() cancel the job.  BeginShutdown()  *)
(* does too, but nothing is downloaded or shown after it: it is left out.  *)
Cancel ==
  /\ api = "idle"
  /\ cancel' = TRUE
  /\ api' = "purge_stop"
  /\ UNCHANGED <<standby, note, job, file, files, decoding, delivered, downloads>>

LockStop ==
  /\ api = "stop"
  /\ ~Locked
  /\ StopAsync
  /\ api' = "join"
  /\ UNCHANGED <<note, job, cancel, file, files, decoding, delivered, downloads>>

(* Seeded fault: the notification is only cleared before the thread ends. *)
AfterJoin_Forget == "forget"

AfterJoin == "purge_forget"

StopReturns ==
  /\ api = "join"
  /\ Stopped
  /\ JoinThread
  /\ api' = AfterJoin
  /\ UNCHANGED <<note, job, cancel, file, files, decoding, delivered, downloads>>

(* The end of Cancel(), and what its callers forget with it. *)
Forget ==
  /\ api = "forget"
  /\ ~Locked
  /\ status' = "Idle"
  /\ expects' = NoLayer
  /\ result' = "null"
  /\ files' = <<>>
  /\ decoding' = {}
  /\ api' = "idle"
  /\ UNCHANGED <<standby, note, prepared, cancel, file, delivered, downloads>>

RunNotification ==
  /\ api = "idle"
  /\ PopCall
  /\ api' = IF Delivers THEN "notified" ELSE "idle"
  /\ UNCHANGED <<standby, job, cancel, file, files, decoding, delivered, downloads>>

(* Seeded fault: the callback does not go on with the next file. *)
Deliver_Last ==
  /\ delivered' = [to |-> expects, what |-> result]
  /\ decoding' = decoding \ {expects}
  /\ api' = "idle"
  /\ UNCHANGED <<files, prepared>>

(* on_success or on_error: OnDatafileDownloaded() with a file that can be  *)
(* shown, or OnDatafileError().                                            *)
Deliver ==
  /\ delivered' = [to |-> expects, what |-> result]
  /\ StartNext("Idle", files, decoding \ {expects})

OnNotification ==
  /\ api = "notified"
  /\ ~Locked
  /\ status' = "Idle"
  /\ expects' = NoLayer
  /\ result' = "null"
  /\ IF expects # NoLayer
     THEN Deliver
     ELSE api' = "idle" /\ UNCHANGED <<files, decoding, prepared, delivered>>
  /\ UNCHANGED <<standby, note, cancel, file, downloads>>

-----------------------------------------------------------------------------
(* The thread. *)

(* Tick() copies its arguments before it unlocks the mutex. *)
CopyPrepared == status' = "Busy" /\ file' = prepared

RunLoop ==
  \/ BeginsTick("decode", CopyPrepared)
  \/ (Ends \/ Sleeps) /\ UNCHANGED <<status, file>>

MainUnchanged ==
  UNCHANGED <<prepared, expects, cancel, files, decoding, delivered, downloads, api>>

DecoderRuns == Enters /\ RunLoop /\ UNCHANGED <<note, result>> /\ MainUnchanged

(* DecodePreparedData() returns a file or throws; it may notice a          *)
(* cancellation, or not.                                                   *)
Decode ==
  /\ th = "decode"
  /\ th' = "lock"
  /\ file' \in {file, "error"}
  /\ UNCHANGED <<alive, work, busy, stop, signalled, note, status, result>>
  /\ MainUnchanged

Publish ==
  /\ th = "lock"
  /\ th' = "notify"
  /\ result' = file
  /\ status' = IF file = "error" THEN "Error" ELSE "Complete"
  /\ UNCHANGED <<alive, work, busy, stop, signalled, note, file>>
  /\ MainUnchanged

SendNotification ==
  /\ \/ th = "notify" /\ ExchangePending /\ th' = IF pending THEN "sent" ELSE "inject"
     \/ th = "inject" /\ InjectCall /\ th' = "sent"
  /\ UNCHANGED <<alive, work, busy, stop, signalled, status, result, file>>
  /\ MainUnchanged

TickReturns == th = "sent" /\ RunLoop /\ UNCHANGED <<note, result>> /\ MainUnchanged

-----------------------------------------------------------------------------
MainStep ==
  \/ Start \/ ClearNotification \/ LockStop \/ StopReturns \/ Forget
  \/ OnNotification

ThreadStep == Decode \/ Publish \/ SendNotification \/ TickReturns

DecodeNext ==
  \/ OnDatafileDownloaded \/ Cancel \/ RunNotification
  \/ MainStep
  \/ DecoderRuns \/ ThreadStep

DecodeSpec == DecodeInit /\ [][DecodeNext]_decodeVars

(***************************************************************************)
(* Fairness: the two threads do not stop, decoding a file takes a finite   *)
(* time, and the event loop gets to every call in its queue.  Nothing is   *)
(* assumed of the downloads and of whoever cancels.                        *)
(***************************************************************************)
DecoderWoken == DecoderRuns /\ (th = "sleep" => signalled)

FairDecodeSpec ==
  /\ DecodeSpec
  /\ WF_decodeVars(MainStep)
  /\ SF_decodeVars(RunNotification)
  /\ WF_decodeVars(DecoderWoken)
  /\ WF_decodeVars(ThreadStep)

-----------------------------------------------------------------------------
(* Each callback is given what was made of its own file, or an error:      *)
(* never the file of another layer, and never nothing.                     *)
ResultsMatch == delivered.what \in {delivered.to, "error"} \/ delivered.to = NoLayer

(* After Cancel(), no notification of a cancelled job is delivered.        *)
CancelSuppresses == api = "idle" /\ th = "none" => ~(pending /\ queued > 0)

(* Start() has asked for a thread that the system refused: the job is left *)
(* Busy, and until somebody cancels it, so is the decoder.                 *)
Stuck == work /\ ~alive

(* A layer says that it is being decoded only as long as its file is in    *)
(* the queue or in the decoder, and not if the decoder is stuck with it.   *)
DecodingIsTrue ==
  api = "idle" => \A l \in decoding :
    (l = expects /\ ~Stuck) \/ \E i \in DOMAIN files : files[i] = l

(* When the downloads end, so does the decoding: no file stays in the      *)
(* queue, and no layer says for ever that it is being decoded, unless the  *)
(* decoder is stuck.                                                       *)
DecodingEnds == <>[]((files = <<>> /\ decoding = {}) \/ Stuck)

(* The same without the exception, which the code does not keep.           *)
DecodingAlwaysEnds == <>[](files = <<>> /\ decoding = {})
=============================================================================
