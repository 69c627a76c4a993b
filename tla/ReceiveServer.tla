---------------------------- MODULE ReceiveServer ----------------------------
(***************************************************************************)
(* The route /receive: an upload page announces a batch, sends its files   *)
(* one after the other to the resumable-upload library, then reports that  *)
(* it is done; an old browser posts them in one form.  The library tells   *)
(* of progress and of complete uploads to two goroutines of the server,    *)
(* which run beside the handlers.                                          *)
(***************************************************************************)
EXTENDS TransferServer

VARIABLES
  page,        \* each device's page
  declared,    \* FilesDeclared: an announcement came
  file,        \* cs.Files by number: "none", "waiting", "transferring", "completed"
  saved,       \* cs.SavedFiles
  offset,      \* the library: units stored of an upload
  done,        \* tusUploadsDone, for those in tusUploadClients
  news,        \* progress events on their way to the progress goroutine
  shown,       \* that goroutine still has to show the status
  arrival      \* what the completion goroutine works on

receiveVars == <<page, declared, file, saved, offset, done, news, shown, arrival>>
fileVars == <<declared, file, saved>>
libraryVars == <<offset, done, news>>

Batches == setup.batches      \* files a page has sent after 1, 2, ... batches
Last == IF Batches = <<>> THEN 0 ELSE Batches[Len(Batches)]
File == 1 .. Last
LastOf(b) == IF b = 0 THEN 0 ELSE Batches[b]
BatchOf(n) == CHOOSE b \in 1 .. Len(Batches): LastOf(b - 1) < n /\ n <= LastOf(b)
Idle == [pc |-> "idle", dev |-> CHOOSE d \in Device: TRUE, n |-> 0]

ReceiveInit ==
  /\ page = [d \in Device |-> [pc |-> "idle", batch |-> 0, cur |-> 0]]
  /\ declared = [d \in Device |-> FALSE]
  /\ file = [d \in Device |-> [n \in File |-> "none"]]
  /\ saved = [d \in Device |-> {}]
  /\ offset = [d \in Device |-> [n \in File |-> 0]]
  /\ done = [d \in Device |-> [n \in File |-> 0]]
  /\ news = {} /\ shown = TRUE /\ arrival = Idle

Receiving == Serving /\ setup.mode = "receive"
Listed(d) == {n \in File: file[d][n] # "none"}
Turn(d, pc) == page' = [page EXCEPT ![d].pc = pc]

(***************************************************************************)
(* Every place that may end the transfer asks the same: a one-time         *)
(* transfer ends, another when auto-stop is on and all have finished.      *)
(***************************************************************************)
DecideEndAnyway ==                                                  \* mutant
  IF ~setup.keepAlive \/ AllFinished THEN EndTransfer
  ELSE status' = "waiting" /\ UNCHANGED stopVars
DecideEnd ==
  IF ~setup.keepAlive \/ (autoStop /\ AllFinished)
  THEN EndTransfer
  ELSE status' = "waiting" /\ UNCHANGED stopVars

(***************************************************************************)
(* The page.                                                               *)
(***************************************************************************)
OpenPage(d) ==                 \* GET
  /\ Receiving /\ ~Refused /\ ~LimitExceeded(d, 1)
  /\ page[d].pc = "idle" /\ page[d].batch < Len(Batches)
  /\ page' = [page EXCEPT ![d] = [pc |-> "open", batch |-> @.batch + 1, cur |-> @.cur + 1]]
  /\ UNCHANGED <<serverVars, fileVars, libraryVars, shown, arrival>>

\* the page breaks while it is written out: failed, and the stop is asked for,
\* of a server that is to stay as of any other
PageBreaks(d) ==
  /\ Receiving /\ ~Refused /\ ~LimitExceeded(d, 1) /\ setup.faulty /\ ~broken
  /\ status' = "failed" /\ broken' = TRUE /\ SignalStop
  /\ UNCHANGED <<setup, autoStop, everAuto, deviceVars, asked, asleep, hostStop, waiters,
                 main, receiveVars>>

\* POST init: the list of files
InitBatch(d) ==
  /\ Receiving /\ ~Refused /\ page[d].pc = "open" /\ ~LimitExceeded(d, 1)
  /\ Turn(d, "send")
  /\ declared' = [declared EXCEPT ![d] = TRUE]
  /\ file' = [file EXCEPT ![d] = [n \in File |->
                IF n \in page[d].cur .. LastOf(page[d].batch) THEN "waiting" ELSE @[n]]]
  /\ seen' = [seen EXCEPT ![d] = "recent"]
  /\ SetClient(d, "transferring") /\ status' = "transferring"
  /\ UNCHANGED <<setup, autoStop, everAuto, conns, progress, stopVars, saved, libraryVars,
                 shown, arrival>>

\* the request was lost or refused: the page sends its files all the same
SkipInit(d) ==
  /\ Receiving /\ page[d].pc = "open" /\ (setup.lossy \/ Refused)
  /\ Turn(d, "send")
  /\ UNCHANGED <<serverVars, fileVars, libraryVars, shown, arrival>>

\* POST stop, of this page or another tab; a finished one-time transfer answers gone
StopUpload(d) ==
  /\ Receiving /\ page[d].pc \in {"send", "form"} /\ client[d] # "failed"
  /\ Turn(d, "gone") \/ UNCHANGED page
  /\ IF Refused THEN UNCHANGED <<seen, client, ignored>>
     ELSE seen' = [seen EXCEPT ![d] = "recent"] /\ SetClient(d, "failed")
  /\ UNCHANGED <<setup, status, autoStop, everAuto, conns, progress, stopVars, fileVars,
                 libraryVars, shown, arrival>>

(***************************************************************************)
(* handleTusUpload: refused for a device that was stopped, or (creation)   *)
(* for a file too large for free; never for a transfer that has ended.     *)
(***************************************************************************)
RefuseUpload(d) ==
  /\ Receiving /\ page[d].pc = "send" /\ Turn(d, "gone")
  /\ \/ client[d] = "failed" /\ UNCHANGED status
     \/ /\ client[d] # "failed" /\ setup.quota /\ ~setup.keepAlive
        /\ offset[d][page[d].cur] = 0 /\ status' = "failed"
  /\ UNCHANGED <<setup, autoStop, everAuto, deviceVars, stopVars, fileVars, libraryVars,
                 shown, arrival>>

Patch(d) ==
  LET n == page[d].cur IN
  /\ Receiving /\ page[d].pc = "send" /\ client[d] # "failed" /\ offset[d][n] < Size
  /\ offset' = [offset EXCEPT ![d][n] = @ + 1]
  /\ news' \in {news, news \cup {<<d, n, offset'[d][n]>>}}
  /\ IF offset'[d][n] = Size THEN Turn(d, "hand") ELSE UNCHANGED page
  /\ ignored' = IF client[d] = "transferring" THEN ignored \ {d} ELSE ignored
  /\ UNCHANGED <<setup, status, autoStop, everAuto, seen, client, conns, progress, stopVars,
                 fileVars, done, shown, arrival>>

\* the library hands the complete upload over before it answers the page
HandOver(d) ==
  /\ Receiving /\ page[d].pc = "hand" /\ arrival.pc = "idle"
  /\ arrival' = [pc |-> "save", dev |-> d, n |-> page[d].cur]
  /\ IF page[d].cur < LastOf(page[d].batch)
     THEN page' = [page EXCEPT ![d].pc = "send", ![d].cur = @ + 1]
     ELSE Turn(d, "last")
  /\ UNCHANGED <<serverVars, fileVars, libraryVars, shown>>

\* POST done
PostDone(d) ==
  /\ Receiving /\ page[d].pc = "last"
  /\ IF Refused \/ LimitExceeded(d, 1)
     THEN /\ Turn(d, IF Refused THEN "idle" ELSE "gone")
          /\ UNCHANGED <<seen, client, ignored, file>>
     ELSE /\ Turn(d, "decide") /\ SetClient(d, "completed")
          /\ seen' = [seen EXCEPT ![d] = "recent"]
          /\ file' = [file EXCEPT ![d] = [n \in File |->
                        IF n \in Listed(d) THEN "completed" ELSE "none"]]
  /\ UNCHANGED <<setup, status, autoStop, everAuto, conns, progress, stopVars, declared, saved,
                 libraryVars, shown, arrival>>

DecideDone(d) ==
  /\ Receiving /\ page[d].pc = "decide" /\ Turn(d, "idle")
  /\ DecideEnd
  /\ UNCHANGED <<setup, autoStop, everAuto, deviceVars, fileVars, libraryVars, shown, arrival>>

(***************************************************************************)
(* A form.                                                                 *)
(***************************************************************************)
PostForm(d) ==
  /\ Receiving /\ ~Refused /\ page[d].pc = "open" /\ ~LimitExceeded(d, 1)
  /\ setup.form /\ (setup.bare \/ seen[d] # "never")
  /\ Turn(d, "form") /\ status' = "transferring" /\ SetClient(d, "transferring")
  /\ saved' = [saved EXCEPT ![d] = {}] /\ declared' = [declared EXCEPT ![d] = FALSE]
  /\ file' = [file EXCEPT ![d] = [n \in File |-> "none"]]
  /\ UNCHANGED <<setup, autoStop, everAuto, seen, conns, progress, stopVars, libraryVars,
                 shown, arrival>>

\* one chunk: looks whether the device was stopped, then reports (or, too soon, not)
FormChunk(d) ==
  LET n == page[d].cur IN
  /\ Receiving /\ page[d].pc = "form" /\ offset[d][n] < Size
  /\ \/ /\ client[d] = "failed" /\ Turn(d, "gone") /\ UNCHANGED <<offset, client, ignored>>
     \/ /\ client[d] # "failed" /\ UNCHANGED page
        /\ offset' = [offset EXCEPT ![d][n] = @ + 1]
        /\ SetClient(d, "transferring") \/ UNCHANGED <<client, ignored>>
  /\ UNCHANGED <<setup, status, autoStop, everAuto, seen, conns, progress, stopVars, fileVars,
                 done, news, shown, arrival>>

FormTooLarge(d) ==
  /\ Receiving /\ page[d].pc = "form" /\ setup.quota /\ ~setup.keepAlive
  /\ Turn(d, "gone") /\ status' = "failed"
  /\ UNCHANGED <<setup, autoStop, everAuto, deviceVars, stopVars, fileVars, libraryVars,
                 shown, arrival>>

FormFile(d) ==
  LET n == page[d].cur IN
  /\ Receiving /\ page[d].pc = "form" /\ offset[d][n] = Size
  /\ saved' = [saved EXCEPT ![d] = @ \cup {n}]
  /\ file' = [file EXCEPT ![d][n] = "completed"]
  /\ IF n < LastOf(page[d].batch) THEN page' = [page EXCEPT ![d].cur = @ + 1]
                                  ELSE Turn(d, "finish")
  /\ UNCHANGED <<serverVars, declared, libraryVars, shown, arrival>>

FormFinish(d) ==
  /\ Receiving /\ page[d].pc = "finish"
  /\ Turn(d, "decide") /\ SetClient(d, "completed")
  /\ UNCHANGED <<setup, status, autoStop, everAuto, seen, conns, progress, stopVars, fileVars,
                 libraryVars, shown, arrival>>

(***************************************************************************)
(* The progress goroutine: the device, then the status.                    *)
(***************************************************************************)
ProgressEvent ==
  /\ Receiving /\ shown /\ shown' = FALSE
  /\ \E e \in news:
       LET d == e[1]  n == e[2] IN
       /\ news' = news \ {e}
       /\ done' = [done EXCEPT ![d][n] = e[3]]
       /\ seen' = [seen EXCEPT ![d] = "recent"]
       /\ IF file[d][n] = "completed" THEN UNCHANGED <<file, client>>
          ELSE /\ file' = [file EXCEPT ![d][n] = "transferring"]
               /\ client' = [client EXCEPT ![d] = IF @ = "completed" THEN @ ELSE "transferring"]
       /\ ignored' = IF client'[d] = "transferring" THEN ignored \ {d} ELSE ignored
  /\ UNCHANGED <<setup, status, autoStop, everAuto, conns, progress, stopVars, page, declared,
                 saved, offset, arrival>>

ProgressShow ==
  /\ Receiving /\ ~shown /\ shown' = TRUE
  /\ status' = "transferring"
  /\ UNCHANGED <<setup, autoStop, everAuto, deviceVars, stopVars, page, fileVars,
                 libraryVars, arrival>>

(***************************************************************************)
(* The completion goroutine: move the file, tell the device, look again,   *)
(* decide.                                                                 *)
(***************************************************************************)
Save ==
  /\ Receiving /\ arrival.pc = "save"
  /\ \/ arrival' = [arrival EXCEPT !.pc = "tell"]
     \/ setup.lossy /\ arrival' = Idle
  /\ UNCHANGED <<serverVars, page, fileVars, libraryVars, shown>>

\* all that the device sent, against the size of the batch the page named
HasBytes(d, n) ==
  LET b == BatchOf(n) IN
  SumFunction(done'[d]) >= Size * (LastOf(b) - LastOf(b - 1))

AfterSaveMore(d, n) == IF declared[d] THEN "transferring" ELSE "waiting"  \* mutant
AfterSave(d, n) ==
  CASE ~declared[d] -> "waiting"
    [] declared[d] /\ ({k \in File: file'[d][k] # "none"} \subseteq saved'[d] \/ HasBytes(d, n))
         -> "completed"
    [] OTHER -> "transferring"

Tell ==
  LET d == arrival.dev  n == arrival.n IN
  /\ Receiving /\ arrival.pc = "tell"
  /\ seen' = [seen EXCEPT ![d] = "recent"]
  /\ done' = [done EXCEPT ![d][n] = Size]
  /\ file' = [file EXCEPT ![d][n] = "completed"]
  /\ saved' = [saved EXCEPT ![d] = @ \cup {n}]
  /\ SetClient(d, AfterSave(d, n))
  /\ arrival' = [arrival EXCEPT !.pc = "look"]
  /\ UNCHANGED <<setup, status, autoStop, everAuto, conns, progress, stopVars, page, declared,
                 offset, news, shown>>

LookAgain ==
  /\ Receiving /\ arrival.pc = "look"
  /\ IF client[arrival.dev] = "completed" THEN arrival' = [arrival EXCEPT !.pc = "decide"]
                                          ELSE arrival' = Idle
  /\ UNCHANGED <<serverVars, page, fileVars, libraryVars, shown>>

DecideArrival ==
  /\ Receiving /\ arrival.pc = "decide" /\ arrival' = Idle
  /\ DecideEnd
  /\ UNCHANGED <<setup, autoStop, everAuto, deviceVars, page, fileVars, libraryVars, shown>>

Running ==                     \* what the server goes on with by itself
  \/ ProgressEvent \/ ProgressShow \/ Save \/ Tell \/ LookAgain \/ DecideArrival
  \/ \E d \in Device: DecideDone(d) \/ FormFile(d) \/ FormFinish(d)
PageRequest(d) ==
  \/ OpenPage(d) \/ PageBreaks(d) \/ InitBatch(d) \/ SkipInit(d) \/ Patch(d) \/ HandOver(d)
  \/ PostDone(d)
  \/ StopUpload(d) \/ RefuseUpload(d) \/ PostForm(d) \/ FormChunk(d) \/ FormTooLarge(d)

ReceiveStep ==
  \/ Running
  \/ \E d \in Device:
       PageRequest(d) \/ (Receiving /\ registerClientActivity(d, 1) /\ UNCHANGED receiveVars)
  \/ (Receiving /\ ServerStep /\ UNCHANGED receiveVars)

=============================================================================
