------------------------------ MODULE Progress ------------------------------
(***************************************************************************)
(* The background job of one vault creation: the goroutine that runs       *)
(* vault.Create, the bounded channel it reports on, the SSE handlers that  *)
(* read the channel, and the job entry through which they find it.         *)
(*                                                                         *)
(* What the pipeline does to files and devices beside other requests is    *)
(* the business of VaultServer; here a step of it either succeeds or fails *)
(* and what matters is what is reported, to whom, and that everybody ends. *)
(***************************************************************************)
EXTENDS Naturals, Sequences

CONSTANTS
    Readers,   \* GET /api/vaults/events/{jobID} requests
    Cap        \* the capacity of the channel, 64 in the code

ASSUME ProgressAssumption == Cap \in Nat \ {0}

VARIABLES
    ch,        \* the events in the channel
    closed,    \* close(ch) was called
    job,       \* handler.jobs has the job's entry
    pc,        \* where the creation goroutine is
    outcome,   \* of vault.Create: "none" yet, "done", "error" or "panic"
    fate,      \* of the terminal event: "none" yet, "sent", "timeout", "stopped"
    dev,       \* the new vault's device: "closed", "open" or "mounted"
    record,    \* the new vault is in the database
    leaked,    \* a clean-up failed, or none ran, with the device open
    rd,        \* where each SSE handler is
    seen,      \* whether its client was sent the terminal event
    stop       \* the server context is cancelled

channel  == <<ch, closed>>
creation == <<pc, outcome, fate, dev, record, leaked>>
streams  == <<rd, seen>>
jobVars  == <<channel, job, creation, streams, stop>>

NextStage == [check |-> "alloc", alloc |-> "format", format |-> "open",
              open |-> "mkfs", mkfs |-> "mount", mount |-> "save"]
Stages    == DOMAIN NextStage \cup {"save"}

\* createVault made the channel and the entry and started the goroutine.
JobInit ==
    /\ ch = <<>> /\ closed = FALSE
    /\ job = TRUE
    /\ pc = "check" /\ outcome = "none" /\ fate = "none"
    /\ dev = "closed" /\ record = FALSE /\ leaked = FALSE
    /\ rd = [r \in Readers |-> "away"]
    /\ seen = [r \in Readers |-> FALSE]
    /\ stop = FALSE

-----------------------------------------------------------------------------
(* The creation goroutine.                                                 *)

\* Bug: no default case, and a channel without a limit.
SendUnbounded == ch' = Append(ch, "progress")

\* A progress event is dropped when the channel is full.
Send == ch' = IF Len(ch) < Cap THEN Append(ch, "progress") ELSE ch

\* A stage succeeds and the next one is announced, except the insertion.  Once
\* the context is cancelled the subprocess of a stage is killed.
CreateStep ==
    /\ pc \in DOMAIN NextStage
    /\ stop => pc = "check"
    /\ pc' = NextStage[pc]
    /\ dev' = CASE pc = "open" -> "open" [] pc = "mount" -> "mounted" [] OTHER -> dev
    /\ IF pc' = "save" THEN UNCHANGED ch ELSE Send
    /\ UNCHANGED <<closed, job, outcome, fate, record, leaked, streams, stop>>

\* fallocate's event, or a tick of the dd monitor.
AllocProgress ==
    /\ pc = "alloc"
    /\ Send
    /\ UNCHANGED <<closed, job, creation, streams, stop>>

CreateSave ==
    /\ pc = "save" /\ pc' = "terminal"
    /\ record' = TRUE /\ outcome' = "done"
    /\ UNCHANGED <<channel, job, fate, dev, leaked, streams, stop>>

\* Bug: the error is reported and the device left to itself.
CreateFailNoUndo ==
    /\ pc \in Stages /\ pc' = "terminal"
    /\ outcome' = "error"
    /\ UNCHANGED <<channel, job, fate, dev, record, leaked, streams, stop>>

\* From mkfs on, the device is closed before the error is reported.
CreateFail ==
    /\ pc \in Stages
    /\ pc' = IF pc \in {"mkfs", "mount", "save"} THEN "undo" ELSE "terminal"
    /\ outcome' = "error"
    /\ UNCHANGED <<channel, job, fate, dev, record, leaked, streams, stop>>

\* umount where it was mounted, then luksClose; neither error is looked at.
CreateUndo ==
    /\ pc = "undo" /\ pc' = "terminal"
    /\ dev' \in {"closed", "open", dev}
    /\ leaked' = (dev' # "closed")
    /\ UNCHANGED <<channel, job, outcome, fate, record, streams, stop>>

\* No handler is about to receive: a minute is long for one that is.
NobodyReceives == \A r \in Readers : rd[r] \notin {"reading", "draining"}

\* Bug: the terminal event is sent like any other.
SendTerminalLossy ==
    /\ pc = "terminal" /\ pc' = "close"
    /\ ch' = IF Len(ch) < Cap THEN Append(ch, "terminal") ELSE ch
    /\ UNCHANGED <<closed, job, outcome, fate, dev, record, leaked, streams, stop>>

\* Bug: no time limit.
SendTerminalForEver ==
    /\ pc = "terminal" /\ pc' = "close"
    /\ \/ Len(ch) < Cap /\ ch' = Append(ch, "terminal") /\ fate' = "sent"
       \/ stop /\ fate' = "stopped" /\ UNCHANGED ch
    /\ UNCHANGED <<closed, job, outcome, dev, record, leaked, streams, stop>>

\* sendTerminal blocks until there is room, the server stops or a minute is over.
SendTerminal ==
    /\ pc = "terminal" /\ pc' = "close"
    /\ \/ Len(ch) < Cap /\ ch' = Append(ch, "terminal") /\ fate' = "sent"
       \/ stop /\ fate' = "stopped" /\ UNCHANGED ch
       \/ Len(ch) = Cap /\ NobodyReceives /\ fate' = "timeout" /\ UNCHANGED ch
    /\ UNCHANGED <<closed, job, outcome, dev, record, leaked, streams, stop>>

\* Bug: the channel stays open after an error.
CloseOnSuccess ==
    /\ pc = "close" /\ pc' = "end"
    /\ closed' = (outcome = "done")
    /\ UNCHANGED <<ch, job, outcome, fate, dev, record, leaked, streams, stop>>

\* After an error the image is removed.  The deferred close(ch) ends vault.Create;
\* what its goroutine does then is in VaultServer.
CloseChannel ==
    /\ pc = "close" /\ pc' = "end"
    /\ closed' = TRUE
    /\ UNCHANGED <<ch, job, outcome, fate, dev, record, leaked, streams, stop>>

\* A panic is recovered: the channel is closed and nothing else cleaned up.
CreatePanic ==
    /\ pc \in Stages /\ pc' = "close"
    /\ outcome' = "panic"
    /\ leaked' = (dev # "closed")
    /\ UNCHANGED <<channel, job, fate, dev, record, streams, stop>>

Creation ==
    \/ CreateStep \/ CreateSave \/ CreateFail \/ CreateUndo
    \/ SendTerminal \/ CloseChannel

-----------------------------------------------------------------------------
(* The SSE handlers.  The channel is shared: an event goes to whichever    *)
(* handler takes it.                                                       *)

Move(r, from, to) == rd[r] = from /\ rd' = [rd EXCEPT ![r] = to]

\* No entry: 404, no step.
VaultEvents(r) ==
    /\ job
    /\ Move(r, "away", "reading")
    /\ UNCHANGED <<channel, job, creation, seen, stop>>

ReadEvent(r) ==
    /\ Move(r, "reading", "writing")
    /\ ch # <<>> /\ ch' = Tail(ch)
    /\ seen' = [seen EXCEPT ![r] = @ \/ Head(ch) = "terminal"]
    /\ UNCHANGED <<closed, job, creation, stop>>

\* The client took the event; there is no write timeout.
WriteEvent(r) ==
    /\ Move(r, "writing", "reading")
    /\ UNCHANGED <<channel, job, creation, seen, stop>>

StreamEnds(r) ==
    /\ Move(r, "reading", "ended")
    /\ closed /\ ch = <<>>
    /\ job' = FALSE
    /\ UNCHANGED <<channel, creation, seen, stop>>

\* Bug: the handler returns at once.
DisconnectNoDrain(r) ==
    /\ Move(r, "reading", "gone")
    /\ job' = FALSE
    /\ UNCHANGED <<channel, creation, seen, stop>>

Disconnect(r) ==
    /\ Move(r, "reading", "draining")
    /\ job' = FALSE
    /\ UNCHANGED <<channel, creation, seen, stop>>

DrainChannel(r) ==
    /\ \/ rd[r] = "draining" /\ ch # <<>> /\ ch' = Tail(ch) /\ UNCHANGED rd
       \/ Move(r, "draining", "gone") /\ closed /\ ch = <<>> /\ UNCHANGED ch
    /\ UNCHANGED <<closed, job, creation, seen, stop>>

Streaming(r) == ReadEvent(r) \/ StreamEnds(r) \/ DrainChannel(r)

\* The entry is older than 30 minutes.  Time is not modelled and a creation may
\* take any, so this is at any time, the creation running or not.
CleanupJobs ==
    /\ job /\ ~stop
    /\ job' = FALSE
    /\ UNCHANGED <<channel, creation, streams, stop>>

\* Every step of the job but the arrival of a reader.
JobStep ==
    \/ Creation \/ AllocProgress \/ CreatePanic
    \/ \E r \in Readers : Streaming(r) \/ WriteEvent(r) \/ Disconnect(r)
    \/ CleanupJobs

\* The server stops.  What main does then is in Shutdown.
Cancel ==
    /\ ~stop /\ stop' = TRUE
    /\ UNCHANGED <<channel, job, creation, streams>>

JobNext == JobStep \/ Cancel \/ \E r \in Readers : VaultEvents(r)

\* The goroutine and the handlers run when they can.  Nothing is assumed of a
\* client: it may not come, not read, or leave.
JobFairness ==
    /\ WF_jobVars(Creation)
    /\ \A r \in Readers : WF_jobVars(Streaming(r))

JobSpec == JobInit /\ [][JobNext]_jobVars /\ JobFairness

-----------------------------------------------------------------------------
JobTypeOK ==
    /\ ch \in Seq({"progress", "terminal"}) /\ Len(ch) <= Cap
    /\ closed \in BOOLEAN /\ job \in BOOLEAN
    /\ pc \in Stages \cup {"undo", "terminal", "close", "end"}
    /\ outcome \in {"none", "done", "error", "panic"}
    /\ fate \in {"none", "sent", "timeout", "stopped"}
    /\ dev \in {"closed", "open", "mounted"}
    /\ record \in BOOLEAN /\ leaked \in BOOLEAN /\ stop \in BOOLEAN
    /\ rd \in [Readers -> {"away", "reading", "writing", "draining", "ended", "gone"}]
    /\ seen \in [Readers -> BOOLEAN]

\* "a slow SSE reader must not lose the terminal event" (vault.go:46-47): when a
\* stream ran to its end, nobody left early and the event was not given up, then
\* one client was sent it, and no more than one although they share the channel.
TerminalDelivered ==
    /\ outcome \in {"done", "error"}
    /\ fate \notin {"timeout", "stopped"}
    /\ \E r \in Readers : rd[r] = "ended"
    /\ \A r \in Readers : rd[r] \notin {"draining", "gone"}
    => \E r \in Readers : \A q \in Readers : seen[q] <=> q = r

\* What the terminal event says is so when a client gets it: done means
\* registered, and an error comes after the device was closed, or could not be.
TerminalTruthful ==
    (\E r \in Readers : seen[r]) =>
        /\ record <=> outcome = "done"
        /\ outcome = "error" => dev = "closed" \/ leaked

-----------------------------------------------------------------------------
(* Liveness.                                                               *)

\* The creation goroutine ends, and so gives back its reservations, whether or
\* not somebody reads the channel (vault.go:45-49).
CreationEnds == <>(pc = "end")

\* A stream ends unless its client stops reading for good: no handler waits on a
\* channel nobody will close.
StreamsEnd ==
    \A r \in Readers :
        \/ <>[](rd[r] = "writing")
        \/ (rd[r] # "away" ~> rd[r] \in {"ended", "gone"})

=============================================================================
