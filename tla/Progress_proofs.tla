-------------------------- MODULE Progress_proofs --------------------------
(* Theorems about Progress, for any capacity of the channel and any number  *)
(* of readers.  The lemmas about JobStep serve Shutdown_proofs too.         *)
EXTENDS Progress, Integers, TLAPS

Events == {"progress", "terminal"}

-----------------------------------------------------------------------------
(* Type correctness.                                                       *)

ChannelOK  == ch \in Seq(Events) /\ Len(ch) <= Cap /\ closed \in BOOLEAN /\ job \in BOOLEAN
CreationOK ==
    /\ pc \in Stages \cup {"undo", "terminal", "close", "end"}
    /\ outcome \in {"none", "done", "error", "panic"}
    /\ fate \in {"none", "sent", "timeout", "stopped"}
    /\ dev \in {"closed", "open", "mounted"}
    /\ record \in BOOLEAN /\ leaked \in BOOLEAN /\ stop \in BOOLEAN
StreamsOK  ==
    /\ rd \in [Readers -> {"away", "reading", "writing", "draining", "ended", "gone"}]
    /\ seen \in [Readers -> BOOLEAN]

LEMMA TypeParts == JobTypeOK <=> ChannelOK /\ CreationOK /\ StreamsOK
  BY DEF JobTypeOK, ChannelOK, CreationOK, StreamsOK, Events

LEMMA StageNames ==
    /\ Stages = {"check", "alloc", "format", "open", "mkfs", "mount", "save"}
    /\ DOMAIN NextStage = {"check", "alloc", "format", "open", "mkfs", "mount"}
    /\ NextStage["check"] = "alloc" /\ NextStage["alloc"] = "format"
    /\ NextStage["format"] = "open" /\ NextStage["open"] = "mkfs"
    /\ NextStage["mkfs"] = "mount" /\ NextStage["mount"] = "save"
  BY DEF Stages, NextStage

\* A progress event is put at the end of the channel, or dropped.
LEMMA SendStep ==
    ASSUME ch \in Seq(Events), Len(ch) <= Cap, Send
    PROVE  /\ ch' \in Seq(Events) /\ Len(ch') <= Cap
           /\ \A i \in 1..Len(ch') : ch'[i] = "progress" \/ (i \in 1..Len(ch) /\ ch'[i] = ch[i])
  BY ProgressAssumption DEF Send, Events

\* The first event is taken out.
LEMMA TakeStep ==
    ASSUME ch \in Seq(Events), Len(ch) <= Cap, ch # <<>>, ch' = Tail(ch)
    PROVE  /\ ch' \in Seq(Events) /\ Len(ch') <= Cap /\ Len(ch') = Len(ch) - 1
           /\ Len(ch) \in Nat /\ Len(ch) >= 1
           /\ Head(ch) = ch[1]
           /\ \A i \in 1..Len(ch') : ch'[i] = ch[i + 1]
  BY ProgressAssumption

LEMMA InitTypes == JobInit => JobTypeOK
  <1> SUFFICES ASSUME JobInit PROVE JobTypeOK
    OBVIOUS
  <1>0. <<>> \in Seq(Events) /\ Len(<<>>) = 0 /\ 0 <= Cap
    BY ProgressAssumption
  <1>1. ChannelOK
    BY <1>0 DEF JobInit, ChannelOK
  <1>2. CreationOK
    BY StageNames DEF JobInit, CreationOK
  <1>3. StreamsOK
    BY DEF JobInit, StreamsOK
  <1> QED
    BY <1>1, <1>2, <1>3, TypeParts

LEMMA StepTypes ==
    ASSUME JobTypeOK, JobNext
    PROVE  JobTypeOK'
  <1>0. ChannelOK /\ CreationOK /\ StreamsOK
    BY TypeParts
  <1> DEFINE Goal == ChannelOK' /\ CreationOK' /\ StreamsOK'
  <1>c. ASSUME UNCHANGED <<channel, job>> PROVE ChannelOK'
    BY <1>0, <1>c DEF ChannelOK, channel
  <1>p. ASSUME UNCHANGED <<creation, stop>> PROVE CreationOK'
    BY <1>0, <1>p DEF CreationOK, creation
  <1>s. ASSUME UNCHANGED streams PROVE StreamsOK'
    BY <1>0, <1>s DEF StreamsOK, streams
  <1>1. ASSUME CreateStep PROVE Goal
    <2>1. ChannelOK'
      <3>1. ch' = ch \/ Send
        BY <1>1 DEF CreateStep
      <3> QED
        BY <1>0, <1>1, <3>1, SendStep DEF CreateStep, ChannelOK
    <2>2. pc' \in Stages /\ dev' \in {"closed", "open", "mounted"}
      BY <1>0, <1>1, StageNames DEF CreateStep, CreationOK
    <2>3. CreationOK'
      BY <1>0, <1>1, <2>2 DEF CreateStep, CreationOK
    <2> QED
      BY <1>1, <1>s, <2>1, <2>3 DEF CreateStep
  <1>2. ASSUME AllocProgress PROVE Goal
    <2>1. ChannelOK'
      BY <1>0, <1>2, SendStep DEF AllocProgress, ChannelOK
    <2> QED
      BY <1>2, <1>p, <1>s, <2>1 DEF AllocProgress
  <1>3. ASSUME CreateSave \/ CreateFail PROVE Goal
    <2>1. CreationOK'
      BY <1>0, <1>3 DEF CreateSave, CreateFail, CreationOK
    <2> QED
      BY <1>3, <1>c, <1>s, <2>1 DEF CreateSave, CreateFail
  <1>4. ASSUME CreateUndo \/ CreatePanic PROVE Goal
    <2>1. dev' \in {"closed", "open", "mounted"} /\ leaked' \in BOOLEAN
      BY <1>0, <1>4 DEF CreateUndo, CreatePanic, CreationOK
    <2>2. CreationOK'
      BY <1>0, <1>4, <2>1 DEF CreateUndo, CreatePanic, CreationOK
    <2> QED
      BY <1>4, <1>c, <1>s, <2>2 DEF CreateUndo, CreatePanic
  <1>5. ASSUME SendTerminal PROVE Goal
    <2>1. ch' \in Seq(Events) /\ Len(ch') <= Cap
      BY <1>0, <1>5, ProgressAssumption DEF SendTerminal, ChannelOK, Events
    <2>2. CreationOK'
      BY <1>0, <1>5 DEF SendTerminal, CreationOK
    <2> QED
      BY <1>0, <1>5, <1>s, <2>1, <2>2 DEF SendTerminal, ChannelOK
  <1>6. ASSUME CloseChannel PROVE Goal
    <2>1. ChannelOK' /\ CreationOK'
      BY <1>0, <1>6 DEF CloseChannel, ChannelOK, CreationOK
    <2> QED
      BY <1>6, <1>s, <2>1 DEF CloseChannel
  <1>7. ASSUME NEW r \in Readers, ReadEvent(r) PROVE Goal
    <2>1. ch' \in Seq(Events) /\ Len(ch') <= Cap
      BY <1>0, <1>7, TakeStep DEF ReadEvent, ChannelOK
    <2>2. StreamsOK'
      BY <1>0, <1>7 DEF ReadEvent, Move, StreamsOK
    <2> QED
      BY <1>0, <1>7, <1>p, <2>1, <2>2 DEF ReadEvent, ChannelOK
  <1>8. ASSUME NEW r \in Readers, VaultEvents(r) \/ WriteEvent(r) PROVE Goal
    <2>1. StreamsOK'
      BY <1>0, <1>8 DEF VaultEvents, WriteEvent, Move, StreamsOK
    <2> QED
      BY <1>8, <1>c, <1>p, <2>1 DEF VaultEvents, WriteEvent
  <1>9. ASSUME NEW r \in Readers, StreamEnds(r) \/ Disconnect(r) PROVE Goal
    <2>1. StreamsOK'
      BY <1>0, <1>9 DEF StreamEnds, Disconnect, Move, StreamsOK
    <2>2. ChannelOK'
      BY <1>0, <1>9 DEF StreamEnds, Disconnect, ChannelOK, channel
    <2> QED
      BY <1>9, <1>p, <2>1, <2>2 DEF StreamEnds, Disconnect
  <1>10. ASSUME NEW r \in Readers, DrainChannel(r) PROVE Goal
    <2>1. ch' \in Seq(Events) /\ Len(ch') <= Cap
      BY <1>0, <1>10, TakeStep DEF DrainChannel, ChannelOK
    <2>2. StreamsOK'
      BY <1>0, <1>10 DEF DrainChannel, Move, StreamsOK
    <2> QED
      BY <1>0, <1>10, <1>p, <2>1, <2>2 DEF DrainChannel, ChannelOK
  <1>11. ASSUME CleanupJobs PROVE Goal
    <2>1. ChannelOK'
      BY <1>0, <1>11 DEF CleanupJobs, ChannelOK, channel
    <2> QED
      BY <1>11, <1>p, <1>s, <2>1 DEF CleanupJobs
  <1>12. ASSUME Cancel PROVE Goal
    <2>1. CreationOK'
      BY <1>0, <1>12 DEF Cancel, CreationOK, creation
    <2> QED
      BY <1>12, <1>c, <1>s, <2>1 DEF Cancel
  <1>13. Goal
    BY <1>1, <1>2, <1>3, <1>4, <1>5, <1>6, <1>7, <1>8, <1>9, <1>10, <1>11, <1>12
    DEF JobNext, JobStep, Creation, Streaming
  <1> QED
    BY <1>13 DEF JobTypeOK, ChannelOK, CreationOK, StreamsOK, Events

\* The goroutine, any number of readers and the cleaner keep the state well formed.
THEOREM JobTypes == JobSpec => []JobTypeOK
  <1>1. JobTypeOK /\ [JobNext]_jobVars => JobTypeOK'
    <2> SUFFICES ASSUME JobTypeOK, UNCHANGED jobVars PROVE JobTypeOK'
      BY StepTypes
    <2> QED
      BY DEF JobTypeOK, jobVars, channel, creation, streams
  <1> QED
    BY InitTypes, <1>1, PTL DEF JobSpec

-----------------------------------------------------------------------------
(* What the goroutine's place says of the outcome, and of the device.       *)

\* Before the terminal event nothing is decided; after it, all of it is.  Once the
\* channel is closed nobody sends.
OutcomeInv ==
    /\ closed => pc = "end"
    /\ pc \in Stages => outcome = "none"
    /\ pc = "undo" => outcome = "error"
    /\ pc \in {"undo", "terminal"} => outcome \in {"done", "error"}
    /\ fate # "none" => pc \in {"close", "end"}
    /\ outcome = "panic" => pc \in {"close", "end"}
    /\ pc \in {"close", "end"} => outcome = "panic" \/ fate # "none"
    /\ pc \in {"close", "end"} => outcome # "none"
    /\ record <=> outcome = "done"

\* The device is opened by the fourth stage and, after a failure, is closed before
\* anything is reported, or leaked.
DeviceInv ==
    /\ pc \in {"check", "alloc", "format", "open"} => dev = "closed"
    /\ outcome \in {"error", "panic"} /\ pc # "undo" => dev = "closed" \/ leaked

NobodySaw  == \A r \in Readers : ~seen[r]
OneSaw     == \E r \in Readers : \A q \in Readers : seen[q] <=> q = r
OneDrained == \E r \in Readers : rd[r] \in {"draining", "gone"}

\* Where the terminal event is: not sent yet (or never), last in the channel, at
\* one client, or lost to a handler that drains.
EventInv ==
    /\ fate # "sent" => NobodySaw /\ \A i \in 1..Len(ch) : ch[i] = "progress"
    /\ fate = "sent" =>
         \/ /\ ch # <<>> /\ NobodySaw
            /\ \A i \in 1..Len(ch) : ch[i] = "terminal" <=> i = Len(ch)
         \/ ch = <<>> /\ (OneSaw \/ (NobodySaw /\ OneDrained))

\* A handler ends on a closed channel that was read to its end.
EndInv == \A r \in Readers : rd[r] \in {"ended", "gone"} => closed /\ ch = <<>>

JobInv == JobTypeOK /\ OutcomeInv /\ DeviceInv /\ EventInv /\ EndInv

LEMMA InitJob == JobInit => JobInv
  <1> SUFFICES ASSUME JobInit PROVE JobInv
    OBVIOUS
  <1>1. OutcomeInv /\ DeviceInv
    BY StageNames DEF JobInit, OutcomeInv, DeviceInv
  <1>2. EventInv /\ EndInv
    BY DEF JobInit, EventInv, EndInv, NobodySaw
  <1> QED
    BY InitTypes, <1>1, <1>2 DEF JobInv

\* The steps that are not the goroutine's leave its part of the state alone.
LEMMA HandlerStep ==
    ASSUME NEW r \in Readers,
           VaultEvents(r) \/ ReadEvent(r) \/ WriteEvent(r) \/ StreamEnds(r)
             \/ Disconnect(r) \/ DrainChannel(r)
    PROVE  /\ UNCHANGED <<creation, closed, stop>>
           /\ ch' = ch \/ (ch # <<>> /\ ch' = Tail(ch))
  BY DEF VaultEvents, ReadEvent, WriteEvent, StreamEnds, Disconnect, DrainChannel, channel

LEMMA OutcomeStep ==
    ASSUME JobTypeOK, OutcomeInv, JobNext
    PROVE  OutcomeInv'
  <1>1. ASSUME UNCHANGED <<creation, closed>> PROVE OutcomeInv'
    BY <1>1 DEF OutcomeInv, creation
  <1>2. CASE CreateStep
    BY <1>2, StageNames DEF OutcomeInv, CreateStep, JobTypeOK
  <1>3. CASE CreateSave \/ CreateFail \/ CreateUndo \/ CreatePanic
    BY <1>3, StageNames DEF OutcomeInv, CreateSave, CreateFail, CreateUndo, CreatePanic,
       JobTypeOK, channel
  <1>4. CASE SendTerminal \/ CloseChannel
    BY <1>4, StageNames DEF OutcomeInv, SendTerminal, CloseChannel, JobTypeOK
  <1>5. CASE AllocProgress \/ CleanupJobs \/ Cancel
    BY <1>1, <1>5 DEF AllocProgress, CleanupJobs, Cancel, channel
  <1>6. CASE \E r \in Readers : VaultEvents(r) \/ Streaming(r) \/ WriteEvent(r) \/ Disconnect(r)
    BY <1>1, <1>6, HandlerStep DEF Streaming
  <1> QED
    BY <1>2, <1>3, <1>4, <1>5, <1>6 DEF JobNext, JobStep, Creation

LEMMA DeviceStep ==
    ASSUME JobTypeOK, OutcomeInv, DeviceInv, JobNext
    PROVE  DeviceInv'
  <1>1. ASSUME UNCHANGED creation PROVE DeviceInv'
    BY <1>1 DEF DeviceInv, creation
  <1>2. CASE CreateStep
    BY <1>2, StageNames DEF OutcomeInv, DeviceInv, CreateStep
  <1>3. CASE CreateSave \/ CreateFail \/ CreateUndo \/ CreatePanic
    BY <1>3, StageNames DEF OutcomeInv, DeviceInv, CreateSave, CreateFail, CreateUndo,
       CreatePanic
  <1>4. CASE SendTerminal \/ CloseChannel
    BY <1>4 DEF DeviceInv, SendTerminal, CloseChannel
  <1>5. CASE AllocProgress \/ CleanupJobs \/ Cancel
    BY <1>1, <1>5 DEF AllocProgress, CleanupJobs, Cancel
  <1>6. CASE \E r \in Readers : VaultEvents(r) \/ Streaming(r) \/ WriteEvent(r) \/ Disconnect(r)
    BY <1>1, <1>6, HandlerStep DEF Streaming
  <1> QED
    BY <1>2, <1>3, <1>4, <1>5, <1>6 DEF JobNext, JobStep, Creation

\* Whoever appends to the channel has yet to close it.
LEMMA EndStep ==
    ASSUME JobTypeOK, OutcomeInv, EndInv, JobNext
    PROVE  EndInv'
  <1>1. CASE CreateStep \/ AllocProgress \/ SendTerminal \/ CloseChannel
    <2>1. ~closed /\ rd' = rd
      BY <1>1, StageNames DEF OutcomeInv, CreateStep, AllocProgress, SendTerminal,
         CloseChannel, streams
    <2> QED
      BY <2>1 DEF EndInv
  <1>2. CASE CreateSave \/ CreateFail \/ CreateUndo \/ CreatePanic \/ CleanupJobs \/ Cancel
    <2>1. UNCHANGED <<ch, closed, rd>>
      BY <1>2 DEF CreateSave, CreateFail, CreateUndo, CreatePanic, CleanupJobs, Cancel,
         channel, streams
    <2> QED
      BY <2>1 DEF EndInv
  <1>3. ASSUME NEW r \in Readers,
               VaultEvents(r) \/ Streaming(r) \/ WriteEvent(r) \/ Disconnect(r)
        PROVE  EndInv'
    <2>1. closed' = closed /\ (ch = <<>> => ch' = <<>>)
      BY <1>3, HandlerStep DEF Streaming
    <2>2. \A q \in Readers : q # r => rd'[q] = rd[q]
      BY <1>3 DEF JobTypeOK, VaultEvents, Streaming, ReadEvent, WriteEvent, StreamEnds,
         Disconnect, DrainChannel, Move
    <2>3. rd'[r] \in {"ended", "gone"} => closed /\ ch = <<>>
      BY <1>3 DEF JobTypeOK, EndInv, VaultEvents, Streaming, ReadEvent, WriteEvent, StreamEnds,
         Disconnect, DrainChannel, Move
    <2> QED
      BY <2>1, <2>2, <2>3 DEF EndInv
  <1> QED
    BY <1>1, <1>2, <1>3 DEF JobNext, JobStep, Creation

\* An event is taken: a client saw the terminal one, or a draining handler threw
\* it away, or it was not the terminal one and nobody saw anything.
LEMMA EventTaken ==
    ASSUME JobTypeOK, EventInv, NEW r \in Readers, ReadEvent(r) \/ DrainChannel(r)
    PROVE  EventInv'
  <1> USE DEF Events
  <1>0. ch \in Seq(Events) /\ Len(ch) <= Cap /\ fate' = fate
    BY DEF JobTypeOK, ReadEvent, DrainChannel, creation
  <1>1. CASE ReadEvent(r)
    <2>1. /\ ch' \in Seq(Events) /\ Len(ch') = Len(ch) - 1
          /\ Len(ch) \in Nat /\ Len(ch) >= 1 /\ Head(ch) = ch[1]
          /\ \A i \in 1..Len(ch') : ch'[i] = ch[i + 1]
      BY <1>0, <1>1, TakeStep DEF ReadEvent
    <2>2. seen' = [seen EXCEPT ![r] = @ \/ ch[1] = "terminal"]
      BY <1>1, <2>1 DEF ReadEvent
    <2>3. CASE fate # "sent"
      <3>1. ch[1] = "progress" /\ NobodySaw
        BY <2>1, <2>3 DEF EventInv
      <3>2. NobodySaw'
        BY <2>2, <3>1 DEF NobodySaw, JobTypeOK
      <3>3. \A i \in 1..Len(ch') : ch'[i] = "progress"
        BY <2>1, <2>3 DEF EventInv
      <3> QED
        BY <1>0, <2>3, <3>2, <3>3 DEF EventInv
    <2>4. CASE fate = "sent"
      <3>1. /\ NobodySaw
            /\ \A i \in 1..Len(ch) : ch[i] = "terminal" <=> i = Len(ch)
        BY <1>1, <2>4 DEF EventInv, ReadEvent
      <3>2. CASE Len(ch) = 1
        <4>1. ch' = <<>> /\ ch[1] = "terminal"
          BY <2>1, <3>1, <3>2
        <4>2. OneSaw'
          BY <2>2, <3>1, <4>1 DEF NobodySaw, OneSaw, JobTypeOK
        <4> QED
          BY <1>0, <2>4, <4>1, <4>2 DEF EventInv
      <3>3. CASE Len(ch) # 1
        <4>1. ch[1] # "terminal" /\ ch' # <<>>
          BY <2>1, <3>1, <3>3
        <4>2. NobodySaw'
          BY <2>2, <3>1, <4>1 DEF NobodySaw, JobTypeOK
        <4>3. \A i \in 1..Len(ch') : ch'[i] = "terminal" <=> i = Len(ch')
          BY <2>1, <3>1, <3>3
        <4> QED
          BY <1>0, <2>4, <4>1, <4>2, <4>3 DEF EventInv
      <3> QED
        BY <3>2, <3>3
    <2> QED
      BY <2>3, <2>4
  <1>2. CASE DrainChannel(r)
    <2>0. seen' = seen /\ \A q \in Readers : rd[q] \in {"draining", "gone"} => rd'[q] \in {"draining", "gone"}
      BY <1>2 DEF DrainChannel, Move, JobTypeOK
    <2>1. CASE ch' = ch
      BY <1>0, <2>0, <2>1 DEF EventInv, NobodySaw, OneSaw, OneDrained
    <2>2. CASE ch # <<>> /\ ch' = Tail(ch) /\ rd[r] = "draining" /\ rd' = rd
      <3>1. /\ ch' \in Seq(Events) /\ Len(ch') = Len(ch) - 1
            /\ Len(ch) \in Nat /\ Len(ch) >= 1
            /\ \A i \in 1..Len(ch') : ch'[i] = ch[i + 1]
        BY <1>0, <2>2, TakeStep
      <3>2. NobodySaw /\ OneDrained /\ NobodySaw' /\ OneDrained'
        BY <2>0, <2>2 DEF EventInv, NobodySaw, OneDrained
      <3>3. fate # "sent" => \A i \in 1..Len(ch') : ch'[i] = "progress"
        BY <3>1 DEF EventInv
      <3>4. fate = "sent" => \A i \in 1..Len(ch') : ch'[i] = "terminal" <=> i = Len(ch')
        <4>1. fate = "sent" => \A i \in 1..Len(ch) : ch[i] = "terminal" <=> i = Len(ch)
          BY <2>2 DEF EventInv
        <4> QED
          BY <3>1, <4>1
      <3> QED
        BY <1>0, <3>2, <3>3, <3>4 DEF EventInv
    <2> QED
      BY <1>2, <2>1, <2>2 DEF DrainChannel
  <1> QED
    BY <1>1, <1>2

LEMMA EventStep ==
    ASSUME JobTypeOK, OutcomeInv, EventInv, JobNext
    PROVE  EventInv'
  <1>1. CASE CreateStep \/ AllocProgress
    <2>1. fate # "sent" /\ fate' = fate /\ seen' = seen
      BY <1>1, StageNames DEF OutcomeInv, CreateStep, AllocProgress, creation, streams
    <2>2. ch' = ch \/ Send
      BY <1>1 DEF CreateStep, AllocProgress
    <2>3. \A i \in 1..Len(ch') : ch'[i] = "progress"
      BY <2>1, <2>2, SendStep DEF EventInv, JobTypeOK, Events
    <2> QED
      BY <2>1, <2>3 DEF EventInv, NobodySaw
  <1>2. CASE SendTerminal
    <2>1. fate = "none" /\ seen' = seen
      BY <1>2 DEF OutcomeInv, SendTerminal, JobTypeOK, streams
    <2>2. CASE ch' = ch /\ fate' # "sent"
      BY <2>1, <2>2 DEF EventInv, NobodySaw
    <2>3. CASE ch' = Append(ch, "terminal") /\ fate' = "sent"
      <3>1. ch \in Seq(Events) /\ NobodySaw /\ \A i \in 1..Len(ch) : ch[i] = "progress"
        BY <2>1 DEF JobTypeOK, EventInv, Events
      <3>2. /\ ch' # <<>>
            /\ \A i \in 1..Len(ch') : ch'[i] = "terminal" <=> i = Len(ch')
        BY <2>3, <3>1 DEF Events
      <3> QED
        BY <2>1, <2>3, <3>1, <3>2 DEF EventInv, NobodySaw
    <2> QED
      BY <1>2, <2>2, <2>3 DEF SendTerminal
  <1>3. CASE CreateSave \/ CreateFail \/ CreateUndo \/ CreatePanic \/ CloseChannel
               \/ CleanupJobs \/ Cancel
    <2>1. UNCHANGED <<ch, fate, rd, seen>>
      BY <1>3 DEF CreateSave, CreateFail, CreateUndo, CreatePanic, CloseChannel, CleanupJobs,
         Cancel, channel, creation, streams
    <2> QED
      BY <2>1 DEF EventInv, NobodySaw, OneSaw, OneDrained
  <1>4. ASSUME NEW r \in Readers,
               VaultEvents(r) \/ WriteEvent(r) \/ StreamEnds(r) \/ Disconnect(r)
        PROVE  EventInv'
    <2>1. UNCHANGED <<ch, fate, seen>>
      BY <1>4 DEF VaultEvents, WriteEvent, StreamEnds, Disconnect, channel, creation
    <2>2. OneDrained => OneDrained'
      BY <1>4 DEF OneDrained, JobTypeOK, VaultEvents, WriteEvent, StreamEnds, Disconnect, Move
    <2> QED
      BY <2>1, <2>2 DEF EventInv, NobodySaw, OneSaw
  <1> QED
    BY <1>1, <1>2, <1>3, <1>4, EventTaken DEF JobNext, JobStep, Creation, Streaming

\* JobInv is inductive.
LEMMA JobInvStep == JobInv /\ [JobNext]_jobVars => JobInv'
  <1>1. CASE JobInv /\ JobNext
    BY <1>1, StepTypes, OutcomeStep, DeviceStep, EventStep, EndStep DEF JobInv
  <1>2. CASE JobInv /\ UNCHANGED jobVars
    BY <1>2 DEF JobInv, JobTypeOK, OutcomeInv, DeviceInv, EventInv, EndInv, NobodySaw, OneSaw,
       OneDrained, jobVars, channel, creation, streams
  <1> QED
    BY <1>1, <1>2

\* What the two theorems below rest on holds in every state of a creation.
THEOREM JobInvariant == JobSpec => []JobInv
  BY InitJob, JobInvStep, PTL DEF JobSpec

\* The blocking send of vault.go:46-64 does what its comment says: a stream that ran
\* to its end, with no draining handler about and the event not given up, means
\* that exactly one client was sent it.
THEOREM TerminalDelivery == JobSpec => []TerminalDelivered
  <1>1. JobInv => TerminalDelivered
    <2> SUFFICES ASSUME JobInv, outcome \in {"done", "error"}, fate \notin {"timeout", "stopped"},
                        NEW r \in Readers, rd[r] = "ended",
                        \A q \in Readers : rd[q] \notin {"draining", "gone"}
                 PROVE  OneSaw
      BY DEF TerminalDelivered, OneSaw
    <2>1. ch = <<>> /\ pc = "end"
      BY DEF JobInv, EndInv, OutcomeInv
    <2>2. fate = "sent"
      BY <2>1 DEF JobInv, JobTypeOK, OutcomeInv
    <2> QED
      BY <2>1, <2>2 DEF JobInv, EventInv, OneDrained
  <1> QED
    BY <1>1, JobInvariant, PTL

\* A client is never told more than what is so: done comes after the insertion, an
\* error after the clean-up.
THEOREM TerminalTruth == JobSpec => []TerminalTruthful
  <1>1. JobInv => TerminalTruthful
    <2> SUFFICES ASSUME JobInv, NEW r \in Readers, seen[r]
                 PROVE  /\ record <=> outcome = "done"
                        /\ outcome = "error" => dev = "closed" \/ leaked
      BY DEF TerminalTruthful
    <2>1. fate = "sent"
      BY DEF JobInv, EventInv, NobodySaw
    <2> QED
      BY <2>1 DEF JobInv, OutcomeInv, DeviceInv
  <1> QED
    BY <1>1, JobInvariant, PTL

=============================================================================
