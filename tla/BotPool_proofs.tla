--------------------------- MODULE BotPool_proofs ---------------------------
(* Proofs about BotPool, for any bots, channels, messages and bounds.  The   *)
(* argument is about who may come to hold a channel: only the assign in      *)
(* flight of that channel gives it to a bot, and while it is in flight the   *)
(* only bot that can already hold the channel is the one it has chosen.      *)
EXTENDS BotPool, TLAPS

BotRecord ==
  [st : {"free", "assigned", "parked"}, chan : Channels \cup {None},
   sess : Sessions \cup {None}, conf : BOOLEAN]
LiveSession == [chan : Channels, sess : Sessions, driven : BOOLEAN]
Entry ==
  [st : {"assigned", "parked"}, chan : Channels, sess : Sessions \cup {None}]
Slot ==
  [pc : {"idle", "park", "spawn", "feed"}, bot : Bots \cup {None},
   sess : Sessions \cup {None}, msg : 0 .. System]
Job ==
  [op : {"idle", "dark", "restart", "recycle", "retire", "resume"},
   pc : {"idle", "stash", "tail", "spawn", "giveup", "wait", "assign", "assigned"},
   bot : Bots \cup {None}, chan : Channels \cup {None},
   sess : Sessions \cup {None}, conf : BOOLEAN]
Candidate == [bot : Bots, chan : Channels \cup {None}, sess : Sessions \cup {None}]

\* The types, of every variable and not only of what TypeOK looks at.
BotTypes ==
  /\ bots \in [Bots -> BotRecord] /\ tmux \in [Bots -> {None} \cup LiveSession]
  /\ inbound \subseteq Bots /\ disk \subseteq Sessions
ChannelTypes ==
  /\ history \in [Channels -> Sessions \cup {None}]
  /\ owner \in [Channels -> Bots \cup {None}]
  /\ drawn \in [Channels -> 0 .. MaxSessions]
  /\ rel \subseteq Channels /\ life \in {"up", "resume", "reconcile", "down"}
MessageTypes ==
  /\ buffer \in [Channels -> Seq(Msgs)] /\ fate \in [Channels -> [Msgs -> Fates]]
SlotTypes == asg \in [Channels -> Slot]
JobTypes ==
  /\ jobs \in [Jobs -> Job] /\ cands \subseteq Candidate
  /\ probation \subseteq [bot : Bots, chan : Channels, sess : Sessions]

\* At most one bot holds a channel, and a free one holds none.
HoldingIn(bs) ==
  /\ \A b \in Bots : bs[b].st = "free" => bs[b].chan = None
  /\ \A b, d \in Bots : bs[b].chan = bs[d].chan /\ bs[b].chan # None => b = d
Holding == HoldingIn(bots)

\* The same of pool-state.json.
SavedIn(s) ==
  /\ s \in [bots : [Bots -> {None} \cup Entry], hist : [Channels -> Sessions \cup {None}]]
  /\ \A b, d \in Bots :
       s.bots[b] # None /\ s.bots[d] # None /\ s.bots[b].chan = s.bots[d].chan => b = d
SavedHolding == SavedIn(saved)

\* The assign in flight of a channel has chosen a bot, and no other bot holds
\* the channel; on a broker channel it carries a message; the session it made
\* has an id of the channel.
AssignsKnow ==
  \A c \in Channels : asg[c].pc # "idle" =>
    /\ asg[c].bot \in Bots
    /\ \A d \in Bots : bots[d].chan = c => d = asg[c].bot
    /\ UsesBroker(c) => asg[c].msg # 0
    /\ asg[c].pc = "feed" /\ asg[c].sess = None => drawn[c] # 0

\* A procedure knows its bot and its channel; only plugin channels see a restart
\* or a resume, and a resume has a session to resume.
Knowing(k) ==
  k.op # "idle" =>
    /\ k.bot \in Bots /\ k.chan \in Channels
    /\ k.op \in {"restart", "resume"} => ~UsesBroker(k.chan)
    /\ k.op = "resume" => k.sess \in Sessions
JobsKnow == \A j \in Jobs : Knowing(jobs[j])
CandsKnow ==
  life = "resume" => \A x \in cands : x.chan \in Channels /\ x.sess \in Sessions

\* A daemon that is down has nothing in flight.
DownIsIdle ==
  life = "down" => /\ \A c \in Channels : asg[c].pc = "idle"
                   /\ \A j \in Jobs : jobs[j].op = "idle"

IInv ==
  /\ BotTypes /\ ChannelTypes /\ MessageTypes /\ SlotTypes /\ JobTypes
  /\ Holding /\ SavedHolding /\ AssignsKnow /\ JobsKnow /\ CandsKnow /\ DownIsIdle
  /\ BrokerSessionsAreDriven /\ BufferIsTransient

--------------------------------------------------------------------------------
(* Facts about the records and the helpers of the model.                       *)

LEMMA Numbers ==
  MaxMsgs \in Nat /\ MaxSessions \in Nat /\ None \notin Channels /\ None \notin Bots
<1> QED  BY PoolAssumption

\* What leaves the variables of a part alone keeps the part.
LEMMA Frames ==
  /\ BotTypes /\ UNCHANGED <<bots, tmux, inbound, disk>> => BotTypes'
  /\ ChannelTypes /\ UNCHANGED <<history, owner, drawn, rel, life>> => ChannelTypes'
  /\ MessageTypes /\ UNCHANGED <<buffer, fate>> => MessageTypes'
  /\ SlotTypes /\ UNCHANGED asg => SlotTypes'
  /\ JobTypes /\ UNCHANGED <<jobs, cands, probation>> => JobTypes'
  /\ Holding /\ UNCHANGED bots => Holding'
  /\ SavedHolding /\ UNCHANGED saved => SavedHolding'
  /\ AssignsKnow /\ UNCHANGED <<asg, bots, drawn>> => AssignsKnow'
  /\ JobsKnow /\ UNCHANGED jobs => JobsKnow'
  /\ CandsKnow /\ UNCHANGED <<life, cands>> => CandsKnow'
  /\ BrokerSessionsAreDriven /\ UNCHANGED tmux => BrokerSessionsAreDriven'
  /\ BufferIsTransient /\ UNCHANGED <<buffer, asg>> => BufferIsTransient'
  /\ DownIsIdle /\ UNCHANGED <<life, asg, jobs>> => DownIsIdle'
<1>1. BotTypes /\ UNCHANGED <<bots, tmux, inbound, disk>> => BotTypes'  BY DEF BotTypes
<1>2. ChannelTypes /\ UNCHANGED <<history, owner, drawn, rel, life>> => ChannelTypes'
  BY DEF ChannelTypes
<1>3. MessageTypes /\ UNCHANGED <<buffer, fate>> => MessageTypes'  BY DEF MessageTypes
<1>4. SlotTypes /\ UNCHANGED asg => SlotTypes'  BY DEF SlotTypes
<1>5. JobTypes /\ UNCHANGED <<jobs, cands, probation>> => JobTypes'  BY DEF JobTypes
<1>6. Holding /\ UNCHANGED bots => Holding'  BY DEF Holding
<1>7. SavedHolding /\ UNCHANGED saved => SavedHolding'  BY DEF SavedHolding
<1>8. AssignsKnow /\ UNCHANGED <<asg, bots, drawn>> => AssignsKnow'  BY DEF AssignsKnow
<1>9. JobsKnow /\ UNCHANGED jobs => JobsKnow'  BY DEF JobsKnow
<1>10. CandsKnow /\ UNCHANGED <<life, cands>> => CandsKnow'  BY DEF CandsKnow
<1>11. BrokerSessionsAreDriven /\ UNCHANGED tmux => BrokerSessionsAreDriven'
  BY DEF BrokerSessionsAreDriven, Alive
<1>12. BufferIsTransient /\ UNCHANGED <<buffer, asg>> => BufferIsTransient'
  BY DEF BufferIsTransient
<1>13. DownIsIdle /\ UNCHANGED <<life, asg, jobs>> => DownIsIdle'  BY DEF DownIsIdle
<1> QED
  BY <1>1, <1>2, <1>3, <1>4, <1>5, <1>6, <1>7, <1>8, <1>9, <1>10, <1>11, <1>12, <1>13

LEMMA BotFields ==
  ASSUME BotTypes, NEW b \in Bots
  PROVE  /\ bots[b] \in BotRecord
         /\ bots[b].st \in {"free", "assigned", "parked"} /\ bots[b].conf \in BOOLEAN
         /\ bots[b].chan \in Channels \cup {None} /\ bots[b].sess \in Sessions \cup {None}
         /\ bots[b] = [st |-> bots[b].st, chan |-> bots[b].chan, sess |-> bots[b].sess,
                       conf |-> bots[b].conf]
<1> QED  BY DEF BotTypes, BotRecord

LEMMA JobFields ==
  ASSUME JobTypes, NEW j \in Jobs
  PROVE  /\ jobs[j] \in Job
         /\ jobs[j].bot \in Bots \cup {None} /\ jobs[j].chan \in Channels \cup {None}
         /\ jobs[j].sess \in Sessions \cup {None} /\ jobs[j].conf \in BOOLEAN
<1> QED  BY DEF JobTypes, Job

LEMMA SlotFields ==
  ASSUME SlotTypes, NEW c \in Channels
  PROVE  /\ asg[c] \in Slot
         /\ asg[c].bot \in Bots \cup {None} /\ asg[c].sess \in Sessions \cup {None}
         /\ asg[c].msg \in 0 .. System
<1> QED  BY DEF SlotTypes, Slot

LEMMA Blanks ==
  /\ FreeBot \in BotRecord /\ FreeBot.st = "free" /\ FreeBot.chan = None
  /\ \A x \in BOOLEAN : /\ [FreeBot EXCEPT !.conf = x] \in BotRecord
                        /\ [FreeBot EXCEPT !.conf = x].st = "free"
                        /\ [FreeBot EXCEPT !.conf = x].chan = None
  /\ NoAssign \in Slot /\ NoAssign.pc = "idle"
  /\ NoJob \in Job /\ NoJob.op = "idle"
<1>1. System \in Nat /\ 0 \in 0 .. System  BY Numbers DEF System
<1> QED  BY <1>1 DEF FreeBot, BotRecord, NoAssign, Slot, NoJob, Job

LEMMA Assignee ==
  ASSUME NEW c \in Channels, Assigned(c) # {}
  PROVE  /\ GetAssignment(c) \in Bots /\ GetAssignment(c) \in Assigned(c)
         /\ bots[GetAssignment(c)].st = "assigned" /\ bots[GetAssignment(c)].chan = c
<1> QED  BY DEF GetAssignment, Assigned

LEMMA Unassigned ==
  ASSUME NEW c \in Channels
  PROVE  GetAssignment(c) # None => Assigned(c) # {}
<1> QED  BY DEF GetAssignment

LEMMA FateTypes ==
  ASSUME MessageTypes, NEW c \in Channels, NEW f \in Fates
  PROVE  /\ \A m : Fated(c, m, f) \in [Channels -> [Msgs -> Fates]]
         /\ \A ms : FatedAll(c, ms, f) \in [Channels -> [Msgs -> Fates]]
<1>1. ASSUME NEW m PROVE Fated(c, m, f) \in [Channels -> [Msgs -> Fates]]
  BY DEF MessageTypes, Fated
<1>2. ASSUME NEW ms PROVE FatedAll(c, ms, f) \in [Channels -> [Msgs -> Fates]]
  BY DEF MessageTypes, FatedAll
<1> QED  BY <1>1, <1>2

LEMMA HistoryTypes ==
  ASSUME ChannelTypes, BotTypes, NEW c \in Channels \cup {None}, NEW s \in Sessions \cup {None},
         NEW conf \in BOOLEAN
  PROVE  Stashed(c, s, conf) \in [Channels -> Sessions \cup {None}]
<1> QED  BY DEF ChannelTypes, Stashed

LEMMA WithHistoryTypes ==
  ASSUME ChannelTypes, BotTypes, NEW b \in Bots
  PROVE  WithHistory(b) \in [Channels -> Sessions \cup {None}]
<1> QED  BY BotFields DEF ChannelTypes, WithHistory

LEMMA EvictionTypes ==
  ASSUME ChannelTypes, BotTypes, NEW b \in Bots, NEW c
  PROVE  EvictionStash(c, b) \in [Channels -> Sessions \cup {None}]
<1> QED  BY BotFields DEF ChannelTypes, EvictionStash

\* What is saved of a pool in order is in order.
LEMMA SnapshotHolds ==
  ASSUME NEW bs \in [Bots -> BotRecord], NEW h \in [Channels -> Sessions \cup {None}],
         HoldingIn(bs)
  PROVE  SavedIn(Snapshot(bs, h))
<1> DEFINE e(b) == [st |-> bs[b].st, chan |-> bs[b].chan,
                    sess |-> IF bs[b].conf THEN bs[b].sess ELSE None]
           x(b) == IF bs[b].st # "free" /\ bs[b].chan # None THEN e(b) ELSE None
           f == [b \in Bots |-> x(b)]
<1>1. Snapshot(bs, h) = [bots |-> f, hist |-> h]  BY DEF Snapshot
<1>2. ASSUME NEW b \in Bots
      PROVE  /\ x(b) \in {None} \cup Entry
             /\ x(b) # None => x(b).chan = bs[b].chan /\ bs[b].chan # None
  <2>1. bs[b] \in BotRecord  OBVIOUS
  <2>2. CASE bs[b].st # "free" /\ bs[b].chan # None
    <3>1. x(b) = e(b)  BY <2>2
    <3>2. e(b) \in Entry /\ e(b).chan = bs[b].chan  BY <2>1, <2>2 DEF BotRecord, Entry
    <3> QED  BY <2>2, <3>1, <3>2
  <2>3. CASE ~(bs[b].st # "free" /\ bs[b].chan # None)  BY <2>3
  <2> QED  BY <2>2, <2>3
<1>3. f \in [Bots -> {None} \cup Entry] /\ \A b \in Bots : f[b] = x(b)  BY <1>2
<1>4. ASSUME NEW b \in Bots, NEW d \in Bots, f[b] # None, f[d] # None, f[b].chan = f[d].chan
      PROVE  b = d
  <2>1. bs[b].chan = bs[d].chan /\ bs[b].chan # None  BY <1>2, <1>3, <1>4
  <2> QED  BY <2>1 DEF HoldingIn
<1> HIDE DEF f
<1> QED  BY <1>1, <1>3, <1>4 DEF SavedIn

LEMMA PersistHolds ==
  ASSUME BotTypes', ChannelTypes', Holding', Persist
  PROVE  SavedHolding'
<1>1. bots' \in [Bots -> BotRecord] /\ history' \in [Channels -> Sessions \cup {None}]
  BY DEF BotTypes, ChannelTypes
<1>2. HoldingIn(bots')  BY DEF Holding, HoldingIn
<1>3. SavedIn(Snapshot(bots', history'))  BY <1>1, <1>2, SnapshotHolds
<1>4. SavedIn(saved')  BY <1>3 DEF Persist
<1> QED  BY <1>4 DEF SavedHolding, SavedIn

\* Bots that only let go of channels, and assigns that only come nearer to their
\* end, keep the pool in order.
LEMMA LetGo ==
  ASSUME Holding, AssignsKnow, ChannelTypes, ChannelTypes',
         \A b \in Bots : /\ bots'[b].chan = bots[b].chan \/ bots'[b].chan = None
                         /\ bots'[b].st = "free" => bots'[b].chan = None,
         \A c \in Channels : asg'[c].pc # "idle" =>
           /\ asg[c].pc # "idle" /\ asg'[c].bot = asg[c].bot
           /\ asg'[c].msg = asg[c].msg /\ asg'[c].sess = asg[c].sess
           /\ asg'[c].pc = "feed" => asg[c].pc = "feed",
         \A c \in Channels : drawn[c] # 0 => drawn'[c] # 0
  PROVE  Holding' /\ AssignsKnow'
<1>1. ASSUME NEW b \in Bots, NEW d \in Bots, bots'[b].chan = bots'[d].chan,
             bots'[b].chan # None
      PROVE  b = d
  <2>1. bots[b].chan = bots[d].chan /\ bots[b].chan # None  BY <1>1
  <2> QED  BY <2>1 DEF Holding, HoldingIn
<1>4. Holding'  BY <1>1 DEF Holding, HoldingIn
<1>2. ASSUME NEW c \in Channels, asg'[c].pc # "idle"
      PROVE  /\ asg'[c].bot \in Bots
             /\ \A d \in Bots : bots'[d].chan = c => d = asg'[c].bot
             /\ UsesBroker(c) => asg'[c].msg # 0
             /\ asg'[c].pc = "feed" /\ asg'[c].sess = None => drawn'[c] # 0
  <2>1. c # None  BY Numbers
  <2> QED  BY <1>2, <2>1 DEF AssignsKnow
<1>3. AssignsKnow'  BY <1>2 DEF AssignsKnow, UsesBroker
<1> QED  BY <1>4, <1>3

\* Sessions that only end leave the others driven.
LEMMA Quieter ==
  ASSUME BrokerSessionsAreDriven,
         \A b \in Bots : tmux'[b] = tmux[b] \/ tmux'[b] = None
  PROVE  BrokerSessionsAreDriven'
<1> QED  BY DEF BrokerSessionsAreDriven, Alive

\* A bot that is changed alone: its record, and what follows for the others.
LEMMA OneBot ==
  ASSUME BotTypes, NEW b \in Bots, NEW r \in BotRecord, bots' = [bots EXCEPT ![b] = r],
         r.chan = bots[b].chan \/ r.chan = None, r.st = "free" => r.chan = None, Holding
  PROVE  /\ bots' \in [Bots -> BotRecord] /\ bots'[b] = r
         /\ \A d \in Bots : /\ bots'[d].chan = bots[d].chan \/ bots'[d].chan = None
                            /\ bots'[d].st = "free" => bots'[d].chan = None
<1>1. bots' \in [Bots -> BotRecord] /\ bots'[b] = r /\ \A d \in Bots : d # b => bots'[d] = bots[d]
  BY DEF BotTypes
<1>2. ASSUME NEW d \in Bots
      PROVE  /\ bots'[d].chan = bots[d].chan \/ bots'[d].chan = None
             /\ bots'[d].st = "free" => bots'[d].chan = None
  <2>1. CASE d = b  BY <1>1, <2>1
  <2>2. CASE d # b  BY <1>1, <2>2 DEF Holding, HoldingIn
  <2> QED  BY <2>1, <2>2
<1> QED  BY <1>1, <1>2

\* A job that is changed alone.
LEMMA OneJob ==
  ASSUME JobTypes, JobsKnow, NEW j \in Jobs, NEW k \in Job, Knowing(k),
         jobs' = [jobs EXCEPT ![j] = k]
  PROVE  jobs' \in [Jobs -> Job] /\ JobsKnow'
<1>1. jobs' \in [Jobs -> Job] /\ jobs'[j] = k /\ \A i \in Jobs : i # j => jobs'[i] = jobs[i]
  BY DEF JobTypes
<1>2. ASSUME NEW i \in Jobs PROVE Knowing(jobs'[i])
  <2>1. CASE i = j  BY <1>1, <2>1
  <2>2. CASE i # j  BY <1>1, <2>2 DEF JobsKnow
  <2> QED  BY <2>1, <2>2
<1> QED  BY <1>1, <1>2 DEF JobsKnow, Knowing, UsesBroker

LEMMA JobEnds ==
  ASSUME JobTypes, JobsKnow, NEW j \in Jobs, jobs' = [jobs EXCEPT ![j] = NoJob]
  PROVE  jobs' \in [Jobs -> Job] /\ JobsKnow'
<1>1. NoJob \in Job /\ Knowing(NoJob)  BY Blanks DEF Knowing
<1> QED  BY <1>1, OneJob

LEMMA JobMoves ==
  ASSUME JobTypes, JobsKnow, NEW j \in Jobs,
         NEW pc \in {"tail", "wait", "assign", "assigned"},
         jobs' = [jobs EXCEPT ![j].pc = pc]
  PROVE  jobs' \in [Jobs -> Job] /\ JobsKnow'
<1> DEFINE k == [jobs[j] EXCEPT !.pc = pc]
<1>1. jobs[j] \in Job /\ Knowing(jobs[j])  BY DEF JobTypes, JobsKnow
<1>2. /\ k \in Job /\ k.op = jobs[j].op /\ k.bot = jobs[j].bot /\ k.chan = jobs[j].chan
      /\ k.sess = jobs[j].sess
  BY <1>1 DEF Job
<1>3. Knowing(k)  BY <1>1, <1>2 DEF Knowing
<1>4. jobs' = [jobs EXCEPT ![j] = k]  OBVIOUS
<1> HIDE DEF k
<1> QED  BY <1>2, <1>3, <1>4, OneJob

\* What a procedure captures when it starts at a bot that has a channel.
LEMMA Capture ==
  ASSUME BotTypes, JobTypes, JobsKnow, NEW j \in Jobs, NEW b \in Bots,
         NEW s \in Sessions \cup {None},
         NEW op \in {"dark", "restart", "recycle", "retire"}, NEW pc \in {"stash", "spawn"},
         bots[b].chan \in Channels, op = "restart" => ~UsesBroker(bots[b].chan),
         jobs' = [jobs EXCEPT ![j] = Captured(op, pc, b, s)]
  PROVE  jobs' \in [Jobs -> Job] /\ JobsKnow'
<1> DEFINE k == Captured(op, pc, b, s)
<1>1. k = [op |-> op, pc |-> pc, bot |-> b, chan |-> bots[b].chan, sess |-> s,
           conf |-> bots[b].conf]
  BY DEF Captured
<1>2. bots[b].conf \in BOOLEAN  BY BotFields
<1>5. k \in Job  BY <1>1, <1>2 DEF Job
<1>3. Knowing(k)  BY <1>1 DEF Knowing
<1> HIDE DEF k
<1>4. jobs' = [jobs EXCEPT ![j] = k]  BY DEF k
<1> QED  BY <1>5, <1>3, <1>4, OneJob

--------------------------------------------------------------------------------
(* The inductive invariant: the initial state, then one lemma for each action. *)

LEMMA InitInv == Init => IInv
<1> SUFFICES ASSUME Init PROVE IInv  OBVIOUS
<1>1. BotTypes /\ ChannelTypes /\ SlotTypes /\ JobTypes
  BY Blanks, Numbers DEF Init, BotTypes, ChannelTypes, SlotTypes, JobTypes
<1>2. MessageTypes  BY DEF Init, MessageTypes, Fates
<1>3. Holding  BY Blanks DEF Init, Holding, HoldingIn
<1>4. SavedHolding  BY DEF Init, SavedHolding, SavedIn
<1>5. AssignsKnow /\ JobsKnow /\ CandsKnow
  BY Blanks DEF Init, AssignsKnow, JobsKnow, Knowing, CandsKnow
<1>6. BrokerSessionsAreDriven /\ BufferIsTransient
  BY DEF Init, BrokerSessionsAreDriven, BufferIsTransient, Alive
<1>7. DownIsIdle  BY DEF Init, DownIsIdle
<1> QED  BY <1>1, <1>2, <1>3, <1>4, <1>5, <1>6, <1>7 DEF IInv

(* Sessions. *)

LEMMA SessionDiesInv ==
  ASSUME IInv, NEW b \in Bots, SessionDies(b)
  PROVE  IInv'
<1>1. tmux' \in [Bots -> {None} \cup LiveSession]
      /\ \A d \in Bots : tmux'[d] = tmux[d] \/ tmux'[d] = None
  BY DEF IInv, BotTypes, SessionDies
<1>2. BotTypes'  BY <1>1 DEF IInv, BotTypes, SessionDies
<1>3. BrokerSessionsAreDriven'  BY <1>1, Quieter DEF IInv
<1> QED  BY <1>2, <1>3, Frames DEF IInv, SessionDies, proc

LEMMA WriteTranscriptInv ==
  ASSUME IInv, NEW b \in Bots, WriteTranscript(b)
  PROVE  IInv'
<1>1. tmux[b] \in LiveSession  BY DEF IInv, BotTypes, WriteTranscript, Alive
<1>2. tmux[b].sess \in Sessions  BY <1>1 DEF LiveSession
<1>3. BotTypes'  BY <1>2 DEF IInv, BotTypes, WriteTranscript
<1> QED  BY <1>3, Frames DEF IInv, WriteTranscript, proc

LEMMA ConfirmSessionInv ==
  ASSUME IInv, NEW b \in Bots, ConfirmSession(b)
  PROVE  IInv'
<1> DEFINE r == [bots[b] EXCEPT !.conf = TRUE]
<1>1. bots[b] \in BotRecord  BY BotFields DEF IInv
<1>2. r \in BotRecord /\ r.chan = bots[b].chan /\ r.st = "assigned"
  BY <1>1 DEF BotRecord, ConfirmSession
<1>3. bots' = [bots EXCEPT ![b] = r]  BY DEF ConfirmSession
<1> HIDE DEF r
<1>4. /\ bots' \in [Bots -> BotRecord]
      /\ \A d \in Bots : /\ bots'[d].chan = bots[d].chan \/ bots'[d].chan = None
                         /\ bots'[d].st = "free" => bots'[d].chan = None
  BY <1>2, <1>3, OneBot DEF IInv
<1>8. BotTypes'  BY <1>4 DEF IInv, BotTypes, ConfirmSession
<1>9. ChannelTypes'  BY Frames DEF IInv, ConfirmSession, proc
<1>5. BotTypes' /\ ChannelTypes'  BY <1>8, <1>9
<1>6. Holding' /\ AssignsKnow'  BY <1>4, <1>5, LetGo DEF IInv, ConfirmSession, proc
<1>7. SavedHolding'  BY <1>5, <1>6, PersistHolds DEF ConfirmSession
<1> QED  BY <1>5, <1>6, <1>7, Frames DEF IInv, ConfirmSession, proc

(* The maintenance jobs. *)

LEMMA DarkFreeInv ==
  ASSUME IInv, NEW j \in Jobs, DarkFree(j)
  PROVE  IInv'
<1>1. jobs[j].op # "idle"  BY DEF DarkFree
<1>2. jobs[j].bot \in Bots /\ jobs[j].chan \in Channels  BY <1>1 DEF IInv, JobsKnow, Knowing
<1>3. /\ bots' \in [Bots -> BotRecord]
      /\ \A d \in Bots : /\ bots'[d].chan = bots[d].chan \/ bots'[d].chan = None
                         /\ bots'[d].st = "free" => bots'[d].chan = None
  BY <1>2, OneBot, Blanks DEF IInv, DarkFree
<1>4. tmux' \in [Bots -> {None} \cup LiveSession]
      /\ \A d \in Bots : tmux'[d] = tmux[d] \/ tmux'[d] = None
  BY <1>2 DEF IInv, BotTypes, DarkFree
<1>5. BotTypes'  BY <1>3, <1>4 DEF IInv, BotTypes, DarkFree
<1>6. history' \in [Channels -> Sessions \cup {None}]
  BY <1>2, JobFields, HistoryTypes DEF IInv, DarkFree
<1>7. ChannelTypes'  BY <1>6 DEF IInv, ChannelTypes, DarkFree
<1>8. Holding' /\ AssignsKnow'  BY <1>3, <1>7, LetGo DEF IInv, DarkFree
<1>9. jobs' \in [Jobs -> Job] /\ JobsKnow'  BY JobMoves DEF IInv, DarkFree
<1>10. JobTypes'  BY <1>9 DEF IInv, JobTypes, DarkFree
<1>11. BrokerSessionsAreDriven'  BY <1>4, Quieter DEF IInv
<1>30. DownIsIdle'  BY DEF IInv, DownIsIdle, DarkFree
<1> QED  BY <1>5, <1>7, <1>8, <1>9, <1>10, <1>11, <1>30, Frames DEF IInv, DarkFree

LEMMA DarkEndsInv ==
  ASSUME IInv, NEW j \in Jobs, DarkEnds(j)
  PROVE  IInv'
<1>1. ChannelTypes'  BY DEF IInv, ChannelTypes, DarkEnds
<1>2. BotTypes' /\ Holding'  BY Frames DEF IInv, DarkEnds
<1>3. SavedHolding'  BY <1>1, <1>2, PersistHolds DEF DarkEnds
<1>4. jobs' \in [Jobs -> Job] /\ JobsKnow'  BY JobEnds DEF IInv, DarkEnds
<1>5. JobTypes'  BY <1>4 DEF IInv, JobTypes, DarkEnds
<1>30. DownIsIdle'  BY DEF IInv, DownIsIdle, DarkEnds
<1> QED  BY <1>1, <1>2, <1>3, <1>4, <1>5, <1>30, Frames DEF IInv, DarkEnds

LEMMA RestartFailedInv ==
  ASSUME IInv, NEW j \in Jobs, RestartFailed(j)
  PROVE  IInv'
<1> DEFINE x == bots[jobs[j].bot].conf
           k == [jobs[j] EXCEPT !.pc = "giveup", !.conf = x]
<1>1. jobs[j] \in Job /\ Knowing(jobs[j]) /\ jobs[j].op # "idle"
  BY DEF IInv, JobTypes, JobsKnow, RestartFailed
<1>2. x \in BOOLEAN  BY <1>1, BotFields DEF IInv, Knowing
<1>3. jobs' = [jobs EXCEPT ![j] = k]  BY DEF RestartFailed, IInv, JobTypes
<1> HIDE DEF x
<1>4. /\ k \in Job /\ k.op = jobs[j].op /\ k.bot = jobs[j].bot /\ k.chan = jobs[j].chan
      /\ k.sess = jobs[j].sess
  BY <1>1, <1>2 DEF Job
<1>5. Knowing(k)  BY <1>1, <1>4 DEF Knowing
<1> HIDE DEF k
<1>6. jobs' \in [Jobs -> Job] /\ JobsKnow'  BY <1>3, <1>4, <1>5, OneJob DEF IInv
<1>7. JobTypes'  BY <1>6 DEF IInv, JobTypes, RestartFailed
<1>30. DownIsIdle'  BY DEF IInv, DownIsIdle, RestartFailed
<1> QED  BY <1>6, <1>7, <1>30, Frames DEF IInv, RestartFailed, pool

LEMMA RestartGivesUpInv ==
  ASSUME IInv, NEW j \in Jobs, RestartGivesUp(j)
  PROVE  IInv'
<1>1. jobs[j].op # "idle"  BY DEF RestartGivesUp
<1>2. jobs[j].bot \in Bots /\ jobs[j].chan \in Channels  BY <1>1 DEF IInv, JobsKnow, Knowing
<1>3. bots[jobs[j].bot].conf \in BOOLEAN  BY <1>2, BotFields DEF IInv
<1>4. /\ bots' \in [Bots -> BotRecord]
      /\ \A d \in Bots : /\ bots'[d].chan = bots[d].chan \/ bots'[d].chan = None
                         /\ bots'[d].st = "free" => bots'[d].chan = None
  <2> DEFINE r == [FreeBot EXCEPT !.conf = bots[jobs[j].bot].conf]
  <2>1. r \in BotRecord /\ r.st = "free" /\ r.chan = None  BY <1>3, Blanks
  <2>2. bots' = [bots EXCEPT ![jobs[j].bot] = r]  BY DEF RestartGivesUp
  <2> HIDE DEF r
  <2> QED  BY <1>2, <2>1, <2>2, OneBot DEF IInv
<1>5. BotTypes'  BY <1>4 DEF IInv, BotTypes, RestartGivesUp
<1>6. history' \in [Channels -> Sessions \cup {None}]
  BY <1>2, JobFields, HistoryTypes DEF IInv, RestartGivesUp
<1>7. ChannelTypes'  BY <1>6 DEF IInv, ChannelTypes, RestartGivesUp
<1>8. Holding' /\ AssignsKnow'  BY <1>4, <1>7, LetGo DEF IInv, RestartGivesUp
<1>9. SavedHolding'  BY <1>5, <1>7, <1>8, PersistHolds DEF RestartGivesUp
<1>10. jobs' \in [Jobs -> Job] /\ JobsKnow'  BY JobEnds DEF IInv, RestartGivesUp
<1>11. JobTypes'  BY <1>10 DEF IInv, JobTypes, RestartGivesUp
<1>30. DownIsIdle'  BY DEF IInv, DownIsIdle, RestartGivesUp
<1> QED  BY <1>5, <1>7, <1>8, <1>9, <1>10, <1>11, <1>30, Frames DEF IInv, RestartGivesUp

\* A restart is of a plugin channel, so the session it makes needs no driver.
LEMMA RestartSpawnedInv ==
  ASSUME IInv, NEW j \in Jobs, RestartSpawned(j)
  PROVE  IInv'
<1> DEFINE b == jobs[j].bot
           c == jobs[j].chan
           resume == jobs[j].sess # None /\ jobs[j].sess \in disk
           s == IF resume THEN jobs[j].sess ELSE Fresh(c)
           r == [bots[b] EXCEPT !.sess = s, !.conf = resume]
           live == [chan |-> c, sess |-> s, driven |-> FALSE]
<1>1. b \in Bots /\ c \in Channels /\ ~UsesBroker(c)
  BY DEF IInv, JobsKnow, Knowing, RestartSpawned
<1>2. s \in Sessions  BY DEF RestartSpawned
<1>3. /\ bots' = [bots EXCEPT ![b].sess = s, ![b].conf = resume]
      /\ tmux' = [tmux EXCEPT ![b] = live]
      /\ drawn' = [drawn EXCEPT ![c] = IF resume THEN @ ELSE @ + 1]
      /\ jobs' = [jobs EXCEPT ![j] = NoJob]
  BY DEF RestartSpawned, Spawn
<1>4. ~resume => drawn[c] + 1 \in 1 .. MaxSessions  BY <1>2 DEF Fresh, Sessions
<1>5. resume \in BOOLEAN  OBVIOUS
<1> HIDE DEF s, resume, b, c
<1>6. drawn[c] \in 0 .. MaxSessions  BY <1>1 DEF IInv, ChannelTypes
<1>7. drawn' \in [Channels -> 0 .. MaxSessions] /\ \A d \in Channels : drawn[d] # 0 => drawn'[d] # 0
  <2>1. CASE resume
    <3>1. drawn' = [drawn EXCEPT ![c] = drawn[c]]  BY <1>3, <2>1
    <3>2. drawn' = drawn  BY <1>1, <3>1 DEF IInv, ChannelTypes
    <3> QED  BY <3>2 DEF IInv, ChannelTypes
  <2>2. CASE ~resume
    <3>1. drawn' = [drawn EXCEPT ![c] = drawn[c] + 1]  BY <1>3, <2>2
    <3>2. drawn[c] + 1 \in 0 .. MaxSessions /\ drawn[c] + 1 # 0  BY <1>4, <2>2, Numbers
    <3> QED  BY <1>1, <3>1, <3>2 DEF IInv, ChannelTypes
  <2> QED  BY <2>1, <2>2
<1>8. bots[b] \in BotRecord  BY <1>1, BotFields DEF IInv
<1>9. r \in BotRecord /\ r.chan = bots[b].chan /\ r.st = bots[b].st
  BY <1>2, <1>5, <1>8 DEF BotRecord
<1>10. bots' = [bots EXCEPT ![b] = r]  BY <1>3 DEF IInv, BotTypes
<1> HIDE DEF r
<1>11. /\ bots' \in [Bots -> BotRecord]
       /\ \A d \in Bots : /\ bots'[d].chan = bots[d].chan \/ bots'[d].chan = None
                          /\ bots'[d].st = "free" => bots'[d].chan = None
  <2>1. r.st = "free" => r.chan = None  BY <1>1, <1>9 DEF IInv, Holding, HoldingIn
  <2> QED  BY <1>1, <1>9, <1>10, <2>1, OneBot DEF IInv
<1>12. live \in LiveSession /\ live.chan = c  BY <1>1, <1>2 DEF LiveSession
<1> HIDE DEF live
<1>13. tmux' \in [Bots -> {None} \cup LiveSession]
       /\ tmux'[b].chan = c /\ \A d \in Bots : d # b => tmux'[d] = tmux[d]
  BY <1>1, <1>3, <1>12 DEF IInv, BotTypes
<1>14. BotTypes'  BY <1>11, <1>13 DEF IInv, BotTypes, RestartSpawned
<1>15. ChannelTypes'  BY <1>7 DEF IInv, ChannelTypes, RestartSpawned
<1>16. Holding' /\ AssignsKnow'  BY <1>7, <1>11, <1>15, LetGo DEF IInv, RestartSpawned
<1>17. SavedHolding'  BY <1>14, <1>15, <1>16, PersistHolds DEF RestartSpawned
<1>18. jobs' \in [Jobs -> Job] /\ JobsKnow'  BY <1>3, JobEnds DEF IInv
<1>19. JobTypes'  BY <1>18 DEF IInv, JobTypes, RestartSpawned
<1>20. BrokerSessionsAreDriven'
  BY <1>1, <1>13 DEF IInv, BrokerSessionsAreDriven, Alive, UsesBroker
<1>30. DownIsIdle'  BY DEF IInv, DownIsIdle, RestartSpawned
<1> QED
  BY <1>14, <1>15, <1>16, <1>17, <1>18, <1>19, <1>20, <1>30, Frames DEF IInv, RestartSpawned

\* A release keeps the pool in order and ends a session.
LEMMA Released ==
  ASSUME BotTypes, Holding, ChannelTypes, NEW c \in Channels, ReleaseNow(c)
  PROVE  /\ bots' \in [Bots -> BotRecord]
         /\ tmux' \in [Bots -> {None} \cup LiveSession] /\ rel' \subseteq Channels
         /\ \A d \in Bots : /\ bots'[d].chan = bots[d].chan \/ bots'[d].chan = None
                            /\ bots'[d].st = "free" => bots'[d].chan = None
         /\ \A d \in Bots : tmux'[d] = tmux[d] \/ tmux'[d] = None
<1>1. CASE Releasable(c)
  <2> DEFINE b == GetAssignment(c)
  <2>1. b \in Bots  BY <1>1, Assignee DEF Releasable
  <2>2. /\ tmux' = [tmux EXCEPT ![b] = None] /\ bots' = [bots EXCEPT ![b] = FreeBot]
        /\ rel' = rel \cup {c}
    BY <1>1 DEF ReleaseNow
  <2> HIDE DEF b
  <2>3. /\ bots' \in [Bots -> BotRecord]
        /\ \A d \in Bots : /\ bots'[d].chan = bots[d].chan \/ bots'[d].chan = None
                           /\ bots'[d].st = "free" => bots'[d].chan = None
    BY <2>1, <2>2, OneBot, Blanks
  <2>4. tmux' \in [Bots -> {None} \cup LiveSession]
        /\ \A d \in Bots : tmux'[d] = tmux[d] \/ tmux'[d] = None
    BY <2>1, <2>2 DEF BotTypes
  <2>5. rel' \subseteq Channels  BY <2>2 DEF ChannelTypes
  <2> QED  BY <2>3, <2>4, <2>5
<1>2. CASE ~Releasable(c)
  <2>1. tmux' = tmux /\ bots' = bots /\ rel' = rel  BY <1>2 DEF ReleaseNow
  <2> QED  BY <2>1 DEF BotTypes, ChannelTypes, Holding, HoldingIn
<1> QED  BY <1>1, <1>2

LEMMA RecycleReleasesInv ==
  ASSUME IInv, NEW j \in Jobs, RecycleReleases(j)
  PROVE  IInv'
<1>1. jobs[j].chan \in Channels
  BY DEF IInv, JobsKnow, Knowing, RecycleReleases
<1>2. ReleaseNow(jobs[j].chan)  BY DEF RecycleReleases
<1>3. /\ bots' \in [Bots -> BotRecord]
      /\ tmux' \in [Bots -> {None} \cup LiveSession] /\ rel' \subseteq Channels
      /\ \A d \in Bots : /\ bots'[d].chan = bots[d].chan \/ bots'[d].chan = None
                         /\ bots'[d].st = "free" => bots'[d].chan = None
      /\ \A d \in Bots : tmux'[d] = tmux[d] \/ tmux'[d] = None
  BY <1>1, <1>2, Released DEF IInv
<1>4. BotTypes'  BY <1>3 DEF IInv, BotTypes, RecycleReleases
<1>5. history' \in [Channels -> Sessions \cup {None}]
  BY <1>1, JobFields, HistoryTypes DEF IInv, RecycleReleases
<1>6. ChannelTypes'  BY <1>3, <1>5 DEF IInv, ChannelTypes, RecycleReleases
<1>7. Holding' /\ AssignsKnow'  BY <1>3, <1>6, LetGo DEF IInv, RecycleReleases
<1>8. jobs' \in [Jobs -> Job] /\ JobsKnow'
  <2> DEFINE pc == IF Releasable(jobs[j].chan) THEN "wait" ELSE "assign"
  <2>1. pc \in {"tail", "wait", "assign", "assigned"}  OBVIOUS
  <2>2. jobs' = [jobs EXCEPT ![j].pc = pc]  BY DEF RecycleReleases
  <2> HIDE DEF pc
  <2> QED  BY <2>1, <2>2, JobMoves DEF IInv
<1>9. JobTypes'  BY <1>8 DEF IInv, JobTypes, RecycleReleases
<1>10. BrokerSessionsAreDriven'  BY <1>3, Quieter DEF IInv
<1>30. DownIsIdle'  BY DEF IInv, DownIsIdle, RecycleReleases
<1> QED  BY <1>4, <1>6, <1>7, <1>8, <1>9, <1>10, <1>30, Frames DEF IInv, RecycleReleases

LEMMA RecycleEndsInv ==
  ASSUME IInv, NEW j \in Jobs, RecycleEnds(j)
  PROVE  IInv'
<1>1. jobs[j].chan \in Channels  BY DEF IInv, JobsKnow, Knowing, RecycleEnds
<1>2. inbound' \subseteq Bots
  <2> DEFINE b == GetAssignment(jobs[j].chan)
  <2>1. b # None => b \in Bots  BY <1>1, Assignee, Unassigned
  <2>2. inbound' = IF b = None THEN inbound ELSE inbound \cup {b}  BY DEF RecycleEnds
  <2> HIDE DEF b
  <2> QED  BY <2>1, <2>2 DEF IInv, BotTypes
<1>3. BotTypes'  BY <1>2 DEF IInv, BotTypes, RecycleEnds
<1>4. jobs' \in [Jobs -> Job] /\ JobsKnow'  BY JobEnds DEF IInv, RecycleEnds
<1>5. JobTypes'  BY <1>4 DEF IInv, JobTypes, RecycleEnds
<1>30. DownIsIdle'  BY DEF IInv, DownIsIdle, RecycleEnds
<1> QED  BY <1>3, <1>4, <1>5, <1>30, Frames DEF IInv, RecycleEnds

\* What a deaf session's recycle starts with.
LEMMA RecycleBegins ==
  ASSUME IInv, NEW j \in Jobs, NEW b \in Bots, bots[b].chan \in Channels, BeginRecycle(j, b),
         UNCHANGED <<bots, tmux, disk, cands>>
  PROVE  BotTypes' /\ JobTypes' /\ JobsKnow'
<1>1. bots[b].sess \in Sessions \cup {None}  BY BotFields DEF IInv
<1>2. jobs' \in [Jobs -> Job] /\ JobsKnow'
  <2>1. CASE jobs' = [jobs EXCEPT ![j] = Captured("retire", "stash", b, bots[b].sess)]
    BY <1>1, <2>1, Capture DEF IInv
  <2>2. CASE jobs' = [jobs EXCEPT ![j] = Captured("recycle", "stash", b, bots[b].sess)]
    BY <1>1, <2>2, Capture DEF IInv
  <2> QED  BY <2>1, <2>2 DEF BeginRecycle
<1>3. inbound' \subseteq inbound /\ probation' \subseteq probation  BY DEF BeginRecycle
<1>4. BotTypes'  BY <1>3 DEF IInv, BotTypes
<1>5. JobTypes'  BY <1>2, <1>3 DEF IInv, JobTypes
<1> QED  BY <1>2, <1>4, <1>5

LEMMA TickProbeInv ==
  ASSUME IInv, NEW b \in Bots, TickProbe(b)
  PROVE  IInv'
<1>1. "tick" \in Jobs /\ bots[b].chan \in Channels  BY BotFields DEF Jobs, IInv, TickProbe
<1>2. BotTypes' /\ JobTypes' /\ JobsKnow'
  <2>1. CASE inbound' = inbound \ {b} /\ UNCHANGED <<jobs, probation, recycles>>
    <3>1. BotTypes'  BY <2>1 DEF IInv, BotTypes, TickProbe
    <3>2. JobTypes' /\ JobsKnow'  BY <2>1, Frames DEF IInv, TickProbe
    <3> QED  BY <3>1, <3>2
  <2>2. CASE BeginRecycle("tick", b)  BY <1>1, <2>2, RecycleBegins DEF TickProbe
  <2> QED  BY <2>1, <2>2 DEF TickProbe
<1>30. DownIsIdle'  BY DEF IInv, DownIsIdle, TickProbe
<1> QED  BY <1>2, <1>30, Frames DEF IInv, TickProbe

LEMMA HealPostRestartInv ==
  ASSUME IInv, NEW p \in probation, HealPostRestart(p)
  PROVE  IInv'
<1>1. p.bot \in Bots /\ p.chan \in Channels  BY DEF IInv, JobTypes
<1>2. "boot" \in Jobs  BY DEF Jobs
<1>3. BotTypes' /\ JobTypes' /\ JobsKnow'
  <2>1. CASE /\ probation' = probation \ {p} /\ inbound' \in {inbound, inbound \ {p.bot}}
             /\ UNCHANGED <<jobs, recycles>>
    <3>1. BotTypes'  BY <2>1 DEF IInv, BotTypes, HealPostRestart
    <3>2. JobTypes'  BY <2>1 DEF IInv, JobTypes, HealPostRestart
    <3>3. JobsKnow'  BY <2>1, Frames DEF IInv
    <3> QED  BY <3>1, <3>2, <3>3
  <2>2. CASE bots[p.bot].chan = p.chan /\ BeginRecycle("boot", p.bot)
    BY <1>1, <1>2, <2>2, RecycleBegins DEF HealPostRestart
  <2> QED  BY <2>1, <2>2 DEF HealPostRestart
<1>30. DownIsIdle'  BY DEF IInv, DownIsIdle, HealPostRestart
<1> QED  BY <1>3, <1>30, Frames DEF IInv, HealPostRestart

LEMMA HealDeadLetterInv ==
  ASSUME IInv, NEW c \in Channels, HealDeadLetter(c)
  PROVE  IInv'
<1> DEFINE b == GetAssignment(c)
<1>1. b \in Bots /\ bots[b].chan \in Channels  BY Assignee, Unassigned DEF HealDeadLetter
<1>2. "letter" \in Jobs  BY DEF Jobs
<1>3. jobs' = [jobs EXCEPT !["letter"] = Captured("dark", "stash", b, bots[b].sess)]
  BY DEF HealDeadLetter, BeginDark
<1> HIDE DEF b
<1>4. bots[b].sess \in Sessions \cup {None}  BY <1>1, BotFields DEF IInv
<1>5. jobs' \in [Jobs -> Job] /\ JobsKnow'  BY <1>1, <1>2, <1>3, <1>4, Capture DEF IInv
<1>6. JobTypes'  BY <1>5 DEF IInv, JobTypes, HealDeadLetter
<1>30. DownIsIdle'  BY DEF IInv, DownIsIdle, HealDeadLetter
<1> QED  BY <1>5, <1>6, <1>30, Frames DEF IInv, HealDeadLetter, pool

\* What a restart starts with: the bot is freed on the spot, or the job is one of a
\* plugin channel.
LEMMA RestartBegins ==
  ASSUME IInv, NEW j \in Jobs, NEW b \in Bots, BeginRestart(j, b),
         bots[b].chan = None \/ ~UsesBroker(bots[b].chan),
         UNCHANGED <<tmux, inbound, disk, drawn, owner, rel, life, asg, probation>>,
         cands' \subseteq cands
  PROVE  /\ BotTypes' /\ ChannelTypes' /\ JobTypes' /\ JobsKnow'
         /\ Holding' /\ AssignsKnow' /\ SavedHolding'
<1>1. CASE bots[b].chan = None
  <2>1. /\ bots' = [bots EXCEPT ![b] = [FreeBot EXCEPT !.conf = bots[b].conf]]
        /\ UNCHANGED <<history, jobs>> /\ Persist
    BY <1>1 DEF BeginRestart
  <2>2. /\ bots' \in [Bots -> BotRecord]
        /\ \A d \in Bots : /\ bots'[d].chan = bots[d].chan \/ bots'[d].chan = None
                           /\ bots'[d].st = "free" => bots'[d].chan = None
    <3> DEFINE r == [FreeBot EXCEPT !.conf = bots[b].conf]
    <3>1. bots[b].conf \in BOOLEAN  BY BotFields DEF IInv
    <3>2. r \in BotRecord /\ r.st = "free" /\ r.chan = None  BY <3>1, Blanks
    <3> HIDE DEF r
    <3>3. bots' = [bots EXCEPT ![b] = r]  BY <2>1 DEF r
    <3> QED  BY <3>2, <3>3, OneBot DEF IInv
  <2>3. BotTypes'  BY <2>2 DEF IInv, BotTypes
  <2>4. ChannelTypes' /\ JobsKnow'  BY <2>1, Frames DEF IInv
  <2>5. Holding' /\ AssignsKnow'  BY <2>2, <2>4, LetGo DEF IInv
  <2>6. SavedHolding'  BY <2>1, <2>3, <2>4, <2>5, PersistHolds
  <2>7. JobTypes'  BY <2>1 DEF IInv, JobTypes
  <2> QED  BY <2>3, <2>4, <2>5, <2>6, <2>7
<1>2. CASE bots[b].chan # None
  <2>1. /\ jobs' = [jobs EXCEPT ![j] = Captured("restart", "spawn", b, bots[b].sess)]
        /\ UNCHANGED <<bots, history, saved>>
    BY <1>2 DEF BeginRestart
  <2>2. bots[b].chan \in Channels /\ bots[b].sess \in Sessions \cup {None}
    BY <1>2, BotFields DEF IInv
  <2>3. jobs' \in [Jobs -> Job] /\ JobsKnow'  BY <1>2, <2>1, <2>2, Capture DEF IInv
  <2>4. JobTypes'  BY <2>3 DEF IInv, JobTypes
  <2> QED  BY <2>1, <2>3, <2>4, Frames DEF IInv
<1> QED  BY <1>1, <1>2

LEMMA TickDeadInv ==
  ASSUME IInv, NEW b \in Bots, TickDead(b)
  PROVE  IInv'
<1>1. "tick" \in Jobs  BY DEF Jobs
<1>2. bots[b].sess \in Sessions \cup {None} /\ bots[b].chan \in Channels \cup {None}
  BY BotFields DEF IInv
<1>3. UNCHANGED <<tmux, inbound, disk, drawn, owner, asg, rel, buffer, cands, probation,
                  fate, life>>
  BY DEF TickDead
<1>4. /\ BotTypes' /\ ChannelTypes' /\ JobTypes' /\ JobsKnow'
      /\ Holding' /\ AssignsKnow' /\ SavedHolding'
  <2>1. CASE /\ bots[b].chan # None /\ UsesBroker(bots[b].chan)
             /\ BeginDark("tick", b, bots[b].sess) /\ UNCHANGED <<bots, history, saved>>
    <3>1. jobs' \in [Jobs -> Job] /\ JobsKnow'
      BY <1>1, <1>2, <2>1, Capture DEF IInv, BeginDark
    <3>2. JobTypes'  BY <1>3, <3>1 DEF IInv, JobTypes
    <3> QED  BY <1>3, <2>1, <3>1, <3>2, Frames DEF IInv
  <2>2. CASE /\ bots[b].chan # None /\ ~UsesBroker(bots[b].chan)
             /\ BeginRetire("tick", b) /\ UNCHANGED <<bots, history, saved>>
    <3>1. jobs' \in [Jobs -> Job] /\ JobsKnow'
      BY <1>1, <1>2, <2>2, Capture DEF IInv, BeginRetire
    <3>2. JobTypes'  BY <1>3, <3>1 DEF IInv, JobTypes
    <3> QED  BY <1>3, <2>2, <3>1, <3>2, Frames DEF IInv
  <2>3. CASE /\ bots[b].chan = None \/ ~UsesBroker(bots[b].chan)
             /\ BeginRestart("tick", b)
    BY <1>1, <1>3, <2>3, RestartBegins
  <2>4. \/ /\ bots[b].chan # None /\ UsesBroker(bots[b].chan)
           /\ BeginDark("tick", b, bots[b].sess) /\ UNCHANGED <<bots, history, saved>>
        \/ /\ bots[b].chan # None /\ ~UsesBroker(bots[b].chan)
           /\ BeginRetire("tick", b) /\ UNCHANGED <<bots, history, saved>>
        \/ /\ bots[b].chan = None \/ ~UsesBroker(bots[b].chan)
           /\ BeginRestart("tick", b)
    BY DEF TickDead
  <2> QED  BY <2>1, <2>2, <2>3, <2>4
<1>30. DownIsIdle'  BY DEF IInv, DownIsIdle, TickDead
<1> QED  BY <1>3, <1>4, <1>30, Frames DEF IInv

LEMMA ReconcileOneInv ==
  ASSUME IInv, NEW x \in cands, ReconcileOne(x)
  PROVE  IInv'
<1> DEFINE b == x.bot
<1>1. "boot" \in Jobs /\ b \in Bots  BY DEF Jobs, IInv, JobTypes, Candidate
<1>2. bots[b].sess \in Sessions \cup {None} /\ bots[b].chan \in Channels \cup {None}
  BY <1>1, BotFields DEF IInv
<1>3. UNCHANGED <<tmux, inbound, disk, drawn, owner, asg, rel, buffer, probation, fate, life>>
      /\ cands' \subseteq cands /\ life # "resume"
  BY DEF ReconcileOne
<1>4. /\ BotTypes' /\ ChannelTypes' /\ JobTypes' /\ JobsKnow'
      /\ Holding' /\ AssignsKnow' /\ SavedHolding'
  <2>1. CASE bots[b].chan # None /\ UsesBroker(bots[b].chan)
    <3>1. /\ jobs' = [jobs EXCEPT !["boot"] = Captured("dark", "stash", b, bots[b].sess)]
          /\ UNCHANGED <<bots, history, saved>>
      BY <2>1 DEF ReconcileOne, BeginDark
    <3> HIDE DEF b
    <3>2. bots[b].chan \in Channels  BY <1>2, <2>1
    <3>3. jobs' \in [Jobs -> Job] /\ JobsKnow'
      BY <1>1, <1>2, <3>1, <3>2, Capture DEF IInv
    <3>4. JobTypes'  BY <1>3, <3>3 DEF IInv, JobTypes
    <3> QED  BY <1>3, <3>1, <3>3, <3>4, Frames DEF IInv
  <2>2. CASE bots[b].chan = None \/ ~UsesBroker(bots[b].chan)
    <3>1. BeginRestart("boot", b)  BY <2>2 DEF ReconcileOne
    <3> QED  BY <1>1, <1>3, <2>2, <3>1, RestartBegins
  <2> QED  BY <2>1, <2>2
<1>5. CandsKnow'  BY <1>3 DEF CandsKnow
<1>30. DownIsIdle'  BY DEF IInv, DownIsIdle, ReconcileOne
<1> QED  BY <1>3, <1>4, <1>5, <1>30, Frames DEF IInv

LEMMA ReconcileBeginsInv ==
  ASSUME IInv, ReconcileBegins
  PROVE  IInv'
<1>1. ChannelTypes'  BY DEF IInv, ChannelTypes, ReconcileBegins
<1>2. BotTypes' /\ Holding'  BY Frames DEF IInv, ReconcileBegins
<1>3. SavedHolding'  BY <1>1, <1>2, PersistHolds DEF ReconcileBegins
<1>4. cands' \subseteq Candidate  BY DEF ReconcileBegins, Candidate
<1>5. JobTypes'  BY <1>4 DEF IInv, JobTypes, ReconcileBegins
<1>6. CandsKnow'  BY DEF ReconcileBegins, CandsKnow
<1>30. DownIsIdle'  BY DEF IInv, DownIsIdle, ReconcileBegins
<1> QED  BY <1>1, <1>2, <1>3, <1>5, <1>6, <1>30, Frames DEF IInv, ReconcileBegins

\* A resume is of a plugin channel: a broker channel goes dark instead.
LEMMA ResumeBeginsInv ==
  ASSUME IInv, NEW x \in cands, ResumeBegins(x)
  PROVE  IInv'
<1> DEFINE b == x.bot
<1>1. /\ "boot" \in Jobs /\ b \in Bots /\ x.chan \in Channels /\ x.sess \in Sessions
      /\ cands' \subseteq cands /\ life = "resume"
  BY DEF Jobs, IInv, JobTypes, Candidate, CandsKnow, ResumeBegins
<1>2. UNCHANGED <<bots, inbound, history, disk, saved, drawn, owner, asg, rel, buffer,
                  probation, fate, life>>
  BY DEF ResumeBegins
<1>3. CandsKnow'  BY <1>1, <1>2 DEF IInv, CandsKnow
<1>4. /\ tmux' \in [Bots -> {None} \cup LiveSession]
      /\ \A d \in Bots : tmux'[d] = tmux[d] \/ tmux'[d] = None
      /\ jobs' \in [Jobs -> Job] /\ JobsKnow'
  <2>1. CASE bots[b].st = "free" \/ bots[b].chan # x.chan
    <3>1. UNCHANGED <<tmux, jobs>>  BY <2>1 DEF ResumeBegins
    <3> QED  BY <3>1, Frames DEF IInv, BotTypes, JobTypes
  <2>2. CASE bots[b].chan = x.chan /\ UsesBroker(x.chan) /\ bots[b].st # "free"
    <3>1. jobs' = [jobs EXCEPT !["boot"] = Captured("dark", "stash", b, x.sess)] /\ tmux' = tmux
      BY <2>2 DEF ResumeBegins, BeginDark
    <3> HIDE DEF b
    <3>2. bots[b].chan \in Channels  BY <1>1, <2>2
    <3>3. jobs' \in [Jobs -> Job] /\ JobsKnow'  BY <1>1, <3>1, <3>2, Capture DEF IInv
    <3> QED  BY <3>1, <3>3 DEF IInv, BotTypes
  <2>3. CASE bots[b].chan = x.chan /\ ~UsesBroker(x.chan) /\ bots[b].st # "free"
    <3> DEFINE k == [op |-> "resume", pc |-> "spawn", bot |-> b, chan |-> x.chan,
                     sess |-> x.sess, conf |-> TRUE]
    <3>1. tmux' = [tmux EXCEPT ![b] = None] /\ jobs' = [jobs EXCEPT !["boot"] = k]
      BY <2>3 DEF ResumeBegins
    <3>2. k \in Job /\ Knowing(k)  BY <1>1, <2>3 DEF Job, Knowing
    <3> HIDE DEF b, k
    <3>3. jobs' \in [Jobs -> Job] /\ JobsKnow'  BY <1>1, <3>1, <3>2, OneJob DEF IInv
    <3> QED  BY <1>1, <3>1, <3>3 DEF IInv, BotTypes
  <2> QED  BY <2>1, <2>2, <2>3
<1>5. BotTypes'  BY <1>2, <1>4 DEF IInv, BotTypes
<1>6. JobTypes'  BY <1>1, <1>2, <1>4 DEF IInv, JobTypes
<1>7. BrokerSessionsAreDriven'  BY <1>4, Quieter DEF IInv
<1>30. DownIsIdle'  BY DEF IInv, DownIsIdle, ResumeBegins
<1> QED  BY <1>2, <1>3, <1>4, <1>5, <1>6, <1>7, <1>30, Frames DEF IInv

LEMMA ResumeFailedInv ==
  ASSUME IInv, ResumeFailed
  PROVE  IInv'
<1>1. "boot" \in Jobs  BY DEF Jobs
<1>2. jobs' \in [Jobs -> Job] /\ JobsKnow'  BY <1>1, JobEnds DEF IInv, ResumeFailed
<1>3. JobTypes'  BY <1>2 DEF IInv, JobTypes, ResumeFailed
<1>30. DownIsIdle'  BY DEF IInv, DownIsIdle, ResumeFailed
<1> QED  BY <1>2, <1>3, <1>30, Frames DEF IInv, ResumeFailed, pool

LEMMA ResumeSpawnedInv ==
  ASSUME IInv, ResumeSpawned
  PROVE  IInv'
<1> DEFINE b == jobs["boot"].bot
           c == jobs["boot"].chan
           s == jobs["boot"].sess
           r == [bots[b] EXCEPT !.st = "assigned", !.sess = s, !.conf = TRUE]
           live == [chan |-> c, sess |-> s, driven |-> FALSE]
<1>1. "boot" \in Jobs  BY DEF Jobs
<1>2. b \in Bots /\ c \in Channels /\ ~UsesBroker(c) /\ s \in Sessions
  BY <1>1 DEF IInv, JobsKnow, Knowing, ResumeSpawned
<1>3. /\ tmux' = [tmux EXCEPT ![b] = live] /\ bots' = [bots EXCEPT ![b] = r]
      /\ inbound' = inbound \cup {b}
      /\ probation' = {p \in probation : p.bot # b} \cup {[bot |-> b, chan |-> c, sess |-> s]}
      /\ jobs' = [jobs EXCEPT !["boot"] = NoJob]
  BY DEF ResumeSpawned, Spawn
<1> HIDE DEF b, c, s
<1>4. bots[b] \in BotRecord  BY <1>2, BotFields DEF IInv
<1>5. r \in BotRecord /\ r.chan = bots[b].chan /\ r.st = "assigned"
  BY <1>2, <1>4 DEF BotRecord
<1> HIDE DEF r
<1>6. /\ bots' \in [Bots -> BotRecord]
      /\ \A d \in Bots : /\ bots'[d].chan = bots[d].chan \/ bots'[d].chan = None
                         /\ bots'[d].st = "free" => bots'[d].chan = None
  BY <1>2, <1>3, <1>5, OneBot DEF IInv
<1>7. live \in LiveSession /\ live.chan = c  BY <1>2 DEF LiveSession
<1> HIDE DEF live
<1>8. tmux' \in [Bots -> {None} \cup LiveSession]
      /\ tmux'[b].chan = c /\ \A d \in Bots : d # b => tmux'[d] = tmux[d]
  BY <1>2, <1>3, <1>7 DEF IInv, BotTypes
<1>9. BotTypes'  BY <1>2, <1>3, <1>6, <1>8 DEF IInv, BotTypes, ResumeSpawned
<1>10. ChannelTypes'  BY Frames DEF IInv, ResumeSpawned
<1>11. Holding' /\ AssignsKnow'  BY <1>6, <1>10, LetGo DEF IInv, ResumeSpawned
<1>12. jobs' \in [Jobs -> Job] /\ JobsKnow'  BY <1>1, <1>3, JobEnds DEF IInv
<1>13. probation' \subseteq [bot : Bots, chan : Channels, sess : Sessions]
  BY <1>2, <1>3 DEF IInv, JobTypes
<1>14. JobTypes'  BY <1>12, <1>13 DEF IInv, JobTypes, ResumeSpawned
<1>15. BrokerSessionsAreDriven'
  BY <1>2, <1>8 DEF IInv, BrokerSessionsAreDriven, Alive, UsesBroker
<1>30. DownIsIdle'  BY DEF IInv, DownIsIdle, ResumeSpawned
<1> QED  BY <1>9, <1>10, <1>11, <1>12, <1>14, <1>15, <1>30, Frames DEF IInv, ResumeSpawned

LEMMA BootEndsInv ==
  ASSUME IInv, BootEnds
  PROVE  IInv'
<1>1. ChannelTypes'  BY DEF IInv, ChannelTypes, BootEnds, pool
<1>2. CandsKnow'  BY DEF CandsKnow, BootEnds
<1>30. DownIsIdle'  BY DEF IInv, DownIsIdle, BootEnds
<1> QED  BY <1>1, <1>2, <1>30, Frames DEF IInv, BootEnds, pool

(* The daemon stops and starts. *)

LEMMA DrainInv ==
  ASSUME IInv, Drain
  PROVE  IInv'
<1> QED  BY Frames DEF IInv, Drain, pool, proc

\* A pool that forgets everything is in order, whatever sessions are left running.
LEMMA Forgotten ==
  ASSUME IInv, Forget, SavedHolding',
         \A b \in Bots : tmux'[b] = tmux[b] \/ tmux'[b] = None,
         tmux' \in [Bots -> {None} \cup LiveSession], UNCHANGED <<disk, drawn>>
  PROVE  IInv'
<1>1. BotTypes'  BY Blanks DEF IInv, BotTypes, Forget
<1>2. ChannelTypes'  BY DEF IInv, ChannelTypes, Forget
<1>3. MessageTypes'
  <2>1. fate' \in [Channels -> [Msgs -> Fates]]  BY DEF IInv, MessageTypes, Forget, Fates
  <2>2. buffer' \in [Channels -> Seq(Msgs)]  BY DEF Forget
  <2> QED  BY <2>1, <2>2 DEF MessageTypes
<1>4. SlotTypes' /\ JobTypes'  BY Blanks DEF SlotTypes, JobTypes, Forget
<1>5. Holding'  BY Blanks DEF Holding, HoldingIn, Forget
<1>6. AssignsKnow' /\ JobsKnow' /\ CandsKnow'
  BY Blanks DEF AssignsKnow, JobsKnow, Knowing, CandsKnow, Forget
<1>7. BrokerSessionsAreDriven'  BY Quieter DEF IInv
<1>8. BufferIsTransient'  BY DEF BufferIsTransient, Forget
<1>9. DownIsIdle'  BY Blanks DEF DownIsIdle, Forget
<1> QED  BY <1>1, <1>2, <1>3, <1>4, <1>5, <1>6, <1>7, <1>8, <1>9 DEF IInv

LEMMA ShutdownInv ==
  ASSUME IInv, Shutdown
  PROVE  IInv'
<1>1. saved' = Snapshot(bots, history) /\ Forget /\ UNCHANGED <<disk, drawn>>
  BY DEF Shutdown
<1>2. tmux' \in [Bots -> {None} \cup LiveSession]
      /\ \A b \in Bots : tmux'[b] = tmux[b] \/ tmux'[b] = None
  BY DEF Shutdown, IInv, BotTypes
<1>3. HoldingIn(bots) /\ bots \in [Bots -> BotRecord]
      /\ history \in [Channels -> Sessions \cup {None}]
  BY DEF IInv, Holding, BotTypes, ChannelTypes
<1>4. SavedIn(saved')  BY <1>1, <1>3, SnapshotHolds
<1>5. SavedHolding'  BY <1>4 DEF SavedHolding, SavedIn
<1> QED  BY <1>1, <1>2, <1>5, Forgotten

LEMMA CrashInv ==
  ASSUME IInv, Crash
  PROVE  IInv'
<1>1. Forget /\ UNCHANGED <<tmux, saved, disk, drawn>>  BY DEF Crash
<1>2. SavedHolding'  BY <1>1, Frames DEF IInv
<1>3. tmux' \in [Bots -> {None} \cup LiveSession]  BY <1>1 DEF IInv, BotTypes
<1> QED  BY <1>1, <1>2, <1>3, Forgotten

\* What initialize makes of an entry, and of all of them.
LEMMA Restoring ==
  ASSUME IInv, NEW b \in Bots
  PROVE  /\ Restored(b) \in BotRecord
         /\ Restored(b).st = "free" => Restored(b).chan = None
         /\ Restored(b).chan # None =>
              saved.bots[b] # None /\ Restored(b).chan = saved.bots[b].chan
<1> DEFINE e == saved.bots[b]
           s == IF e.sess \in disk THEN e.sess ELSE None
           st == IF Alive(b) THEN "assigned" ELSE "parked"
<1>1. CASE e = None
  <2>1. Restored(b) = FreeBot  BY <1>1 DEF Restored
  <2> QED  BY <2>1, Blanks
<1>2. CASE e # None
  <2>1. e \in Entry  BY <1>2 DEF IInv, SavedHolding, SavedIn
  <2>2. Restored(b) = [st |-> st, chan |-> e.chan, sess |-> s, conf |-> s # None]
    BY <1>2 DEF Restored
  <2>3. e.chan \in Channels  BY <2>1 DEF Entry
  <2>4. s \in Sessions \cup {None}  BY DEF IInv, BotTypes
  <2>5. st \in {"assigned", "parked"}  OBVIOUS
  <2> HIDE DEF e, s, st
  <2>6. Restored(b) \in BotRecord /\ Restored(b).st # "free" /\ Restored(b).chan = e.chan
    BY <2>2, <2>3, <2>4, <2>5 DEF BotRecord
  <2> QED  BY <1>2, <2>6 DEF e
<1> QED  BY <1>1, <1>2

LEMMA InitializeInv ==
  ASSUME IInv, Initialize
  PROVE  IInv'
<1>1. bots' \in [Bots -> BotRecord] /\ \A b \in Bots : bots'[b] = Restored(b)
  BY Restoring DEF Initialize
<1>2. tmux' \in [Bots -> {None} \cup LiveSession]
      /\ \A b \in Bots : tmux'[b] = tmux[b] \/ tmux'[b] = None
  BY DEF Initialize, IInv, BotTypes
<1>3. BotTypes'  BY <1>1, <1>2 DEF IInv, BotTypes, Initialize
<1>4. RestoredHistory \in [Channels -> Sessions \cup {None}]
  BY DEF IInv, BotTypes, RestoredHistory
<1>5. ChannelTypes'  BY <1>4 DEF IInv, ChannelTypes, Initialize
<1>6. ASSUME NEW b \in Bots, NEW d \in Bots, bots'[b].chan = bots'[d].chan, bots'[b].chan # None
      PROVE  b = d
  <2>1. /\ saved.bots[b] # None /\ saved.bots[d] # None
        /\ saved.bots[b].chan = saved.bots[d].chan
    BY <1>1, <1>6, Restoring
  <2> QED  BY <2>1 DEF IInv, SavedHolding, SavedIn
<1>7. Holding'  BY <1>1, <1>6, Restoring DEF Holding, HoldingIn
<1>8. SavedHolding'  BY <1>3, <1>5, <1>7, PersistHolds DEF Initialize
<1>9. ASSUME NEW x \in cands'
      PROVE  x \in Candidate /\ x.chan \in Channels /\ x.sess \in Sessions
  <2>1. PICK b \in Candidates :
          x = [bot |-> b, chan |-> saved.bots[b].chan, sess |-> saved.bots[b].sess]
    BY <1>9 DEF Initialize
  <2>2. b \in Bots /\ saved.bots[b] # None /\ saved.bots[b].sess \in disk  BY <2>1 DEF Candidates
  <2>3. saved.bots[b] \in Entry  BY <2>2 DEF IInv, SavedHolding, SavedIn
  <2>4. saved.bots[b].chan \in Channels /\ saved.bots[b].sess \in Sessions
    BY <2>2, <2>3 DEF Entry, IInv, BotTypes
  <2> QED  BY <2>1, <2>2, <2>4 DEF Candidate
<1>10. JobTypes' /\ CandsKnow'
  <2>1. JobTypes'  BY <1>9 DEF IInv, JobTypes, Initialize
  <2> QED  BY <1>9, <2>1 DEF CandsKnow
<1>11. AssignsKnow'
  <2>1. ASSUME NEW c \in Channels PROVE asg[c].pc = "idle"  BY DEF IInv, DownIsIdle, Initialize
  <2> QED  BY <2>1 DEF AssignsKnow, Initialize
<1>12. BrokerSessionsAreDriven'  BY <1>2, Quieter DEF IInv
<1>30. DownIsIdle'  BY DEF IInv, DownIsIdle, Initialize
<1> QED
  BY <1>3, <1>5, <1>7, <1>8, <1>10, <1>11, <1>12, <1>30, Frames DEF IInv, Initialize

(* assign().  The lemma that matters is Chosen: the bot a call of assign chooses is *)
(* the only one that can hold the channel already.                                  *)

LEMMA Chosen ==
  ASSUME IInv, NEW c \in Channels, Unclaimed(c), NEW b \in Choices(c)
  PROVE  b \in Bots /\ \A d \in Bots : bots[d].chan = c => d = b
<1>1. b \in Bots  BY DEF Choices, Returning, InState
<1>2. ASSUME NEW d \in Bots, bots[d].chan = c PROVE d = b
  <2>1. bots[d].st # "free"  BY <1>2, Numbers DEF IInv, Holding, HoldingIn
  <2>2. bots[d].st # "assigned"  BY <1>2 DEF Unclaimed, Assigned
  <2>3. d \in Returning(c)  BY <1>2, <2>1, <2>2, BotFields DEF IInv, Returning, InState
  <2>4. b \in Returning(c)  BY <2>3 DEF Choices
  <2>5. bots[b].chan = bots[d].chan /\ bots[d].chan # None
    BY <1>2, <2>4, Numbers DEF Returning
  <2> QED  BY <1>1, <2>5 DEF IInv, Holding, HoldingIn
<1> QED  BY <1>1, <1>2

LEMMA ResolvedType ==
  ASSUME IInv, NEW c \in Channels, NEW b \in Bots
  PROVE  Resolved(c, b) \in Sessions \cup {None}
<1> QED  BY BotFields DEF IInv, ChannelTypes, Resolved

LEMMA Assigning ==
  ASSUME IInv, NEW c \in Channels, NEW m \in 0 .. System, NEW b \in Bots,
         Admits(c, m), Unclaimed(c), BeginAssign(c, m, b), life # "down",
         UNCHANGED <<inbound, disk, drawn, owner, rel, life>>
  PROVE  /\ BotTypes' /\ ChannelTypes' /\ SlotTypes' /\ Holding' /\ SavedHolding'
         /\ AssignsKnow' /\ BrokerSessionsAreDriven' /\ DownIsIdle'
         /\ asg'[c].pc # "idle" /\ \A d \in Channels : d # c => asg'[d] = asg[d]
<1> DEFINE slot(pc) == [pc |-> pc, bot |-> b, sess |-> Resolved(c, b), msg |-> m]
<1>1. b \in Choices(c) /\ \A d \in Bots : bots[d].chan = c => d = b
  BY Chosen DEF BeginAssign
<1>2. PICK pc \in {"park", "spawn"} : asg' = [asg EXCEPT ![c] = slot(pc)]
  BY DEF BeginAssign
<1>3. slot(pc) \in Slot /\ slot(pc).bot = b /\ slot(pc).msg = m /\ slot(pc).pc = pc
  BY ResolvedType DEF Slot
<1> HIDE DEF slot
<1>4. /\ SlotTypes' /\ asg'[c].pc \in {"park", "spawn"} /\ asg'[c].bot = b /\ asg'[c].msg = m
      /\ \A d \in Channels : d # c => asg'[d] = asg[d]
  BY <1>2, <1>3 DEF IInv, SlotTypes
<1>5. /\ bots' \in [Bots -> BotRecord]
      /\ \A d \in Bots : /\ bots'[d].chan = bots[d].chan
                         /\ bots'[d].st = "free" => bots'[d].chan = None
      /\ tmux' \in [Bots -> {None} \cup LiveSession]
      /\ \A d \in Bots : tmux'[d] = tmux[d] \/ tmux'[d] = None
      /\ history' \in [Channels -> Sessions \cup {None}]
      /\ Persist \/ (bots' = bots /\ saved' = saved)
  <2>1. tmux' = [tmux EXCEPT ![b] = None]  BY DEF BeginAssign, Take
  <2>2. tmux' \in [Bots -> {None} \cup LiveSession]
        /\ \A d \in Bots : tmux'[d] = tmux[d] \/ tmux'[d] = None
    BY <2>1 DEF IInv, BotTypes
  <2>3. CASE bots[b].st = "assigned"
    <3> DEFINE r == [bots[b] EXCEPT !.st = "parked"]
    <3>1. bots' = [bots EXCEPT ![b].st = "parked"] /\ history' = history /\ Persist
      BY <2>3 DEF BeginAssign
    <3>2. bots[b] \in BotRecord  BY BotFields DEF IInv
    <3>3. r \in BotRecord /\ r.chan = bots[b].chan /\ r.st = "parked"
      BY <3>2 DEF BotRecord
    <3>4. bots' = [bots EXCEPT ![b] = r]  BY <3>1
    <3> HIDE DEF r
    <3>5. bots' \in [Bots -> BotRecord] /\ bots'[b] = r /\ \A d \in Bots : d # b => bots'[d] = bots[d]
      BY <3>3, <3>4 DEF IInv, BotTypes
    <3>6. ASSUME NEW d \in Bots
          PROVE  bots'[d].chan = bots[d].chan /\ (bots'[d].st = "free" => bots'[d].chan = None)
      <4>1. CASE d = b  BY <3>3, <3>5, <4>1
      <4>2. CASE d # b  BY <3>5, <4>2 DEF IInv, Holding, HoldingIn
      <4> QED  BY <4>1, <4>2
    <3>7. history' \in [Channels -> Sessions \cup {None}]  BY <3>1 DEF IInv, ChannelTypes
    <3> QED  BY <2>2, <3>1, <3>5, <3>6, <3>7
  <2>4. CASE bots[b].st # "assigned"
    <3>1. bots' = bots /\ saved' = saved /\ history' = EvictionStash(c, b)
      BY <2>4 DEF BeginAssign, Take
    <3>2. history' \in [Channels -> Sessions \cup {None}]  BY <3>1, EvictionTypes DEF IInv
    <3>3. ASSUME NEW d \in Bots
          PROVE  bots'[d].chan = bots[d].chan /\ (bots'[d].st = "free" => bots'[d].chan = None)
      BY <3>1 DEF IInv, Holding, HoldingIn
    <3>4. bots' \in [Bots -> BotRecord]  BY <3>1 DEF IInv, BotTypes
    <3> QED  BY <2>2, <3>1, <3>2, <3>3, <3>4
  <2> QED  BY <2>3, <2>4
<1>6. BotTypes'  BY <1>5 DEF IInv, BotTypes
<1>7. ChannelTypes'  BY <1>5 DEF IInv, ChannelTypes
<1>8. Holding'
  <2>1. ASSUME NEW d \in Bots, NEW e \in Bots, bots'[d].chan = bots'[e].chan, bots'[d].chan # None
        PROVE  d = e
    <3>1. bots[d].chan = bots[e].chan /\ bots[d].chan # None  BY <1>5, <2>1
    <3> QED  BY <3>1 DEF IInv, Holding, HoldingIn
  <2> QED  BY <1>5, <2>1 DEF Holding, HoldingIn
<1>9. SavedHolding'  BY <1>5, <1>6, <1>7, <1>8, PersistHolds, Frames DEF IInv
<1>10. AssignsKnow'
  <2> SUFFICES ASSUME NEW d \in Channels, asg'[d].pc # "idle"
               PROVE  /\ asg'[d].bot \in Bots
                      /\ \A e \in Bots : bots'[e].chan = d => e = asg'[d].bot
                      /\ UsesBroker(d) => asg'[d].msg # 0
                      /\ asg'[d].pc = "feed" /\ asg'[d].sess = None => drawn'[d] # 0
    BY DEF AssignsKnow, UsesBroker
  <2>1. CASE d = c
    <3>1. UsesBroker(c) => m # 0  BY DEF Admits
    <3> QED  BY <1>1, <1>4, <1>5, <2>1, <3>1
  <2>2. CASE d # c  BY <1>4, <1>5, <2>2 DEF IInv, AssignsKnow
  <2> QED  BY <2>1, <2>2
<1>11. BrokerSessionsAreDriven'  BY <1>5, Quieter DEF IInv
<1>12. DownIsIdle'  BY DEF DownIsIdle
<1> QED  BY <1>4, <1>6, <1>7, <1>8, <1>9, <1>10, <1>11, <1>12

\* The end of assign: the lock is dropped and the buffer emptied.
LEMMA Unlocked ==
  ASSUME IInv, NEW c \in Channels, NEW f \in [Channels -> [Msgs -> Fates]], Unlock(c, f)
  PROVE  /\ MessageTypes' /\ SlotTypes' /\ BufferIsTransient'
         /\ asg'[c].pc = "idle" /\ \A d \in Channels : d # c => asg'[d] = asg[d]
<1>1. asg' = [asg EXCEPT ![c] = NoAssign] /\ buffer' = [buffer EXCEPT ![c] = <<>>]
  BY DEF Unlock
<1>2. SlotTypes' /\ asg'[c].pc = "idle" /\ \A d \in Channels : d # c => asg'[d] = asg[d]
  BY <1>1, Blanks DEF IInv, SlotTypes
<1>3. /\ buffer' \in [Channels -> Seq(Msgs)] /\ buffer'[c] = <<>>
      /\ \A d \in Channels : d # c => buffer'[d] = buffer[d]
  BY <1>1 DEF IInv, MessageTypes
<1>4. fate' \in [Channels -> [Msgs -> Fates]]
  <2> DEFINE g == [m \in Msgs |-> IF m \in Buffered(c) /\ f[c][m] = "buffered"
                                  THEN "discarded" ELSE f[c][m]]
  <2>1. fate' = [f EXCEPT ![c] = g]  BY DEF Unlock
  <2>2. g \in [Msgs -> Fates]  BY DEF Fates
  <2> HIDE DEF g
  <2> QED  BY <2>1, <2>2
<1>5. MessageTypes'  BY <1>3, <1>4 DEF MessageTypes
<1>6. BufferIsTransient'  BY <1>2, <1>3 DEF IInv, BufferIsTransient
<1> QED  BY <1>2, <1>5, <1>6

\* The bot chosen becomes the channel's, and nobody else holds it.
LEMMA Committed ==
  ASSUME IInv, NEW c \in Channels, asg[c].pc # "idle", NEW s \in Sessions, NEW conf \in BOOLEAN,
         Commit(c, asg[c].bot, s, conf), asg'[c].pc = "idle",
         \A d \in Channels : d # c => asg'[d] = asg[d],
         \A d \in Channels : drawn[d] # 0 => drawn'[d] # 0
  PROVE  /\ bots' \in [Bots -> BotRecord] /\ Holding' /\ AssignsKnow'
         /\ history' \in [Channels -> Sessions \cup {None}]
<1> DEFINE b == asg[c].bot
           r == [st |-> "assigned", chan |-> c, sess |-> s, conf |-> conf]
<1>1. b \in Bots /\ \A d \in Bots : bots[d].chan = c => d = b  BY DEF IInv, AssignsKnow
<1>2. bots' = [bots EXCEPT ![b] = r] /\ history' = [history EXCEPT ![c] = None]
  BY DEF Commit
<1> HIDE DEF b
<1>3. r \in BotRecord /\ r.st = "assigned" /\ r.chan = c  BY DEF BotRecord
<1> HIDE DEF r
<1>4. /\ bots' \in [Bots -> BotRecord] /\ bots'[b].st = "assigned" /\ bots'[b].chan = c
      /\ \A d \in Bots : d # b => bots'[d] = bots[d]
  BY <1>1, <1>2, <1>3 DEF IInv, BotTypes
<1>5. ASSUME NEW d \in Bots, NEW e \in Bots, bots'[d].chan = bots'[e].chan, bots'[d].chan # None
      PROVE  d = e
  <2>1. CASE d = b \/ e = b  BY <1>1, <1>4, <1>5, <2>1
  <2>2. CASE d # b /\ e # b
    <3>1. bots[d].chan = bots[e].chan /\ bots[d].chan # None  BY <1>4, <1>5, <2>2
    <3> QED  BY <3>1 DEF IInv, Holding, HoldingIn
  <2> QED  BY <2>1, <2>2
<1>6. ASSUME NEW d \in Bots, bots'[d].st = "free" PROVE bots'[d].chan = None
  <2>1. d # b  BY <1>4, <1>6
  <2> QED  BY <1>4, <1>6, <2>1 DEF IInv, Holding, HoldingIn
<1>7. Holding'  BY <1>5, <1>6 DEF Holding, HoldingIn
<1>8. AssignsKnow'
  <2> SUFFICES ASSUME NEW d \in Channels, asg'[d].pc # "idle"
               PROVE  /\ asg'[d].bot \in Bots
                      /\ \A e \in Bots : bots'[e].chan = d => e = asg'[d].bot
                      /\ UsesBroker(d) => asg'[d].msg # 0
                      /\ asg'[d].pc = "feed" /\ asg'[d].sess = None => drawn'[d] # 0
    BY DEF AssignsKnow, UsesBroker
  <2>1. d # c /\ asg'[d] = asg[d]  OBVIOUS
  <2>2. /\ asg[d].bot \in Bots /\ \A e \in Bots : bots[e].chan = d => e = asg[d].bot
        /\ UsesBroker(d) => asg[d].msg # 0
        /\ asg[d].pc = "feed" /\ asg[d].sess = None => drawn[d] # 0
    BY <2>1 DEF IInv, AssignsKnow
  <2>3. ASSUME NEW e \in Bots, bots'[e].chan = d PROVE e = asg'[d].bot
    <3>1. e # b  BY <1>4, <2>1, <2>3
    <3>2. bots[e].chan = d  BY <1>4, <2>3, <3>1
    <3> QED  BY <2>1, <2>2, <3>2
  <2> QED  BY <2>1, <2>2, <2>3
<1>9. history' \in [Channels -> Sessions \cup {None}]  BY <1>2 DEF IInv, ChannelTypes
<1> QED  BY <1>4, <1>7, <1>8, <1>9

LEMMA Prepared ==
  ASSUME ChannelTypes, NEW c \in Channels, NEW b \in Bots, Prepare(c, b)
  PROVE  owner' \in [Channels -> Bots \cup {None}]
<1>1. owner' = owner \/ owner' = [owner EXCEPT ![c] = b]  BY DEF Prepare
<1> QED  BY <1>1 DEF ChannelTypes

LEMMA AssignParkedInv ==
  ASSUME IInv, NEW c \in Channels, AssignParked(c)
  PROVE  IInv'
<1> DEFINE b == asg[c].bot
           r == [asg[c] EXCEPT !.pc = "spawn"]
<1>1. b \in Bots  BY DEF IInv, AssignsKnow, AssignParked
<1>2. tmux' = [tmux EXCEPT ![b] = None] /\ history' = EvictionStash(c, b)
      /\ asg' = [asg EXCEPT ![c].pc = "spawn"]
  BY DEF AssignParked, Take
<1>3. asg[c] \in Slot  BY SlotFields DEF IInv
<1>4. /\ r \in Slot /\ r.bot = asg[c].bot /\ r.sess = asg[c].sess /\ r.msg = asg[c].msg
      /\ r.pc = "spawn"
  BY <1>3 DEF Slot
<1>5. asg' = [asg EXCEPT ![c] = r]  BY <1>2
<1> HIDE DEF r, b
<1>6. SlotTypes' /\ asg'[c] = r /\ \A d \in Channels : d # c => asg'[d] = asg[d]
  BY <1>4, <1>5 DEF IInv, SlotTypes
<1>7. tmux' \in [Bots -> {None} \cup LiveSession]
      /\ \A d \in Bots : tmux'[d] = tmux[d] \/ tmux'[d] = None
  BY <1>1, <1>2 DEF IInv, BotTypes
<1>8. BotTypes'  BY <1>7 DEF IInv, BotTypes, AssignParked
<1>9. history' \in [Channels -> Sessions \cup {None}]
  BY <1>1, <1>2, EvictionTypes DEF IInv
<1>10. ChannelTypes'  BY <1>9 DEF IInv, ChannelTypes, AssignParked
<1>11. ASSUME NEW d \in Channels, asg'[d].pc # "idle"
       PROVE  /\ asg[d].pc # "idle" /\ asg'[d].bot = asg[d].bot
              /\ asg'[d].msg = asg[d].msg /\ asg'[d].sess = asg[d].sess
              /\ asg'[d].pc = "feed" => asg[d].pc = "feed"
  <2>1. CASE d = c  BY <1>4, <1>6, <2>1 DEF AssignParked
  <2>2. CASE d # c  BY <1>6, <1>11, <2>2
  <2> QED  BY <2>1, <2>2
<1>12. ASSUME NEW d \in Bots
       PROVE  /\ bots'[d].chan = bots[d].chan \/ bots'[d].chan = None
              /\ bots'[d].st = "free" => bots'[d].chan = None
  BY DEF AssignParked, IInv, Holding, HoldingIn
<1>13. drawn' = drawn  BY DEF AssignParked
<1>14. Holding' /\ AssignsKnow'  BY <1>10, <1>11, <1>12, <1>13, LetGo DEF IInv
<1>15. BrokerSessionsAreDriven'  BY <1>7, Quieter DEF IInv
<1>16. BufferIsTransient'
  <2>1. asg'[c].pc # "idle"  BY <1>4, <1>6
  <2> QED  BY <1>6, <2>1 DEF IInv, BufferIsTransient, AssignParked
<1>17. DownIsIdle'  BY DEF IInv, DownIsIdle, AssignParked
<1> QED
  BY <1>6, <1>8, <1>10, <1>14, <1>15, <1>16, <1>17, Frames DEF IInv, AssignParked

LEMMA AssignFailedInv ==
  ASSUME IInv, NEW c \in Channels, AssignFailed(c)
  PROVE  IInv'
<1>1. asg[c].bot \in Bots  BY DEF IInv, AssignsKnow, AssignFailed
<1>2. owner' \in [Channels -> Bots \cup {None}]  BY <1>1, Prepared DEF IInv, AssignFailed
<1>3. ChannelTypes'  BY <1>2 DEF IInv, ChannelTypes, AssignFailed
<1>4. "refused" \in Fates  BY DEF Fates
<1>5. Fated(c, asg[c].msg, "refused") \in [Channels -> [Msgs -> Fates]]
  BY <1>4, FateTypes DEF IInv
<1>6. /\ MessageTypes' /\ SlotTypes' /\ BufferIsTransient'
      /\ asg'[c].pc = "idle" /\ \A d \in Channels : d # c => asg'[d] = asg[d]
  BY <1>5, Unlocked DEF AssignFailed
<1>7. ASSUME NEW d \in Channels, asg'[d].pc # "idle" PROVE asg'[d] = asg[d]
  BY <1>6, <1>7
<1>8. ASSUME NEW d \in Bots
      PROVE  /\ bots'[d].chan = bots[d].chan \/ bots'[d].chan = None
             /\ bots'[d].st = "free" => bots'[d].chan = None
  BY DEF AssignFailed, IInv, Holding, HoldingIn
<1>9. drawn' = drawn  BY DEF AssignFailed
<1>10. Holding' /\ AssignsKnow'  BY <1>3, <1>7, <1>8, <1>9, LetGo DEF IInv
<1>11. DownIsIdle'  BY DEF IInv, DownIsIdle, AssignFailed
<1> QED  BY <1>3, <1>6, <1>10, <1>11, Frames DEF IInv, AssignFailed

LEMMA AssignFedInv ==
  ASSUME IInv, NEW c \in Channels, AssignFed(c)
  PROVE  IInv'
<1> DEFINE a == asg[c]
           f == IF BrokerOwns(c) THEN "fed" ELSE "discarded"
           s == IF a.sess # None THEN a.sess ELSE [of |-> c, n |-> drawn[c]]
           g == FatedAll(c, Buffered(c) \cup ({a.msg} \cap Msgs), f)
           conf == a.sess # None
<1>1. /\ a.pc = "feed" /\ Commit(c, asg[c].bot, s, conf) /\ Unlock(c, g)
      /\ UNCHANGED <<tmux, inbound, disk, drawn, owner, rel, jobs, cands, probation, life>>
  BY DEF AssignFed
<1>2. s \in Sessions
  <2>1. CASE a.sess # None  BY <2>1, SlotFields DEF IInv
  <2>2. CASE a.sess = None
    <3>1. drawn[c] # 0  BY <1>1, <2>2 DEF IInv, AssignsKnow
    <3>2. drawn[c] \in 1 .. MaxSessions  BY <3>1, Numbers DEF IInv, ChannelTypes
    <3> QED  BY <2>2, <3>2 DEF Sessions
  <2> QED  BY <2>1, <2>2
<1>3. g \in [Channels -> [Msgs -> Fates]]
  <2>1. f \in Fates  BY DEF Fates
  <2> HIDE DEF f
  <2> QED  BY <2>1, FateTypes DEF IInv
<1>4. conf \in BOOLEAN  OBVIOUS
<1>5. asg[c].pc # "idle"  BY <1>1
<1> HIDE DEF s, g, conf, a
<1>6. /\ MessageTypes' /\ SlotTypes' /\ BufferIsTransient'
      /\ asg'[c].pc = "idle" /\ \A d \in Channels : d # c => asg'[d] = asg[d]
  BY <1>1, <1>3, Unlocked
<1>7. /\ bots' \in [Bots -> BotRecord] /\ Holding' /\ AssignsKnow'
      /\ history' \in [Channels -> Sessions \cup {None}]
  BY <1>1, <1>2, <1>4, <1>5, <1>6, Committed
<1>8. BotTypes'  BY <1>1, <1>7 DEF IInv, BotTypes
<1>9. ChannelTypes'  BY <1>1, <1>7 DEF IInv, ChannelTypes
<1>10. SavedHolding'  BY <1>1, <1>7, <1>8, <1>9, PersistHolds DEF Commit
<1>11. DownIsIdle'  BY <1>1, <1>5 DEF IInv, DownIsIdle
<1> QED  BY <1>1, <1>6, <1>7, <1>8, <1>9, <1>10, <1>11, Frames DEF IInv

LEMMA AssignSpawnedInv ==
  ASSUME IInv, NEW c \in Channels, AssignSpawned(c)
  PROVE  IInv'
<1> DEFINE a == asg[c]
           b == asg[c].bot
           old == a.sess # None
           s == IF old THEN a.sess ELSE Fresh(c)
           driven == a.msg # 0
           live == [chan |-> c, sess |-> s, driven |-> driven]
           feeds == a.msg # 0 /\ owner'[c] # None
           g == Fated(c, a.msg, "filed")
<1>1. /\ a.pc = "spawn" /\ s \in Sessions /\ Prepare(c, b)
      /\ tmux' = [tmux EXCEPT ![b] = live]
      /\ drawn' = [drawn EXCEPT ![c] = IF old THEN @ ELSE @ + 1]
      /\ IF feeds
         THEN /\ asg' = [asg EXCEPT ![c].pc = "feed"]
              /\ UNCHANGED <<bots, history, saved, buffer, fate>>
         ELSE Commit(c, b, s, old) /\ Unlock(c, g)
      /\ UNCHANGED <<inbound, disk, rel, jobs, cands, probation, life>>
  BY DEF AssignSpawned, Spawn
<1>2. /\ b \in Bots /\ asg[c].pc # "idle" /\ (UsesBroker(c) => driven) /\ asg[c] \in Slot
      /\ \A d \in Bots : bots[d].chan = c => d = b
  BY <1>1, SlotFields DEF IInv, AssignsKnow
<1>3. drawn[c] \in 0 .. MaxSessions /\ (~old => drawn[c] + 1 \in 1 .. MaxSessions)
  BY <1>1 DEF Fresh, Sessions, IInv, ChannelTypes
<1>4. /\ drawn' \in [Channels -> 0 .. MaxSessions] /\ (~old => drawn'[c] # 0)
      /\ \A d \in Channels : drawn[d] # 0 => drawn'[d] # 0
  <2>1. CASE old
    <3>1. drawn' = [drawn EXCEPT ![c] = drawn[c]]  BY <1>1, <2>1
    <3>2. drawn' = drawn  BY <3>1 DEF IInv, ChannelTypes
    <3> QED  BY <2>1, <3>2 DEF IInv, ChannelTypes
  <2>2. CASE ~old
    <3>1. drawn' = [drawn EXCEPT ![c] = drawn[c] + 1]  BY <1>1, <2>2
    <3>2. drawn[c] + 1 \in 0 .. MaxSessions /\ drawn[c] + 1 # 0  BY <1>3, <2>2, Numbers
    <3> QED  BY <3>1, <3>2 DEF IInv, ChannelTypes
  <2> QED  BY <2>1, <2>2
<1>5. live \in LiveSession /\ live.chan = c /\ live.driven = driven  BY <1>1 DEF LiveSession
<1>6. g \in [Channels -> [Msgs -> Fates]]
  <2>1. "filed" \in Fates  BY DEF Fates
  <2> QED  BY <2>1, FateTypes DEF IInv
<1>7. old \in BOOLEAN  OBVIOUS
<1>8. ~old <=> asg[c].sess = None  OBVIOUS
<1>9. feeds => asg[c].msg # 0  OBVIOUS
<1> HIDE DEF s, live, g, old, feeds, driven
<1>10. tmux' \in [Bots -> {None} \cup LiveSession]
       /\ tmux'[b] = live /\ \A d \in Bots : d # b => tmux'[d] = tmux[d]
  BY <1>1, <1>2, <1>5 DEF IInv, BotTypes
<1>11. BrokerSessionsAreDriven'
  <2> SUFFICES ASSUME NEW d \in Bots, tmux'[d] # None, tmux'[d].chan \in BrokerChannels
               PROVE  tmux'[d].driven
    BY DEF BrokerSessionsAreDriven, Alive
  <2>1. CASE d = b  BY <1>2, <1>5, <1>10, <2>1 DEF UsesBroker
  <2>2. CASE d # b  BY <1>10, <2>2 DEF IInv, BrokerSessionsAreDriven, Alive
  <2> QED  BY <2>1, <2>2
<1>12. owner' \in [Channels -> Bots \cup {None}]  BY <1>1, <1>2, Prepared DEF IInv
<1>13. DownIsIdle'  BY <1>1, <1>2 DEF IInv, DownIsIdle
<1>14. CASE feeds
  <2> DEFINE r == [asg[c] EXCEPT !.pc = "feed"]
  <2>1. asg' = [asg EXCEPT ![c] = r] /\ UNCHANGED <<bots, history, saved, buffer, fate>>
    BY <1>1, <1>14
  <2>2. /\ r \in Slot /\ r.bot = asg[c].bot /\ r.sess = asg[c].sess /\ r.msg = asg[c].msg
        /\ r.pc = "feed"
    BY <1>2 DEF Slot
  <2> HIDE DEF r
  <2>3. SlotTypes' /\ asg'[c] = r /\ \A d \in Channels : d # c => asg'[d] = asg[d]
    BY <2>1, <2>2 DEF IInv, SlotTypes
  <2>4. BotTypes'  BY <1>1, <1>10, <2>1 DEF IInv, BotTypes
  <2>5. ChannelTypes'  BY <1>1, <1>4, <1>12, <2>1 DEF IInv, ChannelTypes
  <2>6. AssignsKnow'
    <3> SUFFICES ASSUME NEW d \in Channels, asg'[d].pc # "idle"
                 PROVE  /\ asg'[d].bot \in Bots
                        /\ \A e \in Bots : bots'[e].chan = d => e = asg'[d].bot
                        /\ UsesBroker(d) => asg'[d].msg # 0
                        /\ asg'[d].pc = "feed" /\ asg'[d].sess = None => drawn'[d] # 0
      BY DEF AssignsKnow, UsesBroker
    <3>1. CASE d = c  BY <1>2, <1>4, <1>8, <1>9, <1>14, <2>1, <2>2, <2>3, <3>1
    <3>2. CASE d # c  BY <1>4, <2>1, <2>3, <3>2 DEF IInv, AssignsKnow
    <3> QED  BY <3>1, <3>2
  <2>7. BufferIsTransient'
    <3>1. asg'[c].pc # "idle"  BY <2>2, <2>3
    <3> QED  BY <2>1, <2>3, <3>1 DEF IInv, BufferIsTransient
  <2> QED
    BY <1>1, <1>11, <1>13, <2>1, <2>3, <2>4, <2>5, <2>6, <2>7, Frames DEF IInv
<1>15. CASE ~feeds
  <2>1. Commit(c, b, s, old) /\ Unlock(c, g)  BY <1>1, <1>15
  <2>2. /\ MessageTypes' /\ SlotTypes' /\ BufferIsTransient'
        /\ asg'[c].pc = "idle" /\ \A d \in Channels : d # c => asg'[d] = asg[d]
    BY <1>6, <2>1, Unlocked
  <2>3. /\ bots' \in [Bots -> BotRecord] /\ Holding' /\ AssignsKnow'
        /\ history' \in [Channels -> Sessions \cup {None}]
    BY <1>1, <1>2, <1>4, <1>7, <2>1, <2>2, Committed
  <2>4. BotTypes'  BY <1>1, <1>10, <2>3 DEF IInv, BotTypes
  <2>5. ChannelTypes'  BY <1>1, <1>4, <1>12, <2>3 DEF IInv, ChannelTypes
  <2>6. SavedHolding'  BY <2>1, <2>3, <2>4, <2>5, PersistHolds DEF Commit
  <2> QED  BY <1>1, <1>11, <1>13, <2>2, <2>3, <2>4, <2>5, <2>6, Frames DEF IInv
<1> QED  BY <1>14, <1>15

LEMMA RecycleAssignsInv ==
  ASSUME IInv, NEW j \in Jobs, RecycleAssigns(j)
  PROVE  IInv'
<1> DEFINE c == jobs[j].chan
<1>1. c \in Channels /\ jobs[j].op # "idle" /\ life # "down"
  BY DEF IInv, JobsKnow, Knowing, RecycleAssigns, DownIsIdle
<1>2. UNCHANGED <<inbound, disk, drawn, owner, rel, buffer, cands, probation, fate, life>>
  BY DEF RecycleAssigns
<1>3. CASE jobs[j].op = "recycle" /\ Admits(c, System) /\ Unclaimed(c)
  <2>1. PICK b \in Bots : BeginAssign(c, System, b)  BY <1>3 DEF RecycleAssigns
  <2>2. jobs' = [jobs EXCEPT ![j].pc = "assigned"]  BY <1>3 DEF RecycleAssigns
  <2>3. System \in 0 .. System  BY Numbers DEF System
  <2> HIDE DEF c
  <2>4. /\ BotTypes' /\ ChannelTypes' /\ SlotTypes' /\ Holding' /\ SavedHolding'
        /\ AssignsKnow' /\ BrokerSessionsAreDriven' /\ DownIsIdle'
        /\ asg'[c].pc # "idle" /\ \A d \in Channels : d # c => asg'[d] = asg[d]
    BY <1>1, <1>2, <1>3, <2>1, <2>3, Assigning
  <2>5. BufferIsTransient'  BY <1>2, <2>4 DEF IInv, BufferIsTransient
  <2>6. jobs' \in [Jobs -> Job] /\ JobsKnow'  BY <2>2, JobMoves DEF IInv
  <2>7. JobTypes'  BY <1>2, <2>6 DEF IInv, JobTypes
  <2> QED  BY <1>2, <2>4, <2>5, <2>6, <2>7, Frames DEF IInv
<1>4. CASE ~(jobs[j].op = "recycle" /\ Admits(c, System) /\ Unclaimed(c))
  <2>1. jobs' = [jobs EXCEPT ![j] = NoJob] /\ UNCHANGED <<bots, tmux, history, saved, asg>>
    BY <1>4 DEF RecycleAssigns
  <2>2. jobs' \in [Jobs -> Job] /\ JobsKnow'  BY <2>1, JobEnds DEF IInv
  <2>3. JobTypes'  BY <1>2, <2>2 DEF IInv, JobTypes
  <2>4. DownIsIdle'  BY <1>1, <1>2 DEF DownIsIdle
  <2> QED  BY <1>2, <2>1, <2>2, <2>3, <2>4, Frames DEF IInv
<1> QED  BY <1>3, <1>4

LEMMA AssignByCommandInv ==
  ASSUME IInv, NEW c \in Channels, AssignByCommand(c)
  PROVE  IInv'
<1> DEFINE m == IF UsesBroker(c) THEN System ELSE 0
<1>1. /\ life # "down" /\ Admits(c, m) /\ Unclaimed(c)
      /\ UNCHANGED <<inbound, disk, drawn, owner, rel, buffer, jobs, cands, probation, fate, life>>
  BY DEF AssignByCommand
<1>2. PICK b \in Bots : BeginAssign(c, m, b)  BY DEF AssignByCommand
<1>3. m \in 0 .. System  BY Numbers DEF System
<1> HIDE DEF m
<1>4. /\ BotTypes' /\ ChannelTypes' /\ SlotTypes' /\ Holding' /\ SavedHolding'
      /\ AssignsKnow' /\ BrokerSessionsAreDriven' /\ DownIsIdle'
      /\ asg'[c].pc # "idle" /\ \A d \in Channels : d # c => asg'[d] = asg[d]
  BY <1>1, <1>2, <1>3, Assigning
<1>5. BufferIsTransient'  BY <1>1, <1>4 DEF IInv, BufferIsTransient
<1> QED  BY <1>1, <1>4, <1>5, Frames DEF IInv

\* A message is buffered only while an assign of its channel is in flight.
LEMMA Buffering ==
  ASSUME IInv, NEW c \in Channels, NEW m \in Msgs, NEW assigning \in BOOLEAN,
         assigning => asg[c].pc # "idle", DeliverOrBuffer(c, m, assigning), UNCHANGED asg
  PROVE  MessageTypes' /\ BufferIsTransient'
<1>1. CASE UsesBroker(c) /\ assigning
  <2>1. buffer' = [buffer EXCEPT ![c] = Append(@, m)] /\ fate' = Fated(c, m, "buffered")
    BY <1>1 DEF DeliverOrBuffer
  <2>2. buffer[c] \in Seq(Msgs)  BY DEF IInv, MessageTypes
  <2>3. Append(buffer[c], m) \in Seq(Msgs)  BY <2>2
  <2>4. /\ buffer' \in [Channels -> Seq(Msgs)]
        /\ \A d \in Channels : d # c => buffer'[d] = buffer[d]
    BY <2>1, <2>3 DEF IInv, MessageTypes
  <2>5. "buffered" \in Fates  BY DEF Fates
  <2>6. MessageTypes'  BY <2>1, <2>4, <2>5, FateTypes DEF IInv, MessageTypes
  <2>7. BufferIsTransient'  BY <1>1, <2>4 DEF IInv, BufferIsTransient
  <2> QED  BY <2>6, <2>7
<1>2. CASE ~(UsesBroker(c) /\ assigning)
  <2> DEFINE f == IF UsesBroker(c) /\ BrokerOwns(c) THEN "fed" ELSE "refused"
  <2>1. buffer' = buffer /\ fate' = Fated(c, m, f)  BY <1>2 DEF DeliverOrBuffer
  <2>2. f \in Fates  BY DEF Fates
  <2> HIDE DEF f
  <2>3. MessageTypes'  BY <2>1, <2>2, FateTypes DEF IInv, MessageTypes
  <2> QED  BY <2>1, <2>3, Frames DEF IInv
<1> QED  BY <1>1, <1>2

LEMMA AssignForMessageInv ==
  ASSUME IInv, NEW c \in Channels, NEW m \in Msgs, AssignForMessage(c, m)
  PROVE  IInv'
<1>1. life # "down" /\ UNCHANGED <<rel, jobs, cands, probation, life>>
  BY DEF AssignForMessage
<1>2. CASE DeliverOrBuffer(c, m, asg[c].pc # "idle") /\ UNCHANGED <<pool, asg>>
  <2>1. UNCHANGED <<bots, tmux, inbound, history, disk, saved, drawn, owner, asg>>
    BY <1>2 DEF pool
  <2>2. MessageTypes' /\ BufferIsTransient'
    <3> DEFINE x == asg[c].pc # "idle"
    <3>1. x \in BOOLEAN /\ (x => asg[c].pc # "idle") /\ DeliverOrBuffer(c, m, x)  BY <1>2
    <3> HIDE DEF x
    <3> QED  BY <2>1, <3>1, Buffering
  <2> QED  BY <1>1, <2>1, <2>2, Frames DEF IInv
<1>3. CASE fate' = Fated(c, m, "shadowed") /\ UNCHANGED <<pool, asg, buffer>>
  <2>1. UNCHANGED <<bots, tmux, inbound, history, disk, saved, drawn, owner, asg, buffer>>
    BY <1>3 DEF pool
  <2>2. "shadowed" \in Fates  BY DEF Fates
  <2>3. MessageTypes'  BY <1>3, <2>1, <2>2, FateTypes DEF IInv, MessageTypes
  <2> QED  BY <1>1, <2>1, <2>3, Frames DEF IInv
<1>4. CASE DeliverOrBuffer(c, m, FALSE) /\ UNCHANGED <<pool, asg>>
  <2>1. UNCHANGED <<bots, tmux, inbound, history, disk, saved, drawn, owner, asg>>
    BY <1>4 DEF pool
  <2>2. MessageTypes' /\ BufferIsTransient'  BY <1>4, <2>1, Buffering
  <2> QED  BY <1>1, <2>1, <2>2, Frames DEF IInv
<1>5. CASE /\ Admits(c, m) /\ Unclaimed(c) /\ \E b \in Bots : BeginAssign(c, m, b)
           /\ fate' = Fated(c, m, "driver") /\ UNCHANGED <<inbound, disk, drawn, owner, buffer>>
  <2>1. PICK b \in Bots : BeginAssign(c, m, b)  BY <1>5
  <2>2. m \in 0 .. System  BY Numbers DEF System, Msgs
  <2>3. /\ BotTypes' /\ ChannelTypes' /\ SlotTypes' /\ Holding' /\ SavedHolding'
        /\ AssignsKnow' /\ BrokerSessionsAreDriven' /\ DownIsIdle'
        /\ asg'[c].pc # "idle" /\ \A d \in Channels : d # c => asg'[d] = asg[d]
    BY <1>1, <1>5, <2>1, <2>2, Assigning
  <2>4. BufferIsTransient'  BY <1>5, <2>3 DEF IInv, BufferIsTransient
  <2>5. "driver" \in Fates  BY DEF Fates
  <2>6. MessageTypes'  BY <1>5, <2>5, FateTypes DEF IInv, MessageTypes
  <2> QED  BY <1>1, <2>3, <2>4, <2>6, Frames DEF IInv
<1> QED  BY <1>2, <1>3, <1>4, <1>5 DEF AssignForMessage

(* release() and the Discord front end. *)

LEMMA ReleaseEndsInv ==
  ASSUME IInv, NEW c \in Channels, ReleaseEnds(c)
  PROVE  IInv'
<1>1. ChannelTypes'  BY DEF IInv, ChannelTypes, ReleaseEnds
<1>2. BotTypes' /\ Holding'  BY Frames DEF IInv, ReleaseEnds
<1>3. SavedHolding'  BY <1>1, <1>2, PersistHolds DEF ReleaseEnds
<1> QED  BY <1>1, <1>2, <1>3, Frames DEF IInv, ReleaseEnds

\* Whatever becomes of the history, a release keeps the pool in order.
LEMMA Releasing ==
  ASSUME IInv, NEW c \in Channels, ReleaseNow(c),
         history' \in [Channels -> Sessions \cup {None}], inbound' \subseteq Bots,
         UNCHANGED <<disk, drawn, owner, life, asg>>
  PROVE  /\ BotTypes' /\ ChannelTypes' /\ Holding' /\ AssignsKnow'
         /\ BrokerSessionsAreDriven'
<1>1. /\ bots' \in [Bots -> BotRecord]
      /\ tmux' \in [Bots -> {None} \cup LiveSession] /\ rel' \subseteq Channels
      /\ \A d \in Bots : /\ bots'[d].chan = bots[d].chan \/ bots'[d].chan = None
                         /\ bots'[d].st = "free" => bots'[d].chan = None
      /\ \A d \in Bots : tmux'[d] = tmux[d] \/ tmux'[d] = None
  BY Released DEF IInv
<1>2. BotTypes'  BY <1>1 DEF IInv, BotTypes
<1>3. ChannelTypes'  BY <1>1 DEF IInv, ChannelTypes
<1>4. Holding' /\ AssignsKnow'  BY <1>1, <1>3, LetGo DEF IInv
<1>5. BrokerSessionsAreDriven'  BY <1>1, Quieter DEF IInv
<1> QED  BY <1>2, <1>3, <1>4, <1>5

LEMMA ReleaseByCommandInv ==
  ASSUME IInv, NEW c \in Channels, ReleaseByCommand(c)
  PROVE  IInv'
<1>1. history' \in [Channels -> Sessions \cup {None}]
  BY DEF IInv, ChannelTypes, ReleaseByCommand
<1>2. inbound' \subseteq Bots  BY DEF IInv, BotTypes, ReleaseByCommand
<1>3. /\ BotTypes' /\ ChannelTypes' /\ Holding' /\ AssignsKnow'
      /\ BrokerSessionsAreDriven'
  BY <1>1, <1>2, Releasing DEF ReleaseByCommand
<1> QED  BY <1>3, Frames DEF IInv, ReleaseByCommand

LEMMA StaleLoginInv ==
  ASSUME IInv, NEW c \in Channels, StaleLogin(c)
  PROVE  IInv'
<1> DEFINE b == GetAssignment(c)
<1>1. b \in Bots /\ history' = WithHistory(b)  BY Assignee, Unassigned DEF StaleLogin
<1>2. Releasable(c) => ReleaseNow(c)  BY DEF StaleLogin
<1>3. ~Releasable(c) => tmux' = [tmux EXCEPT ![b] = None] /\ UNCHANGED <<bots, rel>>
  BY DEF StaleLogin
<1> HIDE DEF b
<1>4. history' \in [Channels -> Sessions \cup {None}]
  BY <1>1, WithHistoryTypes DEF IInv
<1>5. inbound' \subseteq Bots  BY DEF IInv, BotTypes, StaleLogin
<1>6. /\ BotTypes' /\ ChannelTypes' /\ Holding' /\ AssignsKnow'
      /\ BrokerSessionsAreDriven'
  <2>1. CASE Releasable(c)
    BY <1>2, <1>4, <1>5, <2>1, Releasing DEF StaleLogin
  <2>2. CASE ~Releasable(c)
    <3>1. tmux' \in [Bots -> {None} \cup LiveSession]
          /\ \A d \in Bots : tmux'[d] = tmux[d] \/ tmux'[d] = None
      BY <1>1, <1>3, <2>2 DEF IInv, BotTypes
    <3>2. UNCHANGED <<bots, rel, inbound, disk, drawn, owner, asg, life>>
      BY <1>3, <2>2 DEF StaleLogin
    <3>3. BotTypes'  BY <3>1, <3>2 DEF IInv, BotTypes
    <3>4. ChannelTypes'  BY <1>4, <3>2 DEF IInv, ChannelTypes
    <3>5. BrokerSessionsAreDriven'  BY <3>1, Quieter DEF IInv
    <3> QED  BY <3>2, <3>3, <3>4, <3>5, Frames DEF IInv
  <2> QED  BY <2>1, <2>2
<1> QED  BY <1>6, Frames DEF IInv, StaleLogin

LEMMA HandleMessageInv ==
  ASSUME IInv, NEW c \in Channels, NEW m \in Msgs, HandleMessage(c, m)
  PROVE  IInv'
<1> DEFINE b == GetAssignment(c)
<1>1. UNCHANGED <<disk, saved, drawn, owner, asg, buffer, jobs, cands, probation, life>>
  BY DEF HandleMessage
<1>2. b # None => b \in Bots  BY Assignee, Unassigned
<1>3. {"fed", "seen", "releasing", "held"} \subseteq Fates  BY DEF Fates
<1>4. MessageTypes'
  <2>1. PICK f \in {"fed", "seen", "releasing", "held"} : fate' = Fated(c, m, f)
    BY DEF HandleMessage
  <2> QED  BY <1>1, <1>3, <2>1, FateTypes DEF IInv, MessageTypes
<1>5. /\ BotTypes' /\ ChannelTypes' /\ Holding' /\ AssignsKnow'
      /\ BrokerSessionsAreDriven'
  <2>1. CASE b # None /\ inbound' = inbound \cup {b} /\ UNCHANGED <<bots, tmux, history, rel>>
    <3> HIDE DEF b
    <3>1. BotTypes'  BY <1>1, <1>2, <2>1 DEF IInv, BotTypes
    <3> QED  BY <1>1, <2>1, <3>1, Frames DEF IInv
  <2>2. CASE b # None /\ history' = WithHistory(b) /\ ReleaseNow(c) /\ UNCHANGED inbound
    <3> HIDE DEF b
    <3>1. history' \in [Channels -> Sessions \cup {None}]
      BY <1>2, <2>2, WithHistoryTypes DEF IInv
    <3>2. inbound' \subseteq Bots  BY <2>2 DEF IInv, BotTypes
    <3> QED  BY <1>1, <2>2, <3>1, <3>2, Releasing
  <2>3. CASE UNCHANGED <<bots, tmux, history, rel, inbound>>
    BY <1>1, <2>3, Frames DEF IInv
  <2> QED  BY <2>1, <2>2, <2>3 DEF HandleMessage
<1> QED  BY <1>1, <1>4, <1>5, Frames DEF IInv

--------------------------------------------------------------------------------
(* The theorems. *)

LEMMA NextInv == IInv /\ [Next]_vars => IInv'
<1> SUFFICES ASSUME IInv, [Next]_vars PROVE IInv'  OBVIOUS
<1>1. ASSUME NEW c \in Channels, AssignSteps(c) PROVE IInv'
  BY <1>1, AssignParkedInv, AssignSpawnedInv, AssignFedInv, AssignFailedInv, ReleaseEndsInv
     DEF AssignSteps
<1>2. ASSUME NEW j \in Jobs, JobSteps(j) PROVE IInv'
  BY <1>2, DarkFreeInv, DarkEndsInv, RestartSpawnedInv, RestartFailedInv, RestartGivesUpInv,
     RecycleReleasesInv, RecycleAssignsInv, RecycleEndsInv DEF JobSteps
<1>3. ASSUME Maintenance PROVE IInv'
  BY <1>3, TickDeadInv, TickProbeInv, HealDeadLetterInv, ResumeBeginsInv, ReconcileOneInv,
     ResumeSpawnedInv, ResumeFailedInv, ReconcileBeginsInv, BootEndsInv, HealPostRestartInv
     DEF Maintenance
<1>4. ASSUME World PROVE IInv'
  BY <1>4, HandleMessageInv, AssignForMessageInv, AssignByCommandInv, ReleaseByCommandInv,
     StaleLoginInv, SessionDiesInv, WriteTranscriptInv, ConfirmSessionInv, DrainInv,
     ShutdownInv, CrashInv, InitializeInv DEF World
<1>5. ASSUME UNCHANGED vars PROVE IInv'  BY <1>5, Frames DEF IInv, vars
<1> QED  BY <1>1, <1>2, <1>3, <1>4, <1>5 DEF Next

\* The types of the properties are the ones proved.
LEMMA Typed == IInv => TypeOK
<1> SUFFICES ASSUME IInv PROVE TypeOK  OBVIOUS
<1>1. ASSUME NEW b \in Bots
      PROVE  /\ bots[b].st \in {"free", "assigned", "parked"} /\ bots[b].conf \in BOOLEAN
             /\ bots[b].chan \in Channels \cup {None} /\ bots[b].sess \in Sessions \cup {None}
             /\ tmux[b] \in {None} \cup [chan : Channels, sess : Sessions, driven : BOOLEAN]
  BY BotFields DEF IInv, BotTypes, LiveSession
<1>2. inbound \subseteq Bots /\ disk \subseteq Sessions /\ rel \subseteq Channels
      /\ life \in {"up", "resume", "reconcile", "down"}
  BY DEF IInv, BotTypes, ChannelTypes
<1>3. ASSUME NEW c \in Channels
      PROVE  /\ history[c] \in Sessions \cup {None} /\ owner[c] \in Bots \cup {None}
             /\ asg[c].pc \in {"idle", "park", "spawn", "feed"} /\ asg[c].bot \in Bots \cup {None}
             /\ buffer[c] \in Seq(Msgs) /\ drawn[c] \in 0 .. MaxSessions
             /\ \A m \in Msgs : fate[c][m] \in Fates
  BY DEF IInv, ChannelTypes, MessageTypes, SlotTypes, Slot
<1>4. ASSUME NEW j \in Jobs
      PROVE  jobs[j].op \in {"idle", "dark", "restart", "recycle", "retire", "resume"}
  BY DEF IInv, JobTypes, Job
<1> QED  BY <1>1, <1>2, <1>3, <1>4 DEF TypeOK

LEMMA Always == Spec => []IInv
<1> QED  BY InitInv, NextInv, PTL DEF Spec

\* However assigns, releases, evictions, repairs, crashes and reboots interleave at
\* their awaits, no channel is ever held by two bots, and the pool keeps its types.
THEOREM PoolGivesEachChannelOneBot == Spec => []OneBotPerChannel
<1>1. IInv => OneBotPerChannel
  <2> SUFFICES ASSUME IInv PROVE OneBotPerChannel  OBVIOUS
  <2> QED  BY Typed DEF IInv, Holding, HoldingIn, OneBotPerChannel
<1> QED  BY <1>1, Always, PTL

\* Only an assign that carries a message makes a session of a broker channel: restarts
\* and resumes are of plugin channels, and a recycle assigns with a daemon message.
THEOREM PoolDrivesBrokerSessions == Spec => []BrokerSessionsAreDriven
<1>1. IInv => BrokerSessionsAreDriven  BY DEF IInv
<1> QED  BY <1>1, Always, PTL

\* No message stays in the cold-start buffer of a channel once its assign has ended,
\* whichever way it ended.
THEOREM PoolEmptiesItsBuffer == Spec => []BufferIsTransient
<1>1. IInv => BufferIsTransient  BY DEF IInv
<1> QED  BY <1>1, Always, PTL
=============================================================================
