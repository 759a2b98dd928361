-------------------------- MODULE ServiceFiles_proofs --------------------------
(* Proofs about the services of MCServices that keep a file in step with what they   *)
(* have done. Each theorem is about the specification of one of them and states the  *)
(* property MCServices names; Services_proofs has the others.                        *)
EXTENDS MCServices, Sequences, FiniteSetTheorems, TLAPS

--------------------------------------------------------------------------------
(* The incidents on file and the threads of the day: AlertRouter.                    *)

IncidentStages == {"none", "threaded", "unposted", "add", "blind", "open", "edit", "delete", "resolved", "ignored"}
Early == {"none", "threaded", "unposted", "add", "blind"}
PostStages == {"idle", "find", "create", "done"}
RouterLog == [opened: SUBSET Incidents, resolved: SUBSET Incidents, dropped: SUBSET Incidents,
              missed: [1 .. Days -> Nat], fileOverlap: BOOLEAN, threadOverlap: BOOLEAN]
RouterType ==
  /\ incidentCalls \in [Incidents -> [pc: IncidentStages, copy: SUBSET Incidents]]
  /\ incidentFile \in SUBSET Incidents
  /\ posts \in [Posts -> PostStages]
  /\ daily \in [today: 1 .. Days, cached: 0 .. Days, threads: [1 .. Days -> Nat]]
  /\ routerDone \in RouterLog

\* The calls that hold a copy of the file; without overlap there is one at a time, and
\* its copy is of the file as it is.
Holding(i) == incidentCalls[i].pc \in {"add", "blind", "edit", "delete"}
FileAsLoaded ==
  ~routerDone.fileOverlap =>
    /\ \A i, j \in Incidents : Holding(i) /\ Holding(j) => i = j
    /\ \A i \in Incidents : incidentCalls[i].pc = "add" => incidentCalls[i].copy = incidentFile \cup {i}
    /\ \A i \in Incidents : incidentCalls[i].pc = "blind" => incidentCalls[i].copy = {i}
    /\ \A i \in Incidents : incidentCalls[i].pc \in {"edit", "delete"} => incidentCalls[i].copy = incidentFile
    /\ incidentFile = (routerDone.opened \ routerDone.resolved) \ routerDone.dropped
OpenedPast ==
  /\ routerDone.dropped \subseteq routerDone.opened
  /\ \A i \in routerDone.opened : incidentCalls[i].pc \notin Early
ResolvedAtEnd == \A i \in routerDone.resolved : incidentCalls[i].pc = "resolved"

\* Without overlap one alert creates a thread, on a day that has none or whose thread
\* its search has missed.
ThreadPerDay ==
  ~routerDone.threadOverlap =>
    /\ \A p, q \in Posts : posts[p] = "create" /\ posts[q] = "create" => p = q
    /\ \A p \in Posts : posts[p] = "create" => daily.threads[daily.today] <= routerDone.missed[daily.today]
    /\ \A d \in 1 .. Days : daily.threads[d] <= 1 + routerDone.missed[d]

RouterInv == RouterType /\ FileAsLoaded /\ OpenedPast /\ ResolvedAtEnd /\ ThreadPerDay

LEMMA RouterInit == Router!Init => RouterInv
  BY RouterAssumption
  DEF Router!Init, Router!Call, RouterInv, RouterType, IncidentStages, PostStages, Early, RouterLog, FileAsLoaded, Holding,
      OpenedPast, ResolvedAtEnd, ThreadPerDay

\* A call on one incident goes to c; what it does to the file is left to the step.
LEMMA RouterCall ==
  ASSUME RouterInv, NEW i \in Incidents, NEW c \in [pc: IncidentStages, copy: SUBSET Incidents],
         incidentCalls' = [incidentCalls EXCEPT ![i] = c], UNCHANGED <<posts, daily>>,
         incidentFile' \in SUBSET Incidents,
         routerDone' \in RouterLog,
         routerDone'.threadOverlap = routerDone.threadOverlap, routerDone'.missed = routerDone.missed,
         incidentCalls[i].pc # "resolved", OpenedPast',
         \/ routerDone'.resolved = routerDone.resolved
         \/ routerDone'.resolved = routerDone.resolved \cup {i} /\ c.pc = "resolved",
         FileAsLoaded'
  PROVE  RouterInv'
<1>1. /\ incidentCalls \in [Incidents -> [pc: IncidentStages, copy: SUBSET Incidents]]
      /\ incidentCalls'[i] = c /\ \A j \in Incidents : j # i => incidentCalls'[j] = incidentCalls[j]
  BY DEF RouterInv, RouterType
<1>2. RouterType'  BY <1>1 DEF RouterInv, RouterType
<1>3. ResolvedAtEnd'
  <2>1. routerDone.resolved \subseteq Incidents  BY DEF RouterInv, RouterType, RouterLog
  <2> QED  BY <1>1, <2>1 DEF RouterInv, ResolvedAtEnd
<1>4. ThreadPerDay'  BY DEF RouterInv, ThreadPerDay
<1> QED  BY <1>2, <1>3, <1>4 DEF RouterInv

LEMMA RouterOpens ==
  ASSUME RouterInv, NEW i \in Incidents,
         Router!OpenIncident(i) \/ Router!OpeningLoads(i) \/ Router!OpeningSaves(i)
  PROVE  RouterInv'
<1>1. RouterType /\ FileAsLoaded /\ OpenedPast /\ ResolvedAtEnd  BY DEF RouterInv
<1>2. CASE Router!OpenIncident(i)
  <2>1. PICK pc \in {"threaded", "unposted"} : incidentCalls' = [incidentCalls EXCEPT ![i] = Router!Call(pc, {})]
    BY <1>2 DEF Router!OpenIncident
  <2> DEFINE c == Router!Call(pc, {})
  <2>2. c \in [pc: IncidentStages, copy: SUBSET Incidents] /\ c.pc \in {"threaded", "unposted"}
    BY DEF Router!Call, IncidentStages
  <2>3. incidentCalls[i].pc = "none" /\ UNCHANGED <<incidentFile, posts, daily, routerDone>>
    BY <1>2 DEF Router!OpenIncident
  <2> HIDE DEF c
  <2>4. incidentCalls' = [incidentCalls EXCEPT ![i] = c]  BY <2>1 DEF c
  <2>5. incidentCalls'[i] = c /\ \A j \in Incidents : j # i => incidentCalls'[j] = incidentCalls[j]
    BY <1>1, <2>4 DEF RouterType
  <2>6. FileAsLoaded'  BY <1>1, <2>2, <2>3, <2>5 DEF FileAsLoaded, Holding
  <2>7. OpenedPast'
    <3>1. routerDone.opened \subseteq Incidents /\ i \notin routerDone.opened
      BY <1>1, <2>3 DEF RouterType, RouterLog, OpenedPast, Early
    <3> QED  BY <1>1, <2>3, <2>5, <3>1 DEF OpenedPast
  <2> QED  BY <1>1, <2>2, <2>3, <2>4, <2>6, <2>7, RouterCall DEF RouterType
<1>3. CASE Router!OpeningLoads(i)
  <2> DEFINE o == routerDone.fileOverlap \/ Router!Loaded
  <2>0. PICK c \in {Router!Call("add", incidentFile \cup {i}), Router!Call("blind", {i})} :
          incidentCalls' = [incidentCalls EXCEPT ![i] = c]
    BY <1>3 DEF Router!OpeningLoads
  <2>1. /\ incidentCalls[i].pc = "threaded" /\ UNCHANGED <<incidentFile, posts, daily>>
        /\ routerDone' = [routerDone EXCEPT !.fileOverlap = o]
    BY <1>3 DEF Router!OpeningLoads
  <2>2. /\ c \in [pc: IncidentStages, copy: SUBSET Incidents]
        /\ \/ c.pc = "add" /\ c.copy = incidentFile \cup {i}
           \/ c.pc = "blind" /\ c.copy = {i}
    BY <1>1 DEF Router!Call, IncidentStages, RouterType
  <2>3. o \in BOOLEAN  OBVIOUS
  <2>4. ~o => ~routerDone.fileOverlap /\ \A j \in Incidents : ~Holding(j)
    BY DEF Router!Loaded, Holding
  <2> HIDE DEF o
  <2>5. incidentCalls'[i] = c /\ \A j \in Incidents : j # i => incidentCalls'[j] = incidentCalls[j]
    BY <1>1, <2>0 DEF RouterType
  <2>6. /\ routerDone' \in RouterLog
        /\ routerDone'.fileOverlap = o /\ routerDone'.threadOverlap = routerDone.threadOverlap
        /\ routerDone'.opened = routerDone.opened /\ routerDone'.resolved = routerDone.resolved
        /\ routerDone'.dropped = routerDone.dropped /\ routerDone'.missed = routerDone.missed
    BY <1>1, <2>1, <2>3 DEF RouterType, RouterLog
  <2>7. FileAsLoaded'  BY <1>1, <2>1, <2>2, <2>4, <2>5, <2>6 DEF FileAsLoaded, Holding
  <2>8. OpenedPast'
    <3>1. routerDone.opened \subseteq Incidents /\ i \notin routerDone.opened
      BY <1>1, <2>1 DEF RouterType, RouterLog, OpenedPast, Early
    <3> QED  BY <1>1, <2>5, <2>6, <3>1 DEF OpenedPast
  <2> QED  BY <1>1, <2>0, <2>1, <2>2, <2>6, <2>7, <2>8, RouterCall DEF RouterType
<1>4. CASE Router!OpeningSaves(i)
  <2> DEFINE c == Router!Call("open", {})
  <2>0. PICK d : d = IF incidentCalls[i].pc = "blind" THEN routerDone.dropped \cup routerDone.opened
                     ELSE routerDone.dropped
    OBVIOUS
  <2>1. /\ incidentCalls[i].pc \in {"add", "blind"} /\ UNCHANGED <<posts, daily>>
        /\ incidentCalls' = [incidentCalls EXCEPT ![i] = c]
        /\ \/ /\ incidentFile' = incidentCalls[i].copy
              /\ routerDone' = [routerDone EXCEPT !.opened = routerDone.opened \cup {i}, !.dropped = d]
           \/ UNCHANGED <<incidentFile, routerDone>>
    BY <1>4, <2>0 DEF Router!OpeningSaves
  <2>2. c \in [pc: IncidentStages, copy: SUBSET Incidents] /\ c.pc = "open"
    BY DEF Router!Call, IncidentStages
  <2> HIDE DEF c
  <2>3. incidentCalls'[i] = c /\ \A j \in Incidents : j # i => incidentCalls'[j] = incidentCalls[j]
    BY <1>1, <2>1 DEF RouterType
  <2>4. /\ i \notin routerDone.resolved /\ i \notin routerDone.opened
        /\ routerDone.opened \subseteq Incidents /\ routerDone.dropped \subseteq routerDone.opened
    BY <1>1, <2>1 DEF ResolvedAtEnd, OpenedPast, Early, RouterType, RouterLog
  <2>5. CASE UNCHANGED <<incidentFile, routerDone>>
    <3>1. FileAsLoaded'  BY <1>1, <2>2, <2>3, <2>5 DEF FileAsLoaded, Holding
    <3>2. OpenedPast'  BY <1>1, <2>3, <2>4, <2>5 DEF OpenedPast
    <3> QED  BY <1>1, <2>1, <2>2, <2>5, <3>1, <3>2, RouterCall DEF RouterType
  <2>6. CASE /\ incidentFile' = incidentCalls[i].copy
             /\ routerDone' = [routerDone EXCEPT !.opened = routerDone.opened \cup {i}, !.dropped = d]
    <3>0. d \in SUBSET Incidents /\ d \subseteq routerDone.opened
      BY <1>1, <2>0, <2>4 DEF RouterType, RouterLog
    <3>1. /\ routerDone' \in RouterLog
          /\ routerDone'.fileOverlap = routerDone.fileOverlap
          /\ routerDone'.threadOverlap = routerDone.threadOverlap /\ routerDone'.missed = routerDone.missed
          /\ routerDone'.opened = routerDone.opened \cup {i} /\ routerDone'.resolved = routerDone.resolved
          /\ routerDone'.dropped = d
      BY <1>1, <2>6, <3>0 DEF RouterType, RouterLog
    <3>2. FileAsLoaded'
      <4> SUFFICES ASSUME ~routerDone'.fileOverlap PROVE FileAsLoaded'
        BY DEF FileAsLoaded
      <4>1. \A j \in Incidents : ~Holding(j)'
        BY <1>1, <2>1, <2>2, <2>3, <3>1 DEF FileAsLoaded, Holding
      <4>2. CASE incidentCalls[i].pc = "add"
        <5>1. incidentFile' = incidentFile \cup {i} /\ d = routerDone.dropped
          BY <1>1, <2>0, <2>6, <3>1, <4>2 DEF FileAsLoaded
        <5>2. incidentFile' = ((routerDone.opened \cup {i}) \ routerDone.resolved) \ d
          BY <1>1, <2>4, <3>1, <5>1 DEF FileAsLoaded
        <5> QED  BY <3>1, <4>1, <5>2 DEF FileAsLoaded, Holding
      <4>3. CASE incidentCalls[i].pc = "blind"
        <5>1. incidentFile' = {i} /\ d = routerDone.opened
          BY <1>1, <2>0, <2>4, <2>6, <3>1, <4>3 DEF FileAsLoaded
        <5>2. incidentFile' = ((routerDone.opened \cup {i}) \ routerDone.resolved) \ d
          BY <2>4, <5>1
        <5> QED  BY <3>1, <4>1, <5>2 DEF FileAsLoaded, Holding
      <4> QED  BY <2>1, <4>2, <4>3
    <3>3. incidentFile' \in SUBSET Incidents  BY <1>1, <2>6 DEF RouterType
    <3>4. OpenedPast'  BY <1>1, <2>2, <2>3, <2>4, <3>0, <3>1 DEF OpenedPast, Early
    <3> QED  BY <1>1, <2>1, <2>2, <3>1, <3>2, <3>3, <3>4, RouterCall DEF RouterType
  <2> QED  BY <2>1, <2>5, <2>6
<1> QED  BY <1>2, <1>3, <1>4

LEMMA RouterResolves ==
  ASSUME RouterInv, NEW i \in Incidents,
         Router!Resolve(i) \/ Router!ResolutionPosted(i) \/ Router!ResolutionSaves(i)
  PROVE  RouterInv'
<1>1. RouterType /\ FileAsLoaded /\ OpenedPast /\ ResolvedAtEnd  BY DEF RouterInv
<1>2. CASE Router!Resolve(i)
  <2>1. PICK c \in {Router!Call("edit", incidentFile), Router!Call("ignored", {})}, o \in BOOLEAN :
          /\ incidentCalls' = [incidentCalls EXCEPT ![i] = c]
          /\ routerDone' = [routerDone EXCEPT !.fileOverlap = o]
          /\ routerDone.fileOverlap => o
          /\ c = Router!Call("edit", incidentFile) => o = (routerDone.fileOverlap \/ Router!Loaded)
    <3>1. CASE i \in incidentFile /\ incidentCalls' = [incidentCalls EXCEPT ![i] = Router!Call("edit", incidentFile)]
               /\ routerDone' = [routerDone EXCEPT !.fileOverlap = routerDone.fileOverlap \/ Router!Loaded]
      BY <3>1
    <3>2. CASE incidentCalls' = [incidentCalls EXCEPT ![i] = Router!Call("ignored", {})] /\ UNCHANGED routerDone
      <4>1. routerDone.fileOverlap \in BOOLEAN /\ routerDone' = [routerDone EXCEPT !.fileOverlap = routerDone.fileOverlap]
        BY <1>1, <3>2 DEF RouterType, RouterLog
      <4>2. Router!Call("ignored", {}) # Router!Call("edit", incidentFile)  BY DEF Router!Call
      <4> QED  BY <3>2, <4>1, <4>2
    <3> QED  BY <1>2, <3>1, <3>2 DEF Router!Resolve
  <2>2. incidentCalls[i].pc = "open" /\ UNCHANGED <<incidentFile, posts, daily>>
    BY <1>2 DEF Router!Resolve
  <2>3. /\ c \in [pc: IncidentStages, copy: SUBSET Incidents]
        /\ (c.pc = "edit" /\ c.copy = incidentFile) \/ c.pc = "ignored"
    BY <1>1, <2>1 DEF Router!Call, IncidentStages, RouterType
  <2>4. ~o => ~routerDone.fileOverlap /\ (c.pc = "edit" => \A j \in Incidents : ~Holding(j))
    BY <2>1 DEF Router!Loaded, Holding, Router!Call
  <2>5. incidentCalls'[i] = c /\ \A j \in Incidents : j # i => incidentCalls'[j] = incidentCalls[j]
    BY <1>1, <2>1 DEF RouterType
  <2>6. /\ routerDone' \in RouterLog
        /\ routerDone'.fileOverlap = o /\ routerDone'.threadOverlap = routerDone.threadOverlap
        /\ routerDone'.opened = routerDone.opened /\ routerDone'.resolved = routerDone.resolved
        /\ routerDone'.dropped = routerDone.dropped /\ routerDone'.missed = routerDone.missed
    BY <1>1, <2>1 DEF RouterType, RouterLog
  <2>7. FileAsLoaded'  BY <1>1, <2>2, <2>3, <2>4, <2>5, <2>6 DEF FileAsLoaded, Holding
  <2>8. OpenedPast'  BY <1>1, <2>3, <2>5, <2>6 DEF OpenedPast, Early, RouterType, RouterLog
  <2> QED  BY <1>1, <2>1, <2>2, <2>3, <2>6, <2>7, <2>8, RouterCall DEF RouterType
<1>3. CASE Router!ResolutionPosted(i)
  <2>1. PICK c \in {[incidentCalls[i] EXCEPT !.pc = "delete"], Router!Call("open", {})} :
          incidentCalls' = [incidentCalls EXCEPT ![i] = c]
    BY <1>1, <1>3 DEF Router!ResolutionPosted, RouterType
  <2>2. /\ c \in [pc: IncidentStages, copy: SUBSET Incidents]
        /\ c.pc = "open" \/ (c.pc = "delete" /\ c.copy = incidentCalls[i].copy)
    BY <1>1, <2>1 DEF Router!Call, IncidentStages, RouterType
  <2>3. incidentCalls[i].pc = "edit" /\ UNCHANGED <<incidentFile, posts, daily, routerDone>>
    BY <1>3 DEF Router!ResolutionPosted
  <2>4. incidentCalls'[i] = c /\ \A j \in Incidents : j # i => incidentCalls'[j] = incidentCalls[j]
    BY <1>1, <2>1 DEF RouterType
  <2>5. FileAsLoaded'  BY <1>1, <2>2, <2>3, <2>4 DEF FileAsLoaded, Holding
  <2>6. OpenedPast'  BY <1>1, <2>2, <2>3, <2>4 DEF OpenedPast, Early, RouterType, RouterLog
  <2> QED  BY <1>1, <2>1, <2>2, <2>3, <2>5, <2>6, RouterCall DEF RouterType
<1>4. CASE Router!ResolutionSaves(i)
  <2>0. PICK c \in {Router!Call("resolved", {}), Router!Call("open", {})} :
          /\ incidentCalls' = [incidentCalls EXCEPT ![i] = c]
          /\ \/ /\ c.pc = "resolved" /\ incidentFile' = incidentCalls[i].copy \ {i}
                /\ routerDone' = [routerDone EXCEPT !.resolved = routerDone.resolved \cup {i}]
             \/ c.pc = "open" /\ UNCHANGED <<incidentFile, routerDone>>
    BY <1>4 DEF Router!ResolutionSaves, Router!Without, Router!Call
  <2>1. incidentCalls[i].pc = "delete" /\ UNCHANGED <<posts, daily>>
    BY <1>4 DEF Router!ResolutionSaves
  <2>2. c \in [pc: IncidentStages, copy: SUBSET Incidents] /\ c.pc \in {"resolved", "open"}
    BY <2>0 DEF Router!Call, IncidentStages
  <2>3. incidentCalls'[i] = c /\ \A j \in Incidents : j # i => incidentCalls'[j] = incidentCalls[j]
    BY <1>1, <2>0 DEF RouterType
  <2>4. CASE c.pc = "open" /\ UNCHANGED <<incidentFile, routerDone>>
    <3>1. FileAsLoaded'  BY <1>1, <2>2, <2>3, <2>4 DEF FileAsLoaded, Holding
    <3>2. OpenedPast'  BY <1>1, <2>2, <2>3, <2>4 DEF OpenedPast, Early, RouterType, RouterLog
    <3> QED  BY <1>1, <2>0, <2>1, <2>2, <2>4, <3>1, <3>2, RouterCall DEF RouterType
  <2>5. CASE /\ c.pc = "resolved" /\ incidentFile' = incidentCalls[i].copy \ {i}
             /\ routerDone' = [routerDone EXCEPT !.resolved = routerDone.resolved \cup {i}]
    <3>1. /\ routerDone' \in RouterLog
          /\ routerDone'.fileOverlap = routerDone.fileOverlap
          /\ routerDone'.threadOverlap = routerDone.threadOverlap /\ routerDone'.missed = routerDone.missed
          /\ routerDone'.opened = routerDone.opened /\ routerDone'.resolved = routerDone.resolved \cup {i}
          /\ routerDone'.dropped = routerDone.dropped
      BY <1>1, <2>5 DEF RouterType, RouterLog
    <3>2. FileAsLoaded'
      BY <1>1, <2>1, <2>2, <2>3, <2>5, <3>1 DEF FileAsLoaded, Holding
    <3>3. incidentFile' \in SUBSET Incidents  BY <1>1, <2>5 DEF RouterType
    <3>4. OpenedPast'  BY <1>1, <2>2, <2>3, <3>1 DEF OpenedPast, Early, RouterType, RouterLog
    <3> QED  BY <1>1, <2>0, <2>1, <2>2, <2>5, <3>1, <3>2, <3>3, <3>4, RouterCall
  <2> QED  BY <2>0, <2>4, <2>5
<1> QED  BY <1>2, <1>3, <1>4

\* The steps of the routine alerts leave the incidents alone.
LEMMA RouterPost ==
  ASSUME RouterInv, UNCHANGED <<incidentFile, incidentCalls>>, posts' \in [Posts -> PostStages],
         daily' \in [today: 1 .. Days, cached: 0 .. Days, threads: [1 .. Days -> Nat]],
         NEW o \in BOOLEAN, NEW m \in [1 .. Days -> Nat],
         routerDone' = [routerDone EXCEPT !.threadOverlap = o, !.missed = m],
         ThreadPerDay'
  PROVE  RouterInv'
<1>1. RouterType /\ FileAsLoaded /\ OpenedPast /\ ResolvedAtEnd  BY DEF RouterInv
<1>2. /\ routerDone' \in RouterLog
      /\ routerDone'.fileOverlap = routerDone.fileOverlap /\ routerDone'.dropped = routerDone.dropped
      /\ routerDone'.opened = routerDone.opened /\ routerDone'.resolved = routerDone.resolved
  BY <1>1 DEF RouterType, RouterLog
<1>3. RouterType'  BY <1>1, <1>2 DEF RouterType
<1>4. FileAsLoaded'  BY <1>1, <1>2 DEF FileAsLoaded, Holding
<1>5. ResolvedAtEnd' /\ OpenedPast'  BY <1>1, <1>2 DEF ResolvedAtEnd, OpenedPast
<1> QED  BY <1>3, <1>4, <1>5 DEF RouterInv

\* The steps that leave the log alone as well.
LEMMA RouterQuiet ==
  ASSUME RouterInv, UNCHANGED <<incidentFile, incidentCalls, routerDone>>, posts' \in [Posts -> PostStages],
         daily' \in [today: 1 .. Days, cached: 0 .. Days, threads: [1 .. Days -> Nat]],
         ThreadPerDay'
  PROVE  RouterInv'
<1>1. /\ routerDone.threadOverlap \in BOOLEAN /\ routerDone.missed \in [1 .. Days -> Nat]
      /\ routerDone' = [routerDone EXCEPT !.threadOverlap = routerDone.threadOverlap,
                                          !.missed = routerDone.missed]
  BY DEF RouterInv, RouterType, RouterLog
<1> QED  BY <1>1, RouterPost

LEMMA RouterDaily ==
  ASSUME RouterInv,
         \/ \E p \in Posts : Router!PostRoutine(p) \/ Router!FindThread(p) \/ Router!CreateThread(p)
         \/ Router!Midnight
  PROVE  RouterInv'
<1>1. RouterType /\ ThreadPerDay  BY DEF RouterInv
<1>2. /\ posts \in [Posts -> PostStages]
      /\ daily \in [today: 1 .. Days, cached: 0 .. Days, threads: [1 .. Days -> Nat]]
      /\ daily.today \in 1 .. Days /\ Days \in Nat
  BY <1>1, RouterAssumption DEF RouterType
<1>0. /\ routerDone.missed \in [1 .. Days -> Nat] /\ routerDone.threadOverlap \in BOOLEAN
      /\ \A d \in 1 .. Days : daily.threads[d] \in Nat /\ routerDone.missed[d] \in Nat
  BY <1>1, <1>2 DEF RouterType, RouterLog
<1>3. ASSUME NEW p \in Posts, Router!PostRoutine(p)  PROVE RouterInv'
  <2>1. PICK s \in {"done", "find"} : posts' = [posts EXCEPT ![p] = s]
    BY <1>3 DEF Router!PostRoutine
  <2>2. PICK t \in 0 .. Days : daily' = [daily EXCEPT !.cached = t]
    <3>1. (IF daily.cached = daily.today THEN daily.cached ELSE 0) \in 0 .. Days  BY <1>2
    <3> QED  BY <1>3, <3>1 DEF Router!PostRoutine
  <2>3. UNCHANGED <<incidentFile, incidentCalls, routerDone>>  BY <1>3 DEF Router!PostRoutine
  <2>4. /\ posts' \in [Posts -> PostStages] /\ posts'[p] # "create"
        /\ \A q \in Posts : q # p => posts'[q] = posts[q]
    BY <1>2, <2>1 DEF PostStages
  <2>5. /\ daily' \in [today: 1 .. Days, cached: 0 .. Days, threads: [1 .. Days -> Nat]]
        /\ daily'.today = daily.today /\ daily'.threads = daily.threads
    BY <1>2, <2>2
  <2>6. ThreadPerDay'  BY <1>1, <2>3, <2>4, <2>5 DEF ThreadPerDay
  <2> QED  BY <2>3, <2>4, <2>5, <2>6, RouterQuiet
<1>4. ASSUME NEW p \in Posts, Router!FindThread(p)  PROVE RouterInv'
  <2>1. UNCHANGED <<incidentFile, incidentCalls>>  BY <1>4 DEF Router!FindThread
  <2>2. CASE /\ posts' = [posts EXCEPT ![p] = "done"] /\ daily' = [daily EXCEPT !.cached = daily.today]
             /\ UNCHANGED routerDone
    <3>2. /\ posts' \in [Posts -> PostStages] /\ posts'[p] # "create"
          /\ \A q \in Posts : q # p => posts'[q] = posts[q]
      BY <1>2, <2>2 DEF PostStages
    <3>3. /\ daily' \in [today: 1 .. Days, cached: 0 .. Days, threads: [1 .. Days -> Nat]]
          /\ daily'.today = daily.today /\ daily'.threads = daily.threads
      BY <1>2, <2>2
    <3>4. ThreadPerDay'  BY <1>1, <2>2, <3>2, <3>3 DEF ThreadPerDay
    <3> QED  BY <2>1, <2>2, <3>2, <3>3, <3>4, RouterQuiet
  <2>3. CASE /\ posts' = [posts EXCEPT ![p] = "create"] /\ UNCHANGED daily
             /\ routerDone' = [routerDone EXCEPT
                   !.missed[daily.today] = IF daily.threads[daily.today] > 0 THEN @ + 1 ELSE @,
                   !.threadOverlap = @ \/ \E q \in Posts : posts[q] = "create"]
    <3>1. PICK o : o = (routerDone.threadOverlap \/ \E q \in Posts : posts[q] = "create")
      OBVIOUS
    <3>2. PICK m : m = [routerDone.missed EXCEPT ![daily.today] =
                          IF daily.threads[daily.today] > 0 THEN @ + 1 ELSE @]
      OBVIOUS
    <3>3. routerDone' = [routerDone EXCEPT !.threadOverlap = o, !.missed = m]
      BY <1>2, <2>3, <3>1, <3>2 DEF RouterType, RouterLog
    <3>4. /\ o \in BOOLEAN /\ m \in [1 .. Days -> Nat]
          /\ \A d \in 1 .. Days : m[d] >= routerDone.missed[d] /\ m[d] \in Nat
          /\ daily.threads[daily.today] > 0 => m[daily.today] = routerDone.missed[daily.today] + 1
      <4>1. PICK n : n = IF daily.threads[daily.today] > 0 THEN routerDone.missed[daily.today] + 1
                         ELSE routerDone.missed[daily.today]
        OBVIOUS
      <4>2. n \in Nat /\ n >= routerDone.missed[daily.today]  BY <1>0, <1>2, <4>1
      <4>3. m = [routerDone.missed EXCEPT ![daily.today] = n]  BY <3>2, <4>1
      <4>4. /\ m \in [1 .. Days -> Nat] /\ m[daily.today] = n
            /\ \A d \in 1 .. Days : d # daily.today => m[d] = routerDone.missed[d]
        BY <1>0, <1>2, <4>2, <4>3
      <4>5. \A d \in 1 .. Days : m[d] >= routerDone.missed[d] /\ m[d] \in Nat
        BY <1>0, <4>2, <4>4
      <4>6. o \in BOOLEAN  BY <1>0, <3>1
      <4> QED  BY <4>1, <4>4, <4>5, <4>6
    <3>5. ~o => ~routerDone.threadOverlap /\ \A q \in Posts : posts[q] # "create"  BY <3>1
    <3>6. routerDone'.threadOverlap = o /\ routerDone'.missed = m  BY <1>1, <3>3 DEF RouterType, RouterLog
    <3>7. /\ posts' \in [Posts -> PostStages]
          /\ \A q \in Posts : q # p => posts'[q] = posts[q]
      BY <1>2, <2>3 DEF PostStages
    <3>8. ~o => daily.threads[daily.today] <= m[daily.today]
                /\ \A d \in 1 .. Days : daily.threads[d] <= 1 + m[d]
      <4> SUFFICES ASSUME ~o
                   PROVE  /\ daily.threads[daily.today] <= m[daily.today]
                          /\ \A d \in 1 .. Days : daily.threads[d] <= 1 + m[d]
        OBVIOUS
      <4>1. \A d \in 1 .. Days : daily.threads[d] <= 1 + routerDone.missed[d]
        BY <1>1, <3>5 DEF ThreadPerDay
      <4>2. \A d \in 1 .. Days : daily.threads[d] <= 1 + m[d]  BY <1>0, <3>4, <4>1
      <4>3. daily.threads[daily.today] <= m[daily.today]  BY <1>0, <1>2, <3>4, <4>1
      <4> QED  BY <4>2, <4>3
    <3>9. ThreadPerDay'
      BY <2>3, <3>5, <3>6, <3>7, <3>8 DEF ThreadPerDay
    <3> QED  BY <1>2, <2>1, <2>3, <3>3, <3>4, <3>7, <3>9, RouterPost
  <2> QED  BY <1>4, <2>2, <2>3 DEF Router!FindThread
<1>5. ASSUME NEW p \in Posts, Router!CreateThread(p)  PROVE RouterInv'
  <2>1. /\ UNCHANGED <<incidentFile, incidentCalls, routerDone>> /\ posts[p] = "create"
        /\ posts' = [posts EXCEPT ![p] = "done"]
        /\ \/ UNCHANGED daily
           \/ daily' = [daily EXCEPT !.threads[daily.today] = @ + 1, !.cached = daily.today]
    BY <1>5 DEF Router!CreateThread
  <2>2. /\ posts' \in [Posts -> PostStages] /\ posts'[p] # "create"
        /\ \A q \in Posts : q # p => posts'[q] = posts[q]
    BY <1>2, <2>1 DEF PostStages
  <2>3. CASE UNCHANGED daily
    <3>1. ThreadPerDay'  BY <1>1, <2>1, <2>2, <2>3 DEF ThreadPerDay
    <3> QED  BY <1>2, <2>1, <2>2, <2>3, <3>1, RouterQuiet
  <2>4. CASE daily' = [daily EXCEPT !.threads[daily.today] = @ + 1, !.cached = daily.today]
    <3> DEFINE t == [daily.threads EXCEPT ![daily.today] = daily.threads[daily.today] + 1]
    <3>1. t \in [1 .. Days -> Nat]  BY <1>2
    <3>2. /\ t[daily.today] = daily.threads[daily.today] + 1
          /\ \A d \in 1 .. Days : d # daily.today => t[d] = daily.threads[d]
      BY <1>2
    <3>3. daily' = [daily EXCEPT !.threads = t, !.cached = daily.today]
      <4>1. [daily EXCEPT !.threads[daily.today] = @ + 1, !.cached = daily.today] =
              [daily EXCEPT !.threads = t, !.cached = daily.today]
        OBVIOUS
      <4> QED  BY <2>4, <4>1
    <3> HIDE DEF t
    <3>0. daily.today \in 0 .. Days  BY <1>2
    <3>4. /\ daily' \in [today: 1 .. Days, cached: 0 .. Days, threads: [1 .. Days -> Nat]]
          /\ daily'.today = daily.today /\ daily'.threads = t
      BY <1>2, <3>1, <3>3, <3>0
    <3>5. ThreadPerDay'
      <4> SUFFICES ASSUME ~routerDone.threadOverlap
          PROVE  /\ \A q, r \in Posts : posts'[q] = "create" /\ posts'[r] = "create" => q = r
                 /\ \A q \in Posts : posts'[q] = "create" => t[daily.today] <= routerDone.missed[daily.today]
                 /\ \A d \in 1 .. Days : t[d] <= 1 + routerDone.missed[d]
        BY <2>1, <3>4 DEF ThreadPerDay
      <4>1. \A q \in Posts : posts'[q] # "create"  BY <1>1, <2>1, <2>2 DEF ThreadPerDay
      <4>2. daily.threads[daily.today] <= routerDone.missed[daily.today]  BY <1>1, <2>1 DEF ThreadPerDay
      <4>3. \A d \in 1 .. Days : t[d] <= 1 + routerDone.missed[d]
        <5>1. \A d \in 1 .. Days : daily.threads[d] <= 1 + routerDone.missed[d]  BY <1>1 DEF ThreadPerDay
        <5>2. t[daily.today] <= 1 + routerDone.missed[daily.today]  BY <1>0, <1>2, <3>2, <4>2
        <5>3. \A d \in 1 .. Days : d # daily.today => t[d] <= 1 + routerDone.missed[d]  BY <3>2, <5>1
        <5> QED  BY <5>2, <5>3
      <4> QED  BY <4>1, <4>3
    <3> QED  BY <2>1, <2>2, <3>4, <3>5, RouterQuiet
  <2> QED  BY <2>1, <2>3, <2>4
<1>6. CASE Router!Midnight
  <2>1. /\ daily.today < Days /\ \A p \in Posts : posts[p] # "create"
        /\ daily' = [daily EXCEPT !.today = daily.today + 1]
        /\ UNCHANGED <<incidentFile, incidentCalls, posts, routerDone>>
    BY <1>6 DEF Router!Midnight
  <2>2. /\ daily' \in [today: 1 .. Days, cached: 0 .. Days, threads: [1 .. Days -> Nat]]
        /\ daily'.today = daily.today + 1 /\ daily'.threads = daily.threads
    BY <1>2, <2>1
  <2>3. ThreadPerDay'  BY <1>1, <1>2, <2>1, <2>2 DEF ThreadPerDay
  <2> QED  BY <1>2, <2>1, <2>2, <2>3, RouterQuiet
<1> QED  BY <1>3, <1>4, <1>5, <1>6

\* A restart ends the calls under way and keeps what is on file.
LEMMA RouterRestarts == ASSUME RouterInv, Router!Restart PROVE RouterInv'
<1>1. RouterType /\ FileAsLoaded /\ OpenedPast /\ ResolvedAtEnd /\ ThreadPerDay  BY DEF RouterInv
<1>2. UNCHANGED <<incidentFile, routerDone>>  BY DEF Router!Restart
<1>3. PICK f : f = incidentCalls'  OBVIOUS
<1>4. \A i \in Incidents :
        /\ f[i] \in [pc: IncidentStages, copy: SUBSET Incidents]
        /\ f[i].pc \notin {"add", "blind", "edit", "delete"}
        /\ incidentCalls[i].pc \notin Early => f[i].pc \notin Early
        /\ incidentCalls[i].pc = "resolved" => f[i].pc = "resolved"
  <2> SUFFICES ASSUME NEW i \in Incidents
               PROVE  /\ f[i] \in [pc: IncidentStages, copy: SUBSET Incidents]
                      /\ f[i].pc \notin {"add", "blind", "edit", "delete"}
                      /\ incidentCalls[i].pc \notin Early => f[i].pc \notin Early
                      /\ incidentCalls[i].pc = "resolved" => f[i].pc = "resolved"
    OBVIOUS
  <2>1. incidentCalls[i] \in [pc: IncidentStages, copy: SUBSET Incidents]  BY <1>1 DEF RouterType
  <2>2. CASE incidentCalls[i].pc \in {"threaded", "add", "blind"}
    <3>1. f[i] = Router!Call("unposted", {})  BY <1>3, <2>2 DEF Router!Restart
    <3> QED  BY <2>2, <3>1 DEF Router!Call, IncidentStages, Early
  <2>3. CASE incidentCalls[i].pc \in {"edit", "delete"}
    <3>1. f[i] = Router!Call("open", {})  BY <1>3, <2>3 DEF Router!Restart
    <3> QED  BY <2>3, <3>1 DEF Router!Call, IncidentStages, Early
  <2>4. CASE incidentCalls[i].pc \notin {"threaded", "add", "blind", "edit", "delete"}
    <3>1. f[i] = incidentCalls[i]  BY <1>3, <2>4 DEF Router!Restart
    <3> QED  BY <2>1, <2>4, <3>1
  <2> QED  BY <2>2, <2>3, <2>4
<1>5. f \in [Incidents -> [pc: IncidentStages, copy: SUBSET Incidents]]
  <2>1. f = [i \in Incidents |-> f[i]]  BY <1>3 DEF Router!Restart
  <2> QED  BY <1>4, <2>1
<1>6. /\ posts' \in [Posts -> PostStages] /\ \A p \in Posts : posts'[p] # "create"
  BY <1>1 DEF Router!Restart, RouterType, PostStages
<1>7. /\ daily' \in [today: 1 .. Days, cached: 0 .. Days, threads: [1 .. Days -> Nat]]
      /\ daily'.threads = daily.threads /\ daily'.today = daily.today
  BY <1>1, RouterAssumption DEF Router!Restart, RouterType
<1>8. RouterType'  BY <1>1, <1>2, <1>3, <1>5, <1>6, <1>7 DEF RouterType
<1>9. FileAsLoaded'  BY <1>1, <1>2, <1>3, <1>4 DEF FileAsLoaded, Holding
<1>10. OpenedPast' /\ ResolvedAtEnd'
  BY <1>1, <1>2, <1>3, <1>4 DEF OpenedPast, ResolvedAtEnd, RouterType, RouterLog
<1>11. ThreadPerDay'  BY <1>1, <1>2, <1>6, <1>7 DEF ThreadPerDay
<1> QED  BY <1>8, <1>9, <1>10, <1>11 DEF RouterInv

LEMMA RouterStep == RouterInv /\ [Router!Next]_(Router!routerVars) => RouterInv'
<1> SUFFICES ASSUME RouterInv, [Router!Next]_(Router!routerVars) PROVE RouterInv'
  OBVIOUS
<1>1. CASE UNCHANGED Router!routerVars
  <2>1. UNCHANGED <<incidentFile, incidentCalls, posts, daily, routerDone>>
    BY <1>1 DEF Router!routerVars
  <2> QED  BY <2>1 DEF RouterInv, RouterType, FileAsLoaded, Holding, OpenedPast, ResolvedAtEnd, ThreadPerDay
<1> QED  BY <1>1, RouterOpens, RouterResolves, RouterDaily, RouterRestarts DEF Router!Next

LEMMA RouterSafe == RouterInv => IncidentsAndThreadsKept
  BY DEF RouterInv, FileAsLoaded, ThreadPerDay, IncidentsAndThreadsKept, Router!IncidentsAndThreadsKept

\* For every set of incidents, alerts and days: while calls of post_incident_open and
\* resolve_incident do not overlap, the file holds the incidents opened and not resolved
\* but for those dropped by a save over a failed read, and while lookups of
\* resolve_daily_thread do not overlap a day has one thread and one more for each search
\* that missed it, through failing calls and restarts (alert-router.ts).
THEOREM AlertsAreKept == Router!Spec => []IncidentsAndThreadsKept
  BY RouterInit, RouterStep, RouterSafe, PTL DEF Router!Spec

--------------------------------------------------------------------------------
(* The watches on file and the notifications typed for them: PrWatches.              *)

WatchType ==
  /\ pane2 \in [owner: Watchers \cup {Nobody}, at: {"prompt", "busy", "dead"}]
  /\ injections \in Seq(Watchers \cup {Nobody})
  /\ watchDone \in [turns: Nat, stale: BOOLEAN, deadSeen: BOOLEAN, moved: BOOLEAN, wrong: BOOLEAN]

\* Unless they are known to be apart, the file holds the store or the one write under
\* way does.
FileWillFollow ==
  watchDone.stale \/ (watchSaves = {} /\ watchFile = watches) \/ watchSaves = {watches}

\* What waits is for the channel that has the session, and nothing waits for a session
\* that a health cycle has found dead.
QueuedForTheOwner ==
  /\ pane2.at = "dead" <=> pane2.owner = Nobody
  /\ pane2.at = "dead" /\ watchDone.deadSeen => injections = <<>>
  /\ ~watchDone.moved =>
       /\ ~watchDone.wrong
       /\ pane2.at # "dead" => \A j \in 1 .. Len(injections) : injections[j] = pane2.owner

WatchInv == WatchType /\ FileWillFollow /\ QueuedForTheOwner

LEMMA WatchInit == Watch!Init => WatchInv
  BY WatchAssumption DEF Watch!Init, WatchInv, WatchType, FileWillFollow, QueuedForTheOwner

\* Steps of the store: the session, what waits for it and how it was typed stay.
LEMMA WatchStore ==
  ASSUME WatchInv, UNCHANGED <<pane2, injections>>,
         watchDone' \in [turns: Nat, stale: BOOLEAN, deadSeen: BOOLEAN, moved: BOOLEAN, wrong: BOOLEAN],
         watchDone'.deadSeen = watchDone.deadSeen, watchDone'.moved = watchDone.moved,
         watchDone'.wrong = watchDone.wrong, FileWillFollow'
  PROVE  WatchInv'
<1>1. WatchType'  BY DEF WatchInv, WatchType
<1>2. QueuedForTheOwner'  BY DEF WatchInv, QueuedForTheOwner
<1> QED  BY <1>1, <1>2 DEF WatchInv

LEMMA WatchChanged ==
  ASSUME WatchInv, NEW w, Watch!Persists(w), watches' = w, UNCHANGED <<watchFile, pane2, injections>>,
         NEW t \in Nat, watchDone' = [Watch!Overlapping EXCEPT !.turns = t]
  PROVE  WatchInv'
<1>1. watchDone \in [turns: Nat, stale: BOOLEAN, deadSeen: BOOLEAN, moved: BOOLEAN, wrong: BOOLEAN]
  BY DEF WatchInv, WatchType
<1> DEFINE o == watchSaves # {}
<1>2. watchDone' = [watchDone EXCEPT !.stale = o, !.turns = t]  BY DEF Watch!Overlapping
<1>3. o \in BOOLEAN /\ (~o => watchSaves = {})  OBVIOUS
<1> HIDE DEF o
<1>4. /\ watchDone' \in [turns: Nat, stale: BOOLEAN, deadSeen: BOOLEAN, moved: BOOLEAN, wrong: BOOLEAN]
      /\ watchDone'.deadSeen = watchDone.deadSeen /\ watchDone'.moved = watchDone.moved
      /\ watchDone'.wrong = watchDone.wrong /\ watchDone'.stale = o
  BY <1>1, <1>2, <1>3
<1>5. FileWillFollow'
  <2>1. CASE o  BY <1>4, <2>1 DEF FileWillFollow
  <2>2. CASE ~o
    <3>1. watchSaves' = {watches'}  BY <1>3, <2>2 DEF Watch!Persists
    <3> QED  BY <3>1 DEF FileWillFollow
  <2> QED  BY <2>1, <2>2
<1> QED  BY <1>4, <1>5, WatchStore

LEMMA WatchStores ==
  ASSUME WatchInv,
         \/ \E p \in Prs, c \in Watchers : Watch!Add(p, c)
         \/ Watch!Expire \/ \E w \in watchSaves : Watch!Saved(w) \/ Watch!SaveFails(w)
         \/ \E k \in Calls : Watch!Notified(k)
  PROVE  WatchInv'
<1>1. WatchType /\ FileWillFollow  BY DEF WatchInv
<1>2. Watch!Overlapping.turns = watchDone.turns /\ watchDone.turns \in Nat
  BY <1>1 DEF WatchType, Watch!Overlapping
<1>3. Watch!Overlapping = [Watch!Overlapping EXCEPT !.turns = watchDone.turns]
  BY <1>1, <1>2 DEF WatchType, Watch!Overlapping
<1>4. ASSUME NEW p \in Prs, NEW c \in Watchers, Watch!Add(p, c)  PROVE WatchInv'
  <2>1. watchDone.turns + 1 \in Nat  BY <1>2
  <2>2. watchDone' = [Watch!Overlapping EXCEPT !.turns = watchDone.turns + 1]
    BY <1>2, <1>4 DEF Watch!Add, Watch!Changed
  <2>3. /\ watches' = [watches EXCEPT ![p] = c] /\ Watch!Persists([watches EXCEPT ![p] = c])
        /\ UNCHANGED <<watchFile, pane2, injections>>
    BY <1>4 DEF Watch!Add, Watch!Changed
  <2> QED  BY <2>1, <2>2, <2>3, WatchChanged
<1>5. CASE Watch!Expire
  <2>1. PICK S : Watch!Changed([p \in Prs |-> IF p \in S THEN Nobody ELSE watches[p]], Watch!Overlapping)
    BY <1>5 DEF Watch!Expire
  <2> DEFINE w == [p \in Prs |-> IF p \in S THEN Nobody ELSE watches[p]]
  <2>2. watches' = w /\ Watch!Persists(w) /\ watchDone' = Watch!Overlapping
    BY <2>1 DEF Watch!Changed
  <2>3. UNCHANGED <<watchFile, pane2, injections>>  BY <1>5 DEF Watch!Expire
  <2> HIDE DEF w
  <2> QED  BY <1>2, <1>3, <2>2, <2>3, WatchChanged
<1>6. ASSUME NEW w \in watchSaves, Watch!Saved(w)  PROVE WatchInv'
  <2>1. /\ watchFile' = w /\ watchSaves' = watchSaves \ {w}
        /\ UNCHANGED <<watches, pane2, injections, watchDone>>
    BY <1>6 DEF Watch!Saved
  <2>2. FileWillFollow'  BY <1>1, <2>1 DEF FileWillFollow
  <2> QED  BY <1>1, <2>1, <2>2, WatchStore DEF WatchType
<1>7. ASSUME NEW k \in Calls, Watch!Notified(k)  PROVE WatchInv'
  <2>1. UNCHANGED <<watchFile, pane2, injections>>  BY <1>7 DEF Watch!Notified
  <2>2. CASE UNCHANGED <<watches, watchSaves, watchDone>>
    <3>1. FileWillFollow'  BY <1>1, <2>1, <2>2 DEF FileWillFollow
    <3> QED  BY <1>1, <2>1, <2>2, <3>1, WatchStore DEF WatchType
  <2>3. CASE Watch!Changed([watches EXCEPT ![notes[k].pr] = Nobody], Watch!Overlapping)
    <3> DEFINE w == [watches EXCEPT ![notes[k].pr] = Nobody]
    <3>1. watches' = w /\ Watch!Persists(w) /\ watchDone' = Watch!Overlapping
      BY <2>3 DEF Watch!Changed
    <3> HIDE DEF w
    <3> QED  BY <1>2, <1>3, <2>1, <3>1, WatchChanged
  <2> QED  BY <1>7, <2>2, <2>3 DEF Watch!Notified
<1>8. ASSUME NEW w \in watchSaves, Watch!SaveFails(w)  PROVE WatchInv'
  <2>1. watchDone' = [watchDone EXCEPT !.stale = TRUE] /\ UNCHANGED <<watchFile, watches, pane2, injections>>
    BY <1>8 DEF Watch!SaveFails
  <2>2. /\ watchDone' \in [turns: Nat, stale: BOOLEAN, deadSeen: BOOLEAN, moved: BOOLEAN, wrong: BOOLEAN]
        /\ watchDone'.stale /\ watchDone'.deadSeen = watchDone.deadSeen
        /\ watchDone'.moved = watchDone.moved /\ watchDone'.wrong = watchDone.wrong
    BY <1>1, <2>1 DEF WatchType
  <2>3. FileWillFollow'  BY <2>2 DEF FileWillFollow
  <2> QED  BY <2>1, <2>2, <2>3, WatchStore
<1> QED  BY <1>4, <1>5, <1>6, <1>7, <1>8

\* Steps of the session leave the store and the file alone.
LEMMA WatchSession ==
  ASSUME WatchInv, UNCHANGED <<watches, watchFile, watchSaves>>, watchDone'.stale = watchDone.stale,
         WatchType', QueuedForTheOwner'
  PROVE  WatchInv'
<1>1. FileWillFollow'  BY DEF WatchInv, FileWillFollow
<1> QED  BY <1>1 DEF WatchInv

LEMMA WatchPane ==
  ASSUME WatchInv,
         Watch!SessionTurns \/ Watch!SessionEnds \/ \E c \in Watchers : Watch!SessionStarts(c)
  PROVE  WatchInv'
<1>1. WatchType /\ QueuedForTheOwner  BY DEF WatchInv
<1>2. /\ watchDone \in [turns: Nat, stale: BOOLEAN, deadSeen: BOOLEAN, moved: BOOLEAN, wrong: BOOLEAN]
      /\ pane2 \in [owner: Watchers \cup {Nobody}, at: {"prompt", "busy", "dead"}]
  BY <1>1 DEF WatchType
<1>3. UNCHANGED <<watches, watchFile, watchSaves, injections>>
  BY DEF Watch!SessionTurns, Watch!SessionEnds, Watch!SessionStarts
<1>4. CASE Watch!SessionTurns
  <2>1. PICK at \in {"prompt", "busy"} : pane2' = [pane2 EXCEPT !.at = at]
    BY <1>4 DEF Watch!SessionTurns
  <2>2. /\ pane2' \in [owner: Watchers \cup {Nobody}, at: {"prompt", "busy", "dead"}]
        /\ pane2'.at # "dead" /\ pane2.at # "dead" /\ pane2'.owner = pane2.owner /\ UNCHANGED watchDone
    BY <1>2, <1>4, <2>1 DEF Watch!SessionTurns
  <2>3. WatchType'  BY <1>1, <1>3, <2>2 DEF WatchType
  <2>4. QueuedForTheOwner'  BY <1>1, <1>3, <2>2 DEF QueuedForTheOwner
  <2> QED  BY <1>3, <2>2, <2>3, <2>4, WatchSession
<1>5. CASE Watch!SessionEnds
  <2>1. /\ pane2' = [owner |-> Nobody, at |-> "dead"] /\ watchDone' = [watchDone EXCEPT !.deadSeen = FALSE]
    BY <1>5 DEF Watch!SessionEnds
  <2>2. /\ watchDone' \in [turns: Nat, stale: BOOLEAN, deadSeen: BOOLEAN, moved: BOOLEAN, wrong: BOOLEAN]
        /\ ~watchDone'.deadSeen /\ watchDone'.stale = watchDone.stale
        /\ watchDone'.moved = watchDone.moved /\ watchDone'.wrong = watchDone.wrong
    BY <1>2, <2>1
  <2>3. WatchType'  BY <1>1, <1>3, <2>1, <2>2 DEF WatchType
  <2>4. QueuedForTheOwner'  BY <1>1, <1>3, <2>1, <2>2 DEF QueuedForTheOwner
  <2> QED  BY <1>3, <2>2, <2>3, <2>4, WatchSession
<1>6. ASSUME NEW c \in Watchers, Watch!SessionStarts(c)  PROVE WatchInv'
  <2> DEFINE m == watchDone.moved \/ (injections # <<>> /\ (~watchDone.deadSeen \/ drain = "typing"))
             d == [watchDone EXCEPT !.moved = m]
  <2>1. /\ pane2.at = "dead" /\ pane2' = [owner |-> c, at |-> "prompt"]
        /\ watchDone' = [d EXCEPT !.turns = d.turns + 1]
    BY <1>6 DEF Watch!SessionStarts, Watch!Turned
  <2>2. m \in BOOLEAN /\ (~m => ~watchDone.moved /\ (injections = <<>> \/ watchDone.deadSeen))
    OBVIOUS
  <2> HIDE DEF m
  <2>3. d \in [turns: Nat, stale: BOOLEAN, deadSeen: BOOLEAN, moved: BOOLEAN, wrong: BOOLEAN]
        /\ d.moved = m /\ d.wrong = watchDone.wrong /\ d.stale = watchDone.stale
    BY <1>2, <2>2
  <2> HIDE DEF d
  <2>4. d.turns + 1 \in Nat  BY <2>3
  <2>5. /\ watchDone' \in [turns: Nat, stale: BOOLEAN, deadSeen: BOOLEAN, moved: BOOLEAN, wrong: BOOLEAN]
        /\ watchDone'.moved = m /\ watchDone'.wrong = watchDone.wrong
        /\ watchDone'.stale = watchDone.stale
    BY <2>1, <2>3, <2>4
  <2>6. WatchType'  BY <1>1, <1>3, <2>1, <2>5 DEF WatchType
  <2>7. ~m => injections = <<>>  BY <1>1, <2>1, <2>2 DEF QueuedForTheOwner
  <2>8. c # Nobody  BY WatchAssumption
  <2>9. QueuedForTheOwner'
    <3>1. pane2'.at = "prompt" /\ pane2'.owner = c  BY <2>1
    <3>2. ~watchDone'.moved => ~watchDone'.wrong  BY <1>1, <2>2, <2>5 DEF QueuedForTheOwner
    <3>3. ~watchDone'.moved => \A j \in 1 .. Len(injections') : injections'[j] = pane2'.owner
      BY <1>3, <2>5, <2>7
    <3> QED  BY <2>8, <3>1, <3>2, <3>3 DEF QueuedForTheOwner
  <2> QED  BY <1>3, <2>5, <2>6, <2>9, WatchSession
<1> QED  BY <1>4, <1>5, <1>6

\* Typing for the owner of the session, or into no session, is not typing wrongly.
LEMMA WatchTyped ==
  ASSUME WatchInv, NEW c, pane2.at = "dead" \/ pane2.owner = c \/ watchDone.moved,
         watchDone' = Watch!Typed(c)
  PROVE  /\ watchDone' \in [turns: Nat, stale: BOOLEAN, deadSeen: BOOLEAN, moved: BOOLEAN, wrong: BOOLEAN]
         /\ watchDone'.stale = watchDone.stale /\ watchDone'.moved = watchDone.moved
         /\ watchDone'.deadSeen = watchDone.deadSeen
         /\ ~watchDone'.moved => ~watchDone'.wrong
<1> DEFINE o == watchDone.wrong \/ (pane2.at # "dead" /\ pane2.owner # c)
<1>1. watchDone \in [turns: Nat, stale: BOOLEAN, deadSeen: BOOLEAN, moved: BOOLEAN, wrong: BOOLEAN]
  BY DEF WatchInv, WatchType
<1>2. o \in BOOLEAN /\ (o => watchDone.wrong \/ watchDone.moved)  OBVIOUS
<1>3. watchDone' = [watchDone EXCEPT !.wrong = o]  BY DEF Watch!Typed
<1>4. ~watchDone.moved => ~watchDone.wrong  BY DEF WatchInv, QueuedForTheOwner
<1> HIDE DEF o
<1>5. /\ watchDone' \in [turns: Nat, stale: BOOLEAN, deadSeen: BOOLEAN, moved: BOOLEAN, wrong: BOOLEAN]
      /\ watchDone'.stale = watchDone.stale /\ watchDone'.moved = watchDone.moved
      /\ watchDone'.deadSeen = watchDone.deadSeen /\ watchDone'.wrong = o
  BY <1>1, <1>2, <1>3
<1> QED  BY <1>2, <1>4, <1>5

LEMMA WatchNotifies ==
  ASSUME WatchInv, NEW k \in Calls, NEW p \in Prs, Watch!Notify(k, p)
  PROVE  WatchInv'
<1>1. WatchType /\ QueuedForTheOwner  BY DEF WatchInv
<1>2. UNCHANGED <<watches, watchFile, watchSaves, pane2>> /\ watches[p] # Nobody
  BY DEF Watch!Notify
<1>3. CASE pane2.owner = watches[p] /\ watchDone' = Watch!Typed(watches[p]) /\ UNCHANGED injections
  <2>1. /\ watchDone' \in [turns: Nat, stale: BOOLEAN, deadSeen: BOOLEAN, moved: BOOLEAN, wrong: BOOLEAN]
        /\ watchDone'.stale = watchDone.stale /\ watchDone'.moved = watchDone.moved
        /\ watchDone'.deadSeen = watchDone.deadSeen
        /\ ~watchDone'.moved => ~watchDone'.wrong
    BY <1>3, WatchTyped
  <2>2. WatchType'  BY <1>1, <1>2, <1>3, <2>1 DEF WatchType
  <2>3. QueuedForTheOwner'  BY <1>1, <1>2, <1>3, <2>1 DEF QueuedForTheOwner
  <2> QED  BY <1>2, <2>1, <2>2, <2>3, WatchSession
<1>4. CASE /\ pane2.owner = watches[p] /\ injections' = Append(injections, watches[p])
           /\ UNCHANGED watchDone
  <2>1. pane2.at # "dead" /\ watches[p] \in Watchers \cup {Nobody}
    BY <1>1, <1>2, <1>4 DEF WatchType, QueuedForTheOwner
  <2>2. /\ injections' \in Seq(Watchers \cup {Nobody}) /\ Len(injections') = Len(injections) + 1
        /\ \A j \in 1 .. Len(injections) : injections'[j] = injections[j]
        /\ injections'[Len(injections) + 1] = pane2.owner
    BY <1>1, <1>4, <2>1 DEF WatchType
  <2>3. WatchType'  BY <1>1, <1>2, <1>4, <2>2 DEF WatchType
  <2>4. QueuedForTheOwner'
    <3>1. ~watchDone.moved => \A j \in 1 .. Len(injections) : injections[j] = pane2.owner
      BY <1>1, <2>1 DEF QueuedForTheOwner
    <3>2. Len(injections) \in Nat  BY <1>1 DEF WatchType
    <3>3. ~watchDone.moved => \A j \in 1 .. Len(injections') : injections'[j] = pane2.owner
      BY <2>2, <3>1, <3>2
    <3> QED  BY <1>1, <1>2, <1>4, <2>1, <3>3 DEF QueuedForTheOwner
  <2> QED  BY <1>2, <1>4, <2>3, <2>4, WatchSession
<1>5. CASE UNCHANGED <<injections, watchDone>>
  <2>1. WatchType' /\ QueuedForTheOwner'
    BY <1>1, <1>2, <1>5 DEF WatchType, QueuedForTheOwner
  <2> QED  BY <1>2, <1>5, <2>1, WatchSession
<1> QED  BY <1>3, <1>4, <1>5 DEF Watch!Notify

LEMMA WatchDrains ==
  ASSUME WatchInv, Watch!DrainBegins \/ Watch!DrainTypes \/ Watch!Restart
  PROVE  WatchInv'
<1>1. WatchType /\ FileWillFollow /\ QueuedForTheOwner  BY DEF WatchInv
<1>2. /\ watchDone \in [turns: Nat, stale: BOOLEAN, deadSeen: BOOLEAN, moved: BOOLEAN, wrong: BOOLEAN]
      /\ injections \in Seq(Watchers \cup {Nobody})
  BY <1>1 DEF WatchType
<1>3. CASE Watch!DrainBegins
  <2>1. UNCHANGED <<watches, watchFile, watchSaves, pane2>>  BY <1>3 DEF Watch!DrainBegins
  <2>2. CASE UNCHANGED <<injections, watchDone>>
    <3>1. WatchType' /\ QueuedForTheOwner'  BY <1>1, <2>1, <2>2 DEF WatchType, QueuedForTheOwner
    <3> QED  BY <2>1, <2>2, <3>1, WatchSession
  <2>3. CASE injections' = <<>> /\ watchDone' = [watchDone EXCEPT !.deadSeen = TRUE]
    <3>1. /\ watchDone' \in [turns: Nat, stale: BOOLEAN, deadSeen: BOOLEAN, moved: BOOLEAN, wrong: BOOLEAN]
          /\ watchDone'.stale = watchDone.stale /\ watchDone'.moved = watchDone.moved
          /\ watchDone'.wrong = watchDone.wrong
      BY <1>2, <2>3
    <3>2. Len(injections') = 0 /\ injections' \in Seq(Watchers \cup {Nobody})  BY <2>3
    <3>3. WatchType'  BY <1>1, <2>1, <3>1, <3>2 DEF WatchType
    <3>4. QueuedForTheOwner'  BY <1>1, <2>1, <2>3, <3>1, <3>2 DEF QueuedForTheOwner
    <3> QED  BY <2>1, <3>1, <3>3, <3>4, WatchSession
  <2> QED  BY <1>3, <2>2, <2>3 DEF Watch!DrainBegins, Watch!DroppedQueue
<1>4. CASE Watch!DrainTypes
  <2>1. UNCHANGED <<watches, watchFile, watchSaves, pane2>>  BY <1>4 DEF Watch!DrainTypes
  <2>2. CASE injections = <<>>
    <3>1. UNCHANGED <<injections, watchDone>>  BY <1>4, <2>2 DEF Watch!DrainTypes
    <3>2. WatchType' /\ QueuedForTheOwner'  BY <1>1, <2>1, <3>1 DEF WatchType, QueuedForTheOwner
    <3> QED  BY <2>1, <3>1, <3>2, WatchSession
  <2>3. CASE injections # <<>>
    <3>1. watchDone' = Watch!Typed(Head(injections)) /\ injections' = Tail(injections)
      BY <1>4, <2>3 DEF Watch!DrainTypes
    <3>2. /\ Head(injections) = injections[1] /\ 1 \in 1 .. Len(injections)
          /\ injections' \in Seq(Watchers \cup {Nobody}) /\ Len(injections') = Len(injections) - 1
          /\ \A j \in 1 .. Len(injections') : injections'[j] = injections[j + 1] /\ j + 1 \in 1 .. Len(injections)
      BY <1>2, <2>3, <3>1
    <3>3. pane2.at = "dead" \/ pane2.owner = Head(injections) \/ watchDone.moved
      BY <1>1, <3>2 DEF QueuedForTheOwner
    <3>4. /\ watchDone' \in [turns: Nat, stale: BOOLEAN, deadSeen: BOOLEAN, moved: BOOLEAN, wrong: BOOLEAN]
          /\ watchDone'.stale = watchDone.stale /\ watchDone'.moved = watchDone.moved
          /\ watchDone'.deadSeen = watchDone.deadSeen
          /\ ~watchDone'.moved => ~watchDone'.wrong
      BY <3>1, <3>3, WatchTyped
    <3>5. WatchType'  BY <1>1, <2>1, <3>2, <3>4 DEF WatchType
    <3>6. QueuedForTheOwner'  BY <1>1, <2>1, <2>3, <3>2, <3>4 DEF QueuedForTheOwner
    <3> QED  BY <2>1, <3>4, <3>5, <3>6, WatchSession
  <2> QED  BY <2>2, <2>3
<1>5. CASE Watch!Restart
  <2>0. PICK o \in BOOLEAN : o = (watches' # watchFile)  OBVIOUS
  <2>1. /\ watchSaves' = {} /\ injections' = <<>> /\ UNCHANGED <<watchFile, pane2>>
        /\ watchDone' = [watchDone EXCEPT !.stale = o]
    BY <1>5, <2>0 DEF Watch!Restart
  <2>2. Len(injections') = 0 /\ injections' \in Seq(Watchers \cup {Nobody})  BY <2>1
  <2>3. /\ watchDone' \in [turns: Nat, stale: BOOLEAN, deadSeen: BOOLEAN, moved: BOOLEAN, wrong: BOOLEAN]
        /\ watchDone'.stale = o /\ watchDone'.deadSeen = watchDone.deadSeen
        /\ watchDone'.moved = watchDone.moved /\ watchDone'.wrong = watchDone.wrong
    BY <1>2, <2>0, <2>1
  <2>4. WatchType'  BY <1>1, <2>1, <2>2, <2>3 DEF WatchType
  <2>5. QueuedForTheOwner'  BY <1>1, <2>1, <2>2, <2>3 DEF QueuedForTheOwner
  <2>6. FileWillFollow'  BY <2>0, <2>1, <2>3 DEF FileWillFollow
  <2> QED  BY <2>4, <2>5, <2>6 DEF WatchInv
<1> QED  BY <1>3, <1>4, <1>5

LEMMA WatchStep == WatchInv /\ [Watch!Next]_(Watch!watchVars) => WatchInv'
<1> SUFFICES ASSUME WatchInv, [Watch!Next]_(Watch!watchVars) PROVE WatchInv'
  OBVIOUS
<1>1. CASE UNCHANGED Watch!watchVars
  <2>1. UNCHANGED <<watches, watchFile, watchSaves, pane2, injections, watchDone>>
    BY <1>1 DEF Watch!watchVars
  <2> QED  BY <2>1 DEF WatchInv, WatchType, FileWillFollow, QueuedForTheOwner
<1> QED  BY <1>1, WatchStores, WatchPane, WatchNotifies, WatchDrains DEF Watch!Next

LEMMA WatchSafe == WatchInv => WatchersAreServed
  BY DEF WatchInv, FileWillFollow, QueuedForTheOwner, WatchersAreServed, Watch!WatchFileFollows,
         Watch!TypedToTheWatcher

\* For every set of PRs and channels: once nothing is being written the watch file is the
\* store, unless the last change was written beside another one, its write failed or the
\* last load did; and a notification is typed into the session of the channel that
\* watches, unless the tmux name changed hands while it waited and no health cycle saw
\* the name without a session (pr-watches.ts; inject and drain_pending_injections of
\* pool.ts).
THEOREM WatchersServed == Watch!Spec => []WatchersAreServed
  BY WatchInit, WatchStep, WatchSafe, PTL DEF Watch!Spec

--------------------------------------------------------------------------------
(* The check suites and reviews of one pull request: CheckSuite.                     *)

SuiteStages == {"idle", "fetch", "load", "read", "save", "review", "rerun", "fix"}
SuiteActs == {"none", "review", "rerun", "fix", "giveup", "alert"}
SuiteEntries == [stamp: 0..MaxSha, flake: 0..MaxSha, fixes: Nat]
SuiteCalls == [pc: SuiteStages, concl: {"none", "passed", "failed", "odd"}, app: Suites \cup {"none"},
               sha: 0..MaxSha, base: SuiteEntries, copy: SuiteEntries, act: SuiteActs]
SuiteDone == [sessions: [Suite!Shas -> Nat], fixers: Nat, reruns: Nat, lost: Nat, inputs: Nat]
HasHead(c) == c.pc \notin {"idle", "fetch"} => c.sha \in Suite!Shas
SuiteType ==
  /\ prHead \in [sha: Suite!Shas, state: {"open", "merged"}]
  /\ mail \subseteq [app: Suites, concl: {"passed", "failed", "odd"}]
  /\ calls \in [Calls -> SuiteCalls] /\ \A k \in Calls : HasHead(calls[k])
  /\ prFile \in SuiteEntries /\ cronMap \in SuiteEntries
  /\ flow \in [pc: {"idle", "feedback", "other"}, base: SuiteEntries]
  /\ done \in SuiteDone

\* No entry counts more attempts than are allowed, and a call about to save has made of the
\* entry it knows what it will do: a dispatch stamps a commit that was not stamped.
CallPrepared(c) ==
  /\ c.base.fixes <= FixLimit
  /\ c.pc = "save" => /\ c.act # "none" /\ c.copy.fixes <= FixLimit
                      /\ c.copy.fixes = IF c.act = "fix" THEN c.base.fixes + 1 ELSE c.base.fixes
                      /\ c.base.stamp # c.sha
                      /\ c.copy.stamp = IF c.act \in {"rerun", "alert"} THEN c.base.stamp ELSE c.sha
  /\ c.pc = "rerun" => c.base.stamp # c.sha
Prepared ==
  /\ prFile.fixes <= FixLimit /\ cronMap.fixes <= FixLimit /\ flow.base.fixes <= FixLimit
  /\ \A k \in Calls : CallPrepared(calls[k])

\* The sessions of a commit, and the fixers, with those whose save has landed.
Sending(c) == c.pc \in {"review", "fix"}
SendersFor(s) == {k \in Calls : Sending(calls[k]) /\ calls[k].sha = s}
Fixers == {k \in Calls : calls[k].pc = "fix"}
Dispatches(s) == done.sessions[s] + Cardinality(SendersFor(s))
Fixes == done.fixers + Cardinality(Fixers)
\* What the entry grants, and more for every save that took another's change back.
Paid ==
  /\ \A s \in Suite!Shas : Dispatches(s) <= done.lost + (IF s <= prFile.stamp THEN 1 ELSE 0)
  /\ Fixes <= prFile.fixes + FixLimit * done.lost

SuiteInv == SuiteType /\ Prepared /\ Paid

\* One element more or less.
LEMMA OneMoves ==
  ASSUME NEW S, NEW T, NEW k, IsFiniteSet(S), IsFiniteSet(T), S \ {k} = T \ {k}
  PROVE  /\ Cardinality(S) \in Nat /\ Cardinality(T) \in Nat
         /\ k \notin T \/ k \in S => Cardinality(T) <= Cardinality(S)
         /\ k \in S /\ k \notin T => Cardinality(T) + 1 = Cardinality(S)
         /\ k \notin S /\ k \in T => Cardinality(T) = Cardinality(S) + 1
<1>1. Cardinality(S) \in Nat /\ Cardinality(T) \in Nat  BY FS_CardinalityType
<1>2. CASE k \in S /\ k \in T
  <2>1. S = T  BY <1>2
  <2> QED  BY <1>1, <1>2, <2>1
<1>3. CASE k \in S /\ k \notin T
  <2>1. T = S \ {k}  BY <1>3
  <2>2. Cardinality(T) = Cardinality(S) - 1  BY <1>3, <2>1, FS_RemoveElement
  <2> QED  BY <1>1, <1>3, <2>2
<1>4. CASE k \notin S /\ k \in T
  <2>1. T = S \cup {k}  BY <1>4
  <2>2. Cardinality(T) = Cardinality(S) + 1  BY <1>4, <2>1, FS_AddElement
  <2> QED  BY <1>1, <1>4, <2>2
<1>5. CASE k \notin S /\ k \notin T
  <2>1. S = T  BY <1>5
  <2> QED  BY <1>1, <1>5, <2>1
<1> QED  BY <1>2, <1>3, <1>4, <1>5

LEMMA SuiteSenders ==
  /\ \A s : IsFiniteSet(SendersFor(s)) /\ Cardinality(SendersFor(s)) \in Nat
  /\ IsFiniteSet(Fixers) /\ Cardinality(Fixers) \in Nat
<1>1. (\A s : SendersFor(s) \subseteq Calls) /\ Fixers \subseteq Calls  BY DEF SendersFor, Fixers
<1> QED  BY <1>1, SuiteAssumption, FS_Subset, FS_CardinalityType

LEMMA SuiteSendersNext ==
  /\ \A s : IsFiniteSet(SendersFor(s)') /\ Cardinality(SendersFor(s))' \in Nat
  /\ IsFiniteSet(Fixers') /\ Cardinality(Fixers)' \in Nat
<1>1. (\A s : SendersFor(s)' \subseteq Calls) /\ Fixers' \subseteq Calls  BY DEF SendersFor, Fixers
<1> QED  BY <1>1, SuiteAssumption, FS_Subset, FS_CardinalityType

LEMMA SuiteNumbers ==
  ASSUME SuiteType
  PROVE  /\ \A s \in Suite!Shas : Dispatches(s) \in Nat /\ done.sessions[s] \in Nat
         /\ Fixes \in Nat /\ done.fixers \in Nat /\ done.lost \in Nat
         /\ prFile.stamp \in Nat /\ prFile.fixes \in Nat /\ FixLimit \in Nat /\ Suite!Shas \subseteq Nat
         /\ FixLimit * done.lost \in Nat
<1>1. done.lost \in Nat  BY DEF SuiteType, SuiteDone
<1>2. FixLimit * done.lost \in Nat  BY <1>1, SuiteAssumption
<1>3. done.fixers \in Nat /\ \A s \in Suite!Shas : done.sessions[s] \in Nat
  BY DEF SuiteType, SuiteDone
<1>4. Fixes \in Nat /\ \A s \in Suite!Shas : Dispatches(s) \in Nat
  BY <1>3, SuiteSenders DEF Dispatches, Fixes
<1>5. prFile.stamp \in Nat /\ prFile.fixes \in Nat
  BY SuiteAssumption DEF SuiteType, SuiteEntries
<1> QED  BY <1>1, <1>2, <1>3, <1>4, <1>5, SuiteAssumption DEF Suite!Shas

LEMMA SuiteNumbersNext ==
  ASSUME SuiteType'
  PROVE  /\ \A s \in Suite!Shas : Dispatches(s)' \in Nat /\ done'.sessions[s] \in Nat
         /\ Fixes' \in Nat /\ done'.fixers \in Nat /\ done'.lost \in Nat
         /\ prFile'.stamp \in Nat /\ prFile'.fixes \in Nat
         /\ FixLimit * done'.lost \in Nat
<1>1. done'.lost \in Nat  BY DEF SuiteType, SuiteDone
<1>2. FixLimit * done'.lost \in Nat  BY <1>1, SuiteAssumption
<1>3. done'.fixers \in Nat /\ \A s \in Suite!Shas : done'.sessions[s] \in Nat
  BY DEF SuiteType, SuiteDone
<1>4. Fixes' \in Nat /\ \A s \in Suite!Shas : Dispatches(s)' \in Nat
  BY <1>3, SuiteSendersNext DEF Dispatches, Fixes
<1>5. prFile'.stamp \in Nat /\ prFile'.fixes \in Nat
  BY SuiteAssumption DEF SuiteType, SuiteEntries
<1> QED  BY <1>1, <1>2, <1>3, <1>4, <1>5, SuiteAssumption DEF Suite!Shas

LEMMA SuiteEmpty ==
  ASSUME \A k \in Calls : ~Sending(calls[k])
  PROVE  (\A s : Cardinality(SendersFor(s)) = 0) /\ Cardinality(Fixers) = 0
<1>1. (\A s : SendersFor(s) = {}) /\ Fixers = {}  BY DEF SendersFor, Fixers, Sending
<1> QED  BY <1>1, FS_EmptySet

LEMMA SuiteIdle ==
  /\ Suite!NoEntry \in SuiteEntries /\ Suite!NoEntry.stamp = 0 /\ Suite!NoEntry.fixes = 0
  /\ Suite!NoCall \in SuiteCalls /\ Suite!NoCall.pc = "idle" /\ HasHead(Suite!NoCall)
  /\ CallPrepared(Suite!NoCall) /\ ~Sending(Suite!NoCall)
  /\ Suite!NoFlow \in [pc: {"idle", "feedback", "other"}, base: SuiteEntries]
  /\ Suite!NoFlow.base.fixes <= FixLimit
<1>1. Suite!NoEntry \in SuiteEntries /\ Suite!NoEntry.stamp = 0 /\ Suite!NoEntry.fixes = 0
  BY SuiteAssumption DEF Suite!NoEntry, SuiteEntries
<1>2. /\ Suite!NoCall \in SuiteCalls /\ Suite!NoCall.pc = "idle" /\ Suite!NoCall.base = Suite!NoEntry
  BY <1>1, SuiteAssumption DEF Suite!NoCall, SuiteCalls, SuiteStages, SuiteActs
<1> HIDE DEF Suite!NoEntry
<1>3. Suite!NoFlow \in [pc: {"idle", "feedback", "other"}, base: SuiteEntries]
      /\ Suite!NoFlow.base = Suite!NoEntry
  BY <1>1 DEF Suite!NoFlow
<1> QED  BY <1>1, <1>2, <1>3, SuiteAssumption DEF HasHead, CallPrepared, Sending

LEMMA SuiteInit == Suite!Init => SuiteInv
<1> SUFFICES ASSUME Suite!Init PROVE SuiteInv
  OBVIOUS
<1>1. /\ calls = [k \in Calls |-> Suite!NoCall] /\ prFile = Suite!NoEntry
      /\ cronMap = Suite!NoEntry /\ flow = Suite!NoFlow /\ mail = {}
      /\ prHead = [sha |-> 1, state |-> "open"]
  BY DEF Suite!Init
<1>2. /\ done \in SuiteDone /\ done.lost = 0 /\ done.fixers = 0 /\ \A s \in Suite!Shas : done.sessions[s] = 0
  BY DEF Suite!Init, SuiteDone
<1>3. SuiteType
  <2>1. prHead \in [sha: Suite!Shas, state: {"open", "merged"}]  BY <1>1, SuiteAssumption DEF Suite!Shas
  <2> QED  BY <1>1, <1>2, <2>1, SuiteIdle DEF SuiteType
<1>4. Prepared  BY <1>1, SuiteIdle, SuiteAssumption DEF Prepared
<1>5. (\A s : Cardinality(SendersFor(s)) = 0) /\ Cardinality(Fixers) = 0
  BY <1>1, SuiteIdle, SuiteEmpty
<1>6. Paid  BY <1>2, <1>3, <1>5, SuiteNumbers DEF Paid, Dispatches, Fixes
<1> QED  BY <1>3, <1>4, <1>6 DEF SuiteInv

\* A step that leaves the entry and has no more sent than before.
LEMMA SuiteKeeps ==
  ASSUME SuiteInv, SuiteType', Prepared', UNCHANGED prFile, done'.lost = done.lost,
         \A s \in Suite!Shas : Dispatches(s)' <= Dispatches(s), Fixes' <= Fixes
  PROVE  SuiteInv'
<1>1. SuiteType /\ Paid  BY DEF SuiteInv
<1>2. /\ \A s \in Suite!Shas : Dispatches(s) \in Nat /\ Dispatches(s)' \in Nat
      /\ Fixes \in Nat /\ Fixes' \in Nat /\ done.lost \in Nat /\ prFile.fixes \in Nat
      /\ FixLimit * done.lost \in Nat
  BY <1>1, SuiteNumbers, SuiteNumbersNext
<1>3. Paid'
  <2>1. ASSUME NEW s \in Suite!Shas PROVE Dispatches(s)' <= done'.lost + (IF s <= prFile'.stamp THEN 1 ELSE 0)
    <3>1. Dispatches(s) <= done.lost + (IF s <= prFile.stamp THEN 1 ELSE 0)  BY <1>1 DEF Paid
    <3> QED  BY <1>2, <3>1
  <2>2. Fixes' <= prFile'.fixes + FixLimit * done'.lost
    <3>1. Fixes <= prFile.fixes + FixLimit * done.lost  BY <1>1 DEF Paid
    <3> QED  BY <1>2, <3>1
  <2> QED  BY <2>1, <2>2 DEF Paid
<1> QED  BY <1>3 DEF SuiteInv

\* A step of call k that sends nothing new and saves nothing.
LEMMA SuiteCall ==
  ASSUME SuiteInv, NEW k \in Calls, NEW c \in SuiteCalls, calls' = [calls EXCEPT ![k] = c],
         HasHead(c), CallPrepared(c), ~Sending(c),
         done' \in SuiteDone, done'.sessions = done.sessions, done'.fixers = done.fixers,
         done'.lost = done.lost, UNCHANGED <<prHead, mail, prFile, cronMap, flow>>
  PROVE  SuiteInv'
<1>1. SuiteType /\ Prepared  BY DEF SuiteInv
<1>2. /\ calls'[k] = c /\ \A j \in Calls : j # k => calls'[j] = calls[j]
      /\ calls' \in [Calls -> SuiteCalls]
  BY <1>1 DEF SuiteType
<1>3. SuiteType'
  <2>1. \A j \in Calls : HasHead(calls[j])'  BY <1>1, <1>2 DEF SuiteType, HasHead
  <2> QED  BY <1>1, <1>2, <2>1 DEF SuiteType
<1>4. Prepared'
  <2>1. \A j \in Calls : CallPrepared(calls[j])'  BY <1>1, <1>2 DEF Prepared, CallPrepared
  <2> QED  BY <1>1, <2>1 DEF Prepared
<1>5. ASSUME NEW s PROVE SendersFor(s)' \subseteq SendersFor(s)
  BY <1>2 DEF SendersFor, Sending
<1>6. Fixers' \subseteq Fixers  BY <1>2 DEF Fixers, Sending
<1>7. /\ \A s : Cardinality(SendersFor(s))' <= Cardinality(SendersFor(s))
      /\ Cardinality(Fixers)' <= Cardinality(Fixers)
  BY <1>5, <1>6, SuiteSenders, FS_Subset
<1>8. (\A s \in Suite!Shas : Dispatches(s)' <= Dispatches(s)) /\ Fixes' <= Fixes
  BY <1>1, <1>7, SuiteNumbers, SuiteSenders, SuiteSendersNext DEF Dispatches, Fixes
<1> QED  BY <1>3, <1>4, <1>8, SuiteKeeps

\* A save that sends for commit s, or for none when s is 0, and has the budget and the
\* dispatch for it in the entry it writes.
LEMMA SuiteSaved ==
  ASSUME SuiteInv, SuiteType', Prepared',
         NEW base \in SuiteEntries, NEW new \in SuiteEntries, NEW counts \in SuiteDone,
         Suite!Saved(base, new, counts),
         counts.sessions = done.sessions, counts.fixers = done.fixers, counts.lost = done.lost,
         new.fixes <= FixLimit,
         NEW k, NEW s \in Nat, NEW fix \in BOOLEAN,
         \A r : SendersFor(r)' \ {k} = SendersFor(r) \ {k},
         \A r : k \in SendersFor(r)' => k \in SendersFor(r) \/ r = s,
         Fixers' \ {k} = Fixers \ {k}, k \in Fixers' => k \in Fixers \/ fix,
         s # 0 => base.stamp # s /\ new.stamp = s,
         fix => new.fixes = base.fixes + 1
  PROVE  SuiteInv'
<1>1. /\ SuiteType /\ Prepared /\ Paid  BY DEF SuiteInv
<1>2. /\ prFile' = new /\ done'.sessions = done.sessions /\ done'.fixers = done.fixers
      /\ done'.lost = IF Suite!TakesBack(base, new) THEN done.lost + 1 ELSE done.lost
  BY DEF Suite!Saved, SuiteDone
<1>3. /\ \A r : Cardinality(SendersFor(r)) \in Nat /\ Cardinality(SendersFor(r)') \in Nat
      /\ \A r : r = s => Cardinality(SendersFor(r)') <= Cardinality(SendersFor(r)) + 1
      /\ \A r : r # s => Cardinality(SendersFor(r)') <= Cardinality(SendersFor(r))
      /\ Cardinality(Fixers) \in Nat /\ Cardinality(Fixers') \in Nat
      /\ fix => Cardinality(Fixers') <= Cardinality(Fixers) + 1
      /\ ~fix => Cardinality(Fixers') <= Cardinality(Fixers)
  <2>1. ASSUME NEW S, NEW T, IsFiniteSet(S), IsFiniteSet(T), T \ {k} = S \ {k}
        PROVE  /\ Cardinality(S) \in Nat /\ Cardinality(T) \in Nat
               /\ Cardinality(T) <= Cardinality(S) + 1
               /\ (k \in T => k \in S) => Cardinality(T) <= Cardinality(S)
    <3>1. Cardinality(S) \in Nat /\ Cardinality(T) \in Nat  BY <2>1, FS_CardinalityType
    <3> QED  BY <2>1, <3>1, OneMoves
  <2> QED  BY <2>1, SuiteSenders, SuiteSendersNext
<1>4. /\ \A r \in Suite!Shas : /\ Dispatches(r) \in Nat /\ Dispatches(r)' \in Nat
                               /\ r = s => Dispatches(r)' <= Dispatches(r) + 1
                               /\ r # s => Dispatches(r)' <= Dispatches(r)
      /\ Fixes \in Nat /\ Fixes' \in Nat
      /\ fix => Fixes' <= Fixes + 1
      /\ ~fix => Fixes' <= Fixes
  BY <1>1, <1>2, <1>3, SuiteNumbers, SuiteNumbersNext DEF Dispatches, Fixes
<1>5. /\ done.lost \in Nat /\ FixLimit \in Nat /\ prFile.stamp \in Nat /\ prFile.fixes \in Nat
      /\ base.stamp \in Nat /\ base.fixes \in Nat /\ new.stamp \in Nat /\ new.fixes \in Nat
      /\ Suite!Shas \subseteq Nat /\ FixLimit * done.lost \in Nat
      /\ prFile.fixes <= FixLimit
      /\ FixLimit * (done.lost + 1) = FixLimit * done.lost + FixLimit
      /\ 0 \notin Suite!Shas
  <2>1. \A a, b \in Nat : a * (b + 1) = a * b + a /\ a * b \in Nat  OBVIOUS
  <2>2. done.lost \in Nat /\ FixLimit \in Nat  BY <1>1, SuiteNumbers
  <2> QED  BY <1>1, <2>1, <2>2, SuiteNumbers, SuiteAssumption DEF SuiteEntries, Prepared, Suite!Shas
<1>6. \A r \in Suite!Shas : Dispatches(r)' <= done'.lost + (IF r <= prFile'.stamp THEN 1 ELSE 0)
  <2> SUFFICES ASSUME NEW r \in Suite!Shas
               PROVE  Dispatches(r)' <= done'.lost + (IF r <= prFile'.stamp THEN 1 ELSE 0)
    OBVIOUS
  <2>1. Dispatches(r) <= done.lost + (IF r <= prFile.stamp THEN 1 ELSE 0) /\ r \in Nat /\ r # 0
    BY <1>1, <1>5 DEF Paid
  <2>2. CASE Suite!TakesBack(base, new)
    <3>1. done'.lost = done.lost + 1 /\ prFile' = new  BY <1>2, <2>2
    <3>2. Dispatches(r) <= done.lost + 1  BY <1>4, <1>5, <2>1
    <3>3. CASE r = s
      <4>1. r <= prFile'.stamp /\ Dispatches(r)' <= Dispatches(r) + 1  BY <1>4, <1>5, <2>1, <3>1, <3>3
      <4> QED  BY <1>4, <1>5, <3>1, <3>2, <4>1
    <3>4. CASE r # s
      <4>1. Dispatches(r)' <= Dispatches(r)  BY <1>4, <3>4
      <4> QED  BY <1>4, <1>5, <3>1, <3>2, <4>1
    <3> QED  BY <3>3, <3>4
  <2>3. CASE ~Suite!TakesBack(base, new)
    <3>1. /\ done'.lost = done.lost /\ prFile' = new
          /\ base.stamp = prFile.stamp /\ prFile.stamp <= new.stamp
      BY <1>2, <1>5, <2>3 DEF Suite!TakesBack
    <3>2. CASE r = s
      <4>1. ~(r <= prFile.stamp) /\ r <= new.stamp /\ Dispatches(r)' <= Dispatches(r) + 1
        BY <1>4, <1>5, <2>1, <3>1, <3>2
      <4> QED  BY <1>4, <1>5, <2>1, <3>1, <4>1
    <3>3. CASE r # s
      <4>1. Dispatches(r)' <= Dispatches(r) /\ (r <= prFile.stamp => r <= new.stamp)
        BY <1>4, <1>5, <2>1, <3>1, <3>3
      <4> QED  BY <1>4, <1>5, <2>1, <3>1, <4>1
    <3> QED  BY <3>2, <3>3
  <2> QED  BY <2>2, <2>3
<1>7. Fixes' <= prFile'.fixes + FixLimit * done'.lost
  <2>1. Fixes <= prFile.fixes + FixLimit * done.lost  BY <1>1 DEF Paid
  <2> DEFINE g == FixLimit * done.lost
  <2>2. g \in Nat /\ Fixes <= prFile.fixes + g  BY <1>5, <2>1
  <2>3. CASE Suite!TakesBack(base, new)
    <3>1. FixLimit * done'.lost = g + FixLimit /\ prFile' = new  BY <1>2, <1>5, <2>3
    <3> HIDE DEF g
    <3>2. Fixes <= FixLimit + g  BY <1>4, <1>5, <2>2
    <3>3. Fixes' <= FixLimit + g + new.fixes  BY <1>4, <1>5, <2>2, <3>2
    <3> QED  BY <1>4, <1>5, <2>2, <3>1, <3>3
  <2>4. CASE ~Suite!TakesBack(base, new)
    <3>1. /\ FixLimit * done'.lost = g /\ prFile' = new
          /\ base.fixes = prFile.fixes /\ prFile.fixes <= new.fixes
      BY <1>2, <1>5, <2>4 DEF Suite!TakesBack
    <3> HIDE DEF g
    <3> QED  BY <1>4, <1>5, <2>2, <3>1
  <2> QED  BY <2>3, <2>4
<1> QED  BY <1>6, <1>7 DEF SuiteInv, Paid

\* A save by another flow or the cron, which sends nothing.
LEMMA SuiteOthersSave ==
  ASSUME SuiteInv, NEW base \in SuiteEntries, NEW new \in SuiteEntries, NEW counts \in SuiteDone,
         Suite!Saved(base, new, counts),
         counts.sessions = done.sessions, counts.fixers = done.fixers, counts.lost = done.lost,
         new.fixes <= FixLimit, UNCHANGED <<prHead, mail, calls>>,
         cronMap' \in SuiteEntries, cronMap'.fixes <= FixLimit,
         flow' \in [pc: {"idle", "feedback", "other"}, base: SuiteEntries], flow'.base.fixes <= FixLimit
  PROVE  SuiteInv'
<1>1. SuiteType /\ Prepared  BY DEF SuiteInv
<1>2. prFile' = new /\ done' \in SuiteDone
  <2>1. counts.lost \in Nat /\ counts.lost + 1 \in Nat  BY DEF SuiteDone
  <2> QED  BY <2>1 DEF Suite!Saved, SuiteDone
<1>3. SuiteType'  BY <1>1, <1>2 DEF SuiteType, HasHead
<1>4. Prepared'  BY <1>1, <1>2 DEF Prepared, CallPrepared
<1>5. (\A r : SendersFor(r)' = SendersFor(r)) /\ Fixers' = Fixers  BY DEF SendersFor, Fixers, Sending
<1>6. \A k, r : /\ SendersFor(r)' \ {k} = SendersFor(r) \ {k} /\ (k \in SendersFor(r)' => k \in SendersFor(r))
                /\ Fixers' \ {k} = Fixers \ {k} /\ (k \in Fixers' => k \in Fixers)
  BY <1>5
<1>7. PICK n \in Nat : n = 0  OBVIOUS
<1>8. PICK f \in BOOLEAN : f = FALSE  OBVIOUS
<1> QED  BY <1>3, <1>4, <1>6, <1>7, <1>8, SuiteSaved

\* A step that leaves the entry, the calls and the sessions alone.
LEMMA SuiteOutside ==
  ASSUME SuiteInv, UNCHANGED <<calls, prFile>>,
         prHead' \in [sha: Suite!Shas, state: {"open", "merged"}],
         mail' \subseteq [app: Suites, concl: {"passed", "failed", "odd"}],
         cronMap' \in SuiteEntries, cronMap'.fixes <= FixLimit,
         flow' \in [pc: {"idle", "feedback", "other"}, base: SuiteEntries], flow'.base.fixes <= FixLimit,
         done' \in SuiteDone, done'.sessions = done.sessions, done'.fixers = done.fixers,
         done'.lost = done.lost
  PROVE  SuiteInv'
<1>1. SuiteType /\ Prepared /\ Paid  BY DEF SuiteInv
<1>2. SuiteType'  BY <1>1 DEF SuiteType, HasHead
<1>3. Prepared'  BY <1>1 DEF Prepared, CallPrepared
<1>4. (\A r : SendersFor(r)' = SendersFor(r)) /\ Fixers' = Fixers  BY DEF SendersFor, Fixers, Sending
<1>5. Paid'  BY <1>1, <1>4 DEF Paid, Dispatches, Fixes
<1> QED  BY <1>2, <1>3, <1>5 DEF SuiteInv

\* The calls of handle_check_suite, but for what they save.
LEMMA SuiteCalling ==
  ASSUME SuiteInv, NEW k \in Calls,
         \/ \E e \in mail : Suite!Receive(k, e)
         \/ Suite!FetchDetail(k) \/ Suite!Load(k) \/ Suite!Decide(k) \/ Suite!Rerun(k)
  PROVE  SuiteInv'
<1>1. /\ SuiteType /\ Prepared /\ done \in SuiteDone /\ prFile \in SuiteEntries
      /\ calls[k] \in SuiteCalls /\ HasHead(calls[k]) /\ CallPrepared(calls[k])
  BY DEF SuiteInv, SuiteType, Prepared
<1>2. UNCHANGED <<prHead, mail, prFile, cronMap, flow>>
  BY DEF Suite!Receive, Suite!FetchDetail, Suite!Load, Suite!Decide, Suite!Rerun, Suite!fileVars
<1>3. ASSUME NEW c \in SuiteCalls, calls' = [calls EXCEPT ![k] = c], HasHead(c), CallPrepared(c), ~Sending(c),
             \/ UNCHANGED done \/ done' = Suite!Counted
             \/ done' = [done EXCEPT !.reruns = @ + 1]
      PROVE  SuiteInv'
  <2>1. /\ done' \in SuiteDone /\ done'.sessions = done.sessions /\ done'.fixers = done.fixers
        /\ done'.lost = done.lost
    BY <1>1, <1>3 DEF SuiteDone, Suite!Counted
  <2> QED  BY <1>2, <1>3, <2>1, SuiteCall
<1>4. CASE calls' = [calls EXCEPT ![k] = Suite!NoCall] /\ (UNCHANGED done \/ done' = [done EXCEPT !.reruns = @ + 1])
  BY <1>3, <1>4, SuiteIdle
<1>5. ASSUME NEW e \in mail, Suite!Receive(k, e) PROVE SuiteInv'
  <2> DEFINE c == [Suite!NoCall EXCEPT !.pc = "fetch", !.concl = e.concl, !.app = e.app]
  <2>1. calls' = [calls EXCEPT ![k] = c] /\ done' = Suite!Counted  BY <1>5 DEF Suite!Receive, Suite!Input
  <2>2. e.concl \in {"passed", "failed", "odd"} /\ e.app \in Suites  BY <1>1 DEF SuiteType
  <2>3. c \in SuiteCalls /\ c.pc = "fetch" /\ c.base = Suite!NoCall.base
    BY <2>2, SuiteIdle DEF SuiteCalls, SuiteStages
  <2> HIDE DEF c
  <2>4. HasHead(c) /\ CallPrepared(c) /\ ~Sending(c)
    BY <2>3, SuiteIdle DEF HasHead, CallPrepared, Sending
  <2> QED  BY <1>3, <2>1, <2>3, <2>4
<1>6. CASE Suite!FetchDetail(k)
  <2> DEFINE c == [calls[k] EXCEPT !.pc = "load", !.sha = prHead.sha]
  <2>1. CASE calls' = [calls EXCEPT ![k].pc = "load", ![k].sha = prHead.sha]
    <3>1. calls' = [calls EXCEPT ![k] = c] /\ UNCHANGED done  BY <1>1, <1>6, <2>1 DEF SuiteType, Suite!FetchDetail
    <3>2. prHead.sha \in Suite!Shas /\ prHead.sha \in 0..MaxSha
      BY <1>1, SuiteAssumption DEF SuiteType, Suite!Shas
    <3>3. c \in SuiteCalls /\ c.pc = "load" /\ c.sha = prHead.sha /\ c.base = calls[k].base
      BY <1>1, <3>2 DEF SuiteCalls, SuiteStages
    <3> HIDE DEF c
    <3>4. HasHead(c) /\ CallPrepared(c) /\ ~Sending(c)
      BY <1>1, <3>2, <3>3 DEF HasHead, CallPrepared, Sending
    <3> QED  BY <1>3, <3>1, <3>3, <3>4
  <2> QED  BY <1>4, <1>6, <2>1 DEF Suite!FetchDetail
<1>7. CASE Suite!Load(k)
  <2>1. PICK e \in Suite!Readings : calls' = [calls EXCEPT ![k].pc = "read", ![k].base = e]
    BY <1>7 DEF Suite!Load
  <2>2. e \in SuiteEntries /\ e.fixes <= FixLimit
    BY <1>1, SuiteIdle, SuiteAssumption DEF Suite!Readings, Prepared
  <2> DEFINE c == [calls[k] EXCEPT !.pc = "read", !.base = e]
  <2>3. calls' = [calls EXCEPT ![k] = c] /\ UNCHANGED done  BY <1>1, <1>7, <2>1 DEF SuiteType, Suite!Load
  <2>4. c \in SuiteCalls /\ c.pc = "read" /\ c.base = e /\ c.sha = calls[k].sha /\ calls[k].pc = "load"
    BY <1>1, <1>7, <2>2 DEF SuiteCalls, SuiteStages, Suite!Load
  <2> HIDE DEF c
  <2>5. HasHead(c) /\ CallPrepared(c) /\ ~Sending(c)
    BY <1>1, <2>2, <2>4 DEF HasHead, CallPrepared, Sending
  <2> QED  BY <1>3, <2>3, <2>4, <2>5
\* A call that goes on to save.
<1>8. ASSUME NEW e \in SuiteEntries, NEW act \in SuiteActs \ {"none"}, calls' = Suite!ToSave(k, e, act), UNCHANGED done,
             calls[k].sha \in Suite!Shas, calls[k].base.stamp # calls[k].sha, e.fixes <= FixLimit,
             e.fixes = IF act = "fix" THEN calls[k].base.fixes + 1 ELSE calls[k].base.fixes,
             e.stamp = IF act \in {"rerun", "alert"} THEN calls[k].base.stamp ELSE calls[k].sha
      PROVE  SuiteInv'
  <2> DEFINE c == [calls[k] EXCEPT !.pc = "save", !.concl = "none", !.copy = e, !.act = act]
  <2>1. calls' = [calls EXCEPT ![k] = c]  BY <1>1, <1>8 DEF SuiteType, Suite!ToSave
  <2>2. /\ c \in SuiteCalls /\ c.pc = "save" /\ c.sha = calls[k].sha /\ c.base = calls[k].base
        /\ c.copy = e /\ c.act = act
    BY <1>1, <1>8 DEF SuiteCalls, SuiteStages
  <2> HIDE DEF c
  <2>3. HasHead(c) /\ CallPrepared(c) /\ ~Sending(c)
    BY <1>1, <1>8, <2>2 DEF HasHead, CallPrepared, Sending
  <2> QED  BY <1>3, <1>8, <2>1, <2>2, <2>3
<1>9. ASSUME NEW e \in SuiteEntries, UNCHANGED done, calls[k].sha \in Suite!Shas,
             calls[k].base.stamp # calls[k].sha, calls' = Suite!Fixing(k, e, calls[k].sha),
             e.fixes = calls[k].base.fixes
      PROVE  SuiteInv'
  <2> DEFINE s == calls[k].sha  d == Suite!Stamped(e, s)
  <2>1. d \in SuiteEntries /\ d.stamp = s /\ d.fixes = e.fixes
    BY <1>9, SuiteAssumption DEF Suite!Stamped, SuiteEntries, Suite!Shas
  <2>2. e.fixes \in Nat /\ e.fixes <= FixLimit  BY <1>1, <1>9 DEF CallPrepared, SuiteEntries
  <2>3. CASE e.fixes >= FixLimit
    <3>1. calls' = Suite!ToSave(k, d, "giveup")  BY <1>9, <2>3 DEF Suite!Fixing
    <3> HIDE DEF d
    <3> QED  BY <1>8, <1>9, <2>1, <2>2, <3>1 DEF SuiteActs
  <2>4. CASE ~(e.fixes >= FixLimit)
    <3> DEFINE f == [d EXCEPT !.fixes = @ + 1]
    <3>1. calls' = Suite!ToSave(k, f, "fix")  BY <1>9, <2>4 DEF Suite!Fixing
    <3> HIDE DEF d
    <3>2. f \in SuiteEntries /\ f.stamp = s /\ f.fixes = e.fixes + 1 /\ f.fixes <= FixLimit
      BY <2>1, <2>2, <2>4, SuiteAssumption DEF SuiteEntries
    <3> HIDE DEF f
    <3> QED  BY <1>8, <1>9, <2>1, <2>2, <3>1, <3>2 DEF SuiteActs
  <2> QED  BY <2>3, <2>4
<1>10. calls[k].base \in SuiteEntries /\ calls[k].base.fixes <= FixLimit
  BY <1>1 DEF SuiteCalls, CallPrepared
<1>11. CASE Suite!Decide(k)
  <2> DEFINE s == calls[k].sha  e == calls[k].base
  <2>1. UNCHANGED done /\ s \in Suite!Shas  BY <1>1, <1>11 DEF Suite!Decide, HasHead
  <2>2. CASE e.stamp # s /\ calls' = Suite!ToSave(k, Suite!Stamped(e, s), "review")
    <3>1. Suite!Stamped(e, s) \in SuiteEntries /\ Suite!Stamped(e, s).stamp = s /\ Suite!Stamped(e, s).fixes = e.fixes
      BY <1>10, <2>1, SuiteAssumption DEF Suite!Stamped, SuiteEntries, Suite!Shas
    <3> QED  BY <1>8, <1>10, <2>1, <2>2, <3>1 DEF SuiteActs
  <2>3. CASE e.stamp # s /\ calls' = Suite!ToSave(k, [e EXCEPT !.flake = s], "rerun")
    <3>1. /\ [e EXCEPT !.flake = s] \in SuiteEntries /\ [e EXCEPT !.flake = s].stamp = e.stamp
          /\ [e EXCEPT !.flake = s].fixes = e.fixes
      BY <1>10, <2>1, SuiteAssumption DEF SuiteEntries, Suite!Shas
    <3> DEFINE d == [e EXCEPT !.flake = s]
    <3>2. d \in SuiteEntries /\ d.stamp = e.stamp /\ d.fixes = e.fixes /\ calls' = Suite!ToSave(k, d, "rerun")
      BY <2>3, <3>1
    <3> HIDE DEF d
    <3> QED  BY <1>8, <1>10, <2>1, <2>3, <3>2 DEF SuiteActs
  <2>4. CASE e.stamp # s /\ calls' = Suite!Fixing(k, e, s)
    BY <1>9, <1>10, <2>1, <2>4
  <2>5. CASE e.stamp # s /\ calls' = Suite!ToSave(k, e, "alert")
    BY <1>8, <1>10, <2>1, <2>5 DEF SuiteActs
  <2>6. CASE calls' = [calls EXCEPT ![k] = Suite!NoCall]  BY <1>4, <2>1, <2>6
  <2> QED  BY <1>11, <2>2, <2>3, <2>4, <2>5, <2>6 DEF Suite!Decide
<1>12. CASE Suite!Rerun(k)
  <2>1. calls[k].sha \in Suite!Shas /\ calls[k].base.stamp # calls[k].sha
    BY <1>1, <1>12 DEF Suite!Rerun, HasHead, CallPrepared
  <2> DEFINE e == [calls[k].base EXCEPT !.flake = 0]
  <2>2. CASE calls' = Suite!Fixing(k, e, calls[k].sha) /\ UNCHANGED done
    <3>1. e \in SuiteEntries /\ e.fixes = calls[k].base.fixes  BY <1>10, SuiteAssumption DEF SuiteEntries
    <3> QED  BY <1>9, <2>1, <2>2, <3>1
  <2> QED  BY <1>4, <1>12, <2>2 DEF Suite!Rerun
<1> QED  BY <1>5, <1>6, <1>7, <1>11, <1>12

LEMMA SuiteSaves == ASSUME SuiteInv, NEW k \in Calls, Suite!Save(k) PROVE SuiteInv'
<1>1. /\ SuiteType /\ Prepared /\ done \in SuiteDone
      /\ calls[k] \in SuiteCalls /\ HasHead(calls[k]) /\ CallPrepared(calls[k]) /\ calls[k].pc = "save"
      /\ UNCHANGED <<prHead, mail, cronMap, flow>>
  BY DEF SuiteInv, SuiteType, Prepared, Suite!Save
<1>2. CASE calls' = [calls EXCEPT ![k] = Suite!NoCall] /\ UNCHANGED <<prFile, done>>
  BY <1>1, <1>2, SuiteIdle, SuiteCall
<1>3. CASE Suite!Saved(calls[k].base, calls[k].copy, done) /\ ~(UNCHANGED <<prFile, done>>
             /\ calls' = [calls EXCEPT ![k] = Suite!NoCall])
  <2> DEFINE ends == calls[k].act \in {"giveup", "alert"}
             d == [calls[k] EXCEPT !.pc = calls[k].act, !.act = "none", !.base = calls[k].copy, !.copy = Suite!NoEntry]
             c == IF ends THEN Suite!NoCall ELSE d
             s == IF c.pc \in {"review", "fix"} THEN calls[k].sha ELSE 0
             f == c.pc = "fix"
  <2>1. calls' = [calls EXCEPT ![k] = c]
    <3>1. calls' = IF ends THEN [calls EXCEPT ![k] = Suite!NoCall]
                   ELSE [calls EXCEPT ![k].pc = calls[k].act, ![k].act = "none",
                                      ![k].base = calls[k].copy, ![k].copy = Suite!NoEntry]
      BY <1>3 DEF Suite!Save
    <3> QED  BY <1>1, <3>1 DEF SuiteType
  <2>2. /\ calls[k].base \in SuiteEntries /\ calls[k].copy \in SuiteEntries /\ calls[k].sha \in Suite!Shas
        /\ calls[k].act \in SuiteActs \ {"none"} /\ calls[k].copy.fixes <= FixLimit
    BY <1>1 DEF SuiteCalls, HasHead, CallPrepared
  <2>3. ~ends => d \in SuiteCalls /\ d.pc = calls[k].act /\ d.sha = calls[k].sha /\ d.base = calls[k].copy
    BY <1>1, <2>2, SuiteIdle DEF SuiteCalls, SuiteActs, SuiteStages
  <2> HIDE DEF d
  <2>4. /\ c \in SuiteCalls /\ HasHead(c) /\ CallPrepared(c)
        /\ Sending(c) => c.sha = calls[k].sha /\ c.pc = calls[k].act
    <3>1. CASE ends  BY <3>1, SuiteIdle
    <3>2. CASE ~ends
      BY <1>1, <2>2, <2>3, <3>2 DEF HasHead, CallPrepared, SuiteActs, Sending
    <3> QED  BY <3>1, <3>2
  <2>5. /\ s \in Nat /\ f \in BOOLEAN
        /\ Sending(c) => s = calls[k].sha
        /\ s # 0 => calls[k].base.stamp # s /\ calls[k].copy.stamp = s
        /\ f => calls[k].copy.fixes = calls[k].base.fixes + 1
    BY <1>1, <2>2, <2>4 DEF Sending, CallPrepared, Suite!Shas
  <2>6. s # 0 => Sending(c)  BY DEF Sending
  <2> HIDE DEF c, s
  <2>7. /\ calls'[k] = c /\ \A j \in Calls : j # k => calls'[j] = calls[j]
        /\ calls' \in [Calls -> SuiteCalls]
    BY <1>1, <2>1, <2>4 DEF SuiteType
  <2>8. prFile' = calls[k].copy /\ done' \in SuiteDone
    <3>1. done.lost \in Nat /\ done.lost + 1 \in Nat  BY <1>1 DEF SuiteDone
    <3> QED  BY <1>1, <1>3, <3>1 DEF Suite!Saved, SuiteDone
  <2>9. SuiteType'
    <3>1. \A j \in Calls : HasHead(calls[j])'  BY <1>1, <2>4, <2>7 DEF SuiteType, HasHead
    <3> QED  BY <1>1, <2>2, <2>7, <2>8, <3>1 DEF SuiteType
  <2>10. Prepared'
    <3>1. \A j \in Calls : CallPrepared(calls[j])'  BY <1>1, <2>4, <2>7 DEF Prepared, CallPrepared
    <3> QED  BY <1>1, <2>2, <2>8, <3>1 DEF Prepared
  <2>11. /\ \A r : SendersFor(r)' \ {k} = SendersFor(r) \ {k}
         /\ \A r : k \in SendersFor(r)' => k \in SendersFor(r) \/ r = s
         /\ Fixers' \ {k} = Fixers \ {k} /\ (k \in Fixers' => k \in Fixers \/ f)
    BY <2>4, <2>5, <2>7 DEF SendersFor, Fixers, Sending
  <2> HIDE DEF f
  <2> QED  BY <1>1, <1>3, <2>2, <2>5, <2>9, <2>10, <2>11, SuiteSaved
<1> QED  BY <1>2, <1>3 DEF Suite!Save

\* A reviewer or a fixer is started, or its failure alerted: the call ends.
LEMMA SuiteSends ==
  ASSUME SuiteInv, NEW k \in Calls, Suite!SpawnReviewer(k) \/ Suite!SpawnFixer(k)
  PROVE  SuiteInv'
<1>0. PICK s : s = calls[k].sha  OBVIOUS
<1>1. /\ SuiteType /\ Prepared /\ done \in SuiteDone
      /\ calls[k] \in SuiteCalls /\ Sending(calls[k]) /\ s \in Suite!Shas /\ calls[k].sha = s
      /\ calls' = [calls EXCEPT ![k] = Suite!NoCall]
      /\ UNCHANGED <<prHead, mail, prFile, cronMap, flow>>
  BY <1>0 DEF SuiteInv, SuiteType, HasHead, Sending, Suite!SpawnReviewer, Suite!SpawnFixer, Suite!fileVars
<1>2. CASE UNCHANGED done  BY <1>1, <1>2, SuiteIdle, SuiteCall
<1>3. CASE \/ calls[k].pc = "review" /\ done' = [done EXCEPT !.sessions[s] = @ + 1]
           \/ calls[k].pc = "fix" /\ done' = [done EXCEPT !.sessions[s] = @ + 1, !.fixers = @ + 1]
  <2>1. /\ done' \in SuiteDone /\ done'.lost = done.lost
        /\ done'.sessions[s] = done.sessions[s] + 1
        /\ \A r \in Suite!Shas : r # s => done'.sessions[r] = done.sessions[r]
        /\ calls[k].pc = "review" => done'.fixers = done.fixers
        /\ calls[k].pc = "fix" => done'.fixers = done.fixers + 1
    <3>1. CASE calls[k].pc = "review" /\ done' = [done EXCEPT !.sessions[s] = @ + 1]
      BY <1>1, <3>1 DEF SuiteDone
    <3>2. CASE calls[k].pc = "fix" /\ done' = [done EXCEPT !.sessions[s] = @ + 1, !.fixers = @ + 1]
      <4> DEFINE S == [done.sessions EXCEPT ![s] = @ + 1]
      <4>1. S \in [Suite!Shas -> Nat] /\ done.fixers + 1 \in Nat /\ S[s] = done.sessions[s] + 1
            /\ \A r \in Suite!Shas : r # s => S[r] = done.sessions[r]
        BY <1>1 DEF SuiteDone
      <4>2. done' = [done EXCEPT !.sessions = S, !.fixers = done.fixers + 1]  BY <1>1, <3>2 DEF SuiteDone
      <4> HIDE DEF S
      <4> QED  BY <1>1, <3>2, <4>1, <4>2 DEF SuiteDone
    <3> QED  BY <1>3, <3>1, <3>2
  <2>2. /\ calls'[k] = Suite!NoCall /\ \A j \in Calls : j # k => calls'[j] = calls[j]
        /\ calls' \in [Calls -> SuiteCalls]
    BY <1>1, SuiteIdle DEF SuiteType
  <2>3. SuiteType'
    <3>1. \A j \in Calls : HasHead(calls[j])'  BY <1>1, <2>2, SuiteIdle DEF SuiteType, HasHead
    <3> QED  BY <1>1, <2>1, <2>2, <3>1 DEF SuiteType
  <2>4. Prepared'
    <3>1. \A j \in Calls : CallPrepared(calls[j])'  BY <1>1, <2>2, SuiteIdle DEF Prepared, CallPrepared
    <3> QED  BY <1>1, <3>1 DEF Prepared
  <2>5. /\ \A r : SendersFor(r)' \ {k} = SendersFor(r) \ {k} /\ k \notin SendersFor(r)'
        /\ k \in SendersFor(s)
        /\ Fixers' \ {k} = Fixers \ {k} /\ k \notin Fixers'
        /\ k \in Fixers <=> calls[k].pc = "fix"
    BY <1>1, <2>2, SuiteIdle DEF SendersFor, Fixers, Sending
  <2>6. /\ \A r : Cardinality(SendersFor(r)') <= Cardinality(SendersFor(r))
        /\ Cardinality(SendersFor(s)') + 1 = Cardinality(SendersFor(s))
        /\ Cardinality(Fixers') <= Cardinality(Fixers)
        /\ calls[k].pc = "fix" => Cardinality(Fixers') + 1 = Cardinality(Fixers)
    <3>1. ASSUME NEW S, NEW T, IsFiniteSet(S), IsFiniteSet(T), T \ {k} = S \ {k}, k \notin T
          PROVE  /\ Cardinality(T) <= Cardinality(S)
                 /\ k \in S => Cardinality(T) + 1 = Cardinality(S)
      BY <3>1, OneMoves
    <3> QED  BY <2>5, <3>1, SuiteSenders, SuiteSendersNext
  <2>7. /\ \A r : Cardinality(SendersFor(r)) \in Nat /\ Cardinality(SendersFor(r)') \in Nat
        /\ Cardinality(Fixers) \in Nat /\ Cardinality(Fixers') \in Nat
        /\ done.fixers \in Nat /\ \A r \in Suite!Shas : done.sessions[r] \in Nat
    BY <1>1, SuiteSenders, SuiteSendersNext, SuiteNumbers
  <2>8. ASSUME NEW r \in Suite!Shas PROVE Dispatches(r)' <= Dispatches(r)
    <3>1. CASE r = s
      <4>1. Dispatches(s)' = done.sessions[s] + 1 + Cardinality(SendersFor(s)')  BY <2>1 DEF Dispatches
      <4> QED  BY <1>1, <2>6, <2>7, <3>1, <4>1 DEF Dispatches
    <3>2. CASE r # s
      <4>1. Dispatches(r)' = done.sessions[r] + Cardinality(SendersFor(r)')  BY <2>1, <3>2 DEF Dispatches
      <4> QED  BY <2>6, <2>7, <4>1 DEF Dispatches
    <3> QED  BY <3>1, <3>2
  <2>9. Fixes' <= Fixes
    BY <1>3, <2>1, <2>6, <2>7 DEF Fixes
  <2> QED  BY <1>1, <2>1, <2>3, <2>4, <2>8, <2>9, SuiteKeeps
<1> QED  BY <1>0, <1>2, <1>3 DEF Suite!SpawnReviewer, Suite!SpawnFixer

LEMMA SuiteRestarts == ASSUME SuiteInv, Suite!Restart PROVE SuiteInv'
<1>1. /\ SuiteType /\ Prepared /\ done \in SuiteDone
      /\ calls' = [k \in Calls |-> Suite!NoCall] /\ flow' = Suite!NoFlow
      /\ cronMap' \in Suite!Readings /\ done' = Suite!Counted
      /\ UNCHANGED <<prHead, mail, prFile>>
  BY DEF SuiteInv, SuiteType, Suite!Restart, Suite!Input
<1>2. done' \in SuiteDone /\ done'.sessions = done.sessions /\ done'.fixers = done.fixers /\ done'.lost = done.lost
  BY <1>1 DEF SuiteDone, Suite!Counted
<1>3. SuiteType' /\ Prepared'
  <2>1. cronMap' \in SuiteEntries /\ cronMap'.fixes <= FixLimit
    BY <1>1, SuiteIdle, SuiteAssumption DEF Suite!Readings, SuiteType, Prepared
  <2>2. SuiteType'
    <3>1. \A j \in Calls : HasHead(calls[j])'  BY <1>1, SuiteIdle DEF HasHead
    <3> QED  BY <1>1, <1>2, <2>1, <3>1, SuiteIdle DEF SuiteType
  <2>3. \A j \in Calls : CallPrepared(calls[j])'  BY <1>1, SuiteIdle DEF CallPrepared
  <2> QED  BY <1>1, <2>1, <2>2, <2>3, SuiteIdle DEF Prepared
<1>4. (\A r : SendersFor(r)' \subseteq SendersFor(r)) /\ Fixers' \subseteq Fixers
  BY <1>1, SuiteIdle DEF SendersFor, Fixers, Sending
<1>5. /\ \A r : Cardinality(SendersFor(r))' <= Cardinality(SendersFor(r))
      /\ Cardinality(Fixers)' <= Cardinality(Fixers)
  BY <1>4, SuiteSenders, FS_Subset
<1>6. (\A r \in Suite!Shas : Dispatches(r)' <= Dispatches(r)) /\ Fixes' <= Fixes
  BY <1>1, <1>2, <1>5, SuiteNumbers, SuiteSenders, SuiteSendersNext DEF Dispatches, Fixes
<1> QED  BY <1>1, <1>2, <1>3, <1>6, SuiteKeeps

LEMMA SuiteCrons == ASSUME SuiteInv, Suite!CronSaves PROVE SuiteInv'
<1>1. /\ SuiteType /\ Prepared /\ done \in SuiteDone /\ cronMap \in SuiteEntries
      /\ UNCHANGED <<prHead, mail, calls, flow>>
  BY DEF SuiteInv, SuiteType, Suite!CronSaves
<1>2. cronMap' \in SuiteEntries /\ cronMap'.fixes <= FixLimit
  <2>1. CASE cronMap.fixes < FixLimit /\ cronMap' = [cronMap EXCEPT !.fixes = @ + 1]
    BY <1>1, <2>1, SuiteAssumption DEF SuiteEntries
  <2>2. CASE cronMap' \in {cronMap, Suite!NoEntry}
    BY <1>1, <2>2, SuiteIdle, SuiteAssumption DEF Prepared
  <2> QED  BY <2>1, <2>2 DEF Suite!CronSaves
<1>3. /\ Suite!Counted \in SuiteDone /\ Suite!Counted.sessions = done.sessions
      /\ Suite!Counted.fixers = done.fixers /\ Suite!Counted.lost = done.lost
  BY <1>1 DEF Suite!Counted, SuiteDone
<1>4. flow' \in [pc: {"idle", "feedback", "other"}, base: SuiteEntries] /\ flow'.base.fixes <= FixLimit
  BY <1>1 DEF SuiteType, Prepared
<1>5. CASE Suite!Saved(cronMap, cronMap', Suite!Counted)
  <2> DEFINE new == cronMap'  counts == Suite!Counted
  <2>1. new \in SuiteEntries /\ new.fixes <= FixLimit /\ new = cronMap'  BY <1>2
  <2>2. /\ counts \in SuiteDone /\ counts.sessions = done.sessions
        /\ counts.fixers = done.fixers /\ counts.lost = done.lost /\ Suite!Saved(cronMap, new, counts)
    BY <1>3, <1>5
  <2> HIDE DEF new, counts
  <2> QED  BY <1>1, <1>2, <1>4, <2>1, <2>2, SuiteOthersSave
<1>6. CASE done' = Suite!Counted /\ UNCHANGED prFile
  <2>1. prHead' \in [sha: Suite!Shas, state: {"open", "merged"}]
        /\ mail' \subseteq [app: Suites, concl: {"passed", "failed", "odd"}]
    BY <1>1 DEF SuiteType
  <2> QED  BY <1>1, <1>2, <1>3, <1>4, <1>6, <2>1, SuiteOutside
<1> QED  BY <1>5, <1>6 DEF Suite!CronSaves

LEMMA SuiteFlows ==
  ASSUME SuiteInv, Suite!OtherLoads \/ Suite!OtherSaves \/ Suite!FeedbackLoads \/ Suite!FeedbackSaves
  PROVE  SuiteInv'
<1>1. /\ SuiteType /\ Prepared /\ done \in SuiteDone
      /\ prHead \in [sha: Suite!Shas, state: {"open", "merged"}]
      /\ mail \subseteq [app: Suites, concl: {"passed", "failed", "odd"}]
      /\ UNCHANGED <<prHead, mail, calls, cronMap>>
      /\ cronMap \in SuiteEntries /\ cronMap.fixes <= FixLimit
      /\ flow.base \in SuiteEntries /\ flow.base.fixes <= FixLimit
  BY DEF SuiteInv, SuiteType, Prepared, Suite!OtherLoads, Suite!OtherSaves, Suite!FeedbackLoads,
         Suite!FeedbackSaves, Suite!FlowLoads
<1>2. ASSUME NEW next \in {"other", "feedback"}, Suite!FlowLoads(next), UNCHANGED done \/ done' = Suite!Counted
      PROVE  SuiteInv'
  <2>1. PICK e \in Suite!Readings : flow' = [pc |-> next, base |-> e]  BY <1>2 DEF Suite!FlowLoads
  <2>2. e \in SuiteEntries /\ e.fixes <= FixLimit
    BY <1>1, SuiteIdle, SuiteAssumption DEF Suite!Readings, SuiteType, Prepared
  <2>3. flow' \in [pc: {"idle", "feedback", "other"}, base: SuiteEntries] /\ flow'.base.fixes <= FixLimit
    BY <2>1, <2>2
  <2>4. done' \in SuiteDone /\ done'.sessions = done.sessions /\ done'.fixers = done.fixers /\ done'.lost = done.lost
    BY <1>1, <1>2 DEF SuiteDone, Suite!Counted
  <2>5. UNCHANGED prFile  BY <1>2 DEF Suite!FlowLoads
  <2> QED  BY <1>1, <2>3, <2>4, <2>5, SuiteOutside
<1>3. ASSUME NEW new \in SuiteEntries, new.fixes <= FixLimit, Suite!Saved(flow.base, new, done), flow' = Suite!NoFlow
      PROVE  SuiteInv'
  BY <1>1, <1>3, SuiteIdle, SuiteOthersSave
<1>4. CASE UNCHANGED <<prFile, done>> /\ flow' = Suite!NoFlow
  BY <1>1, <1>4, SuiteIdle, SuiteOutside
<1>5. CASE Suite!OtherSaves
  <2>1. CASE flow.base.fixes < FixLimit /\ Suite!Saved(flow.base, [flow.base EXCEPT !.fixes = @ + 1], done)
    <3>1. [flow.base EXCEPT !.fixes = @ + 1] \in SuiteEntries /\ [flow.base EXCEPT !.fixes = @ + 1].fixes <= FixLimit
      BY <1>1, <2>1, SuiteAssumption DEF SuiteEntries
    <3> QED  BY <1>3, <1>5, <2>1, <3>1 DEF Suite!OtherSaves
  <2> QED  BY <1>1, <1>3, <1>4, <1>5, <2>1 DEF Suite!OtherSaves
<1>6. CASE Suite!FeedbackSaves  BY <1>1, <1>3, <1>4, <1>6 DEF Suite!FeedbackSaves
<1> QED  BY <1>2, <1>5, <1>6 DEF Suite!OtherLoads, Suite!FeedbackLoads, Suite!Input

LEMMA SuiteStep == ASSUME SuiteInv, [Suite!Next]_(Suite!csVars) PROVE SuiteInv'
<1> DEFINE Heads == [sha: Suite!Shas, state: {"open", "merged"}]
           Mails == [app: Suites, concl: {"passed", "failed", "odd"}]
<1>1. /\ prHead \in Heads /\ mail \subseteq Mails /\ done \in SuiteDone
      /\ cronMap \in SuiteEntries /\ cronMap.fixes <= FixLimit
      /\ flow \in [pc: {"idle", "feedback", "other"}, base: SuiteEntries] /\ flow.base.fixes <= FixLimit
  BY DEF SuiteInv, SuiteType, Prepared
\* The steps of GitHub, the review and the gate.
<1>2. ASSUME UNCHANGED <<calls, Suite!fileVars>>, prHead' \in Heads, mail' \subseteq Mails,
             UNCHANGED done \/ done' = Suite!Counted
      PROVE  SuiteInv'
  <2>1. done' \in SuiteDone /\ done'.sessions = done.sessions /\ done'.fixers = done.fixers /\ done'.lost = done.lost
    BY <1>1, <1>2 DEF SuiteDone, Suite!Counted
  <2> QED  BY <1>1, <1>2, <2>1, SuiteOutside DEF Suite!fileVars
<1>3. ASSUME NEW a \in Suites, NEW s \in Suite!Shas, Suite!SuiteEnds(a, s) PROVE SuiteInv'
  BY <1>1, <1>2, <1>3 DEF Suite!SuiteEnds
<1>4. ASSUME Suite!Pushed(prHead.sha + 1), prHead.sha < MaxSha PROVE prHead' \in Heads
  BY <1>1, <1>4, SuiteAssumption DEF Suite!Pushed, Suite!Shas
<1>5. CASE Suite!Push  BY <1>1, <1>2, <1>4, <1>5 DEF Suite!Push
<1>6. ASSUME NEW k \in Calls,
             \/ \E e \in mail : Suite!Receive(k, e)
             \/ Suite!FetchDetail(k) \/ Suite!Load(k) \/ Suite!Decide(k) \/ Suite!Save(k)
             \/ Suite!SpawnReviewer(k) \/ Suite!Rerun(k) \/ Suite!SpawnFixer(k)
      PROVE  SuiteInv'
  BY <1>6, SuiteCalling, SuiteSaves, SuiteSends
<1>7. CASE Suite!GateLooks \/ Suite!GateChecksCi \/ Suite!ReviewEnds \/ UNCHANGED Suite!csVars
  BY <1>1, <1>2, <1>7
  DEF Suite!GateLooks, Suite!GateChecksCi, Suite!ReviewEnds, Suite!Input, Suite!csVars, Suite!fileVars
<1>8. CASE Suite!GateMerges  BY <1>1, <1>2, <1>8 DEF Suite!GateMerges
<1>9. CASE Suite!GateRebases  BY <1>1, <1>2, <1>4, <1>9 DEF Suite!GateRebases
<1> QED
  BY <1>3, <1>5, <1>6, <1>7, <1>8, <1>9, SuiteRestarts, SuiteCrons, SuiteFlows DEF Suite!Next

LEMMA SuiteSafe == SuiteInv => DispatchesAreBudgeted
<1> SUFFICES ASSUME SuiteInv PROVE DispatchesAreBudgeted
  OBVIOUS
<1>1. SuiteType /\ Prepared /\ Paid  BY DEF SuiteInv
<1>2. ASSUME NEW s \in Suite!Shas PROVE done.sessions[s] <= 1 + done.lost
  BY <1>1, SuiteNumbers, SuiteSenders DEF Paid, Dispatches
<1>3. done.fixers <= FixLimit * (1 + done.lost)
  <2>1. /\ Fixes <= prFile.fixes + FixLimit * done.lost /\ prFile.fixes <= FixLimit
        /\ prFile.fixes \in Nat /\ FixLimit \in Nat /\ done.lost \in Nat /\ FixLimit * done.lost \in Nat
        /\ done.fixers \in Nat /\ Cardinality(Fixers) \in Nat
    BY <1>1, SuiteNumbers, SuiteSenders DEF Paid, Prepared
  <2>2. \A a, b \in Nat : a * (1 + b) = a + a * b  OBVIOUS
  <2>3. FixLimit * (1 + done.lost) = FixLimit + FixLimit * done.lost  BY <2>1, <2>2
  <2> DEFINE g == FixLimit * done.lost
  <2>4. g \in Nat /\ done.fixers + Cardinality(Fixers) <= prFile.fixes + g  BY <2>1 DEF Fixes
  <2> HIDE DEF g
  <2>5. done.fixers <= FixLimit + g  BY <2>1, <2>4
  <2> QED  BY <2>3, <2>5 DEF g
<1> QED  BY <1>2, <1>3 DEF DispatchesAreBudgeted, Suite!DispatchesAreBudgeted

\* For any suites, pushes and calls: no commit gets more sessions, and the PR no more fixers,
\* than one dispatch and one budget, and one of each more for every save of pr-reviews.json,
\* whoever makes it, that takes another writer's change back (check-suite-handler.ts).
THEOREM CommitsDispatchedOnce == Suite!Spec => []DispatchesAreBudgeted
<1>1. Suite!Init => SuiteInv  BY SuiteInit
<1>2. SuiteInv /\ [Suite!Next]_(Suite!csVars) => SuiteInv'  BY SuiteStep
<1>3. SuiteInv => DispatchesAreBudgeted  BY SuiteSafe
<1> QED  BY <1>1, <1>2, <1>3, PTL DEF Suite!Spec

--------------------------------------------------------------------------------
(* Work rooms and their sessions: Rooms.                                             *)

RoomStages == {"idle", "create", "save", "write", "assign", "unlink", "archive", "release", "delete",
               "saveclosed", "writeclosed"}
RoomEntries == [WorkRooms!Rooms -> Names \cup {""}]
RoomArchives == [name: Names \cup {""}, sess: Nat, closed: Nat]
RoomCommands == [pc: RoomStages, cmd: {"", "room", "resume", "close"}, name: Names \cup {""}, room: Nat,
                 arch: RoomArchives, copy: RoomEntries]
Homes == [sess: Nat, at: {"none", "bot", "kept"}]
RoomsDone == [rooms: Nat, sessions: Nat, closings: Nat, lost: SUBSET Nat, overlap: BOOLEAN]
RoomFiles == [rooms: RoomEntries, torn: BOOLEAN]
RoomEntities == [known: BOOLEAN, map: SUBSET WorkRooms!Rooms]
InRoom(c) == c.pc \notin {"idle", "create"}
RoomType ==
  /\ roomList \in RoomEntries /\ roomFile \in RoomFiles /\ roomEntity \in RoomEntities
  /\ home \in [WorkRooms!Rooms -> Homes]
  /\ \A r \in WorkRooms!Rooms : home[r].at = "none" => home[r].sess = 0
  /\ archives \subseteq RoomArchives
  /\ roomCalls \in [Calls -> RoomCommands]
  /\ \A k \in Calls : InRoom(roomCalls[k]) => roomCalls[k].room \in WorkRooms!Rooms
  /\ roomsDone \in RoomsDone

UniqueNames(f) == \A q, r \in WorkRooms!Rooms : f[q] = f[r] /\ f[q] # "" => q = r
Beyond(f) == \A r \in WorkRooms!Rooms : r > roomsDone.rooms => f[r] = ""
SavesEntry(c) == c.pc \in {"save", "write", "saveclosed", "writeclosed"}
Closing(c) == c.pc \in {"saveclosed", "writeclosed"}

\* Commands under way are for different names and in different rooms.
CommandsApart ==
  \A j, k \in Calls : j # k /\ roomCalls[j].pc # "idle" /\ roomCalls[k].pc # "idle" =>
    /\ roomCalls[j].name # roomCalls[k].name
    /\ InRoom(roomCalls[j]) /\ InRoom(roomCalls[k]) => roomCalls[j].room # roomCalls[k].room
\* What a command knows at each of its awaits.
CommandFits(c) == c.pc # "idle" =>
  /\ c.name \in Names
  /\ c.pc = "create" => \A r \in WorkRooms!Rooms : roomList[r] # c.name
  /\ c.pc # "create" => c.room <= roomsDone.rooms
  /\ InRoom(c) /\ ~Closing(c) => roomList[c.room] = c.name
  /\ Closing(c) => roomList[c.room] = ""
  /\ SavesEntry(c) => c.copy = roomList
  /\ InRoom(c) /\ ~SavesEntry(c) => c.room \in roomEntity.map
  /\ c.pc = "release" => c.arch \in archives
  /\ c.pc \in {"archive", "release"} => c.cmd = "close"
  /\ c.pc = "unlink" => c.cmd = "resume" /\ c.arch.sess \in roomsDone.lost \cup {0, home[c.room].sess}
  /\ c.cmd = "room" => c.arch.sess = 0
  /\ c.cmd # "room" => c.arch.name = c.name
  /\ c.arch.sess <= roomsDone.sessions
CommandsFit == \A k \in Calls : CommandFits(roomCalls[k])
\* One command at a time saves the config.
OneSave == \A j, k \in Calls : SavesEntry(roomCalls[j]) /\ SavesEntry(roomCalls[k]) => j = k
\* The list, the file, the channel map and the homes of sessions.
ListFits ==
  /\ UniqueNames(roomList) /\ UniqueNames(roomFile.rooms) /\ Beyond(roomList) /\ Beyond(roomFile.rooms)
  /\ \A r \in WorkRooms!Rooms : home[r].sess <= roomsDone.sessions /\ (home[r].sess # 0 => roomList[r] # "")
  /\ \A r \in WorkRooms!Rooms : home[r].sess # 0 => r \in roomEntity.map
  /\ \A r \in WorkRooms!Rooms : r \in roomEntity.map => r <= roomsDone.rooms
  /\ \A a \in archives : a.sess <= roomsDone.sessions
\* A file that is not torn has the rooms that the map has.
FileFits ==
  \A r \in WorkRooms!Rooms :
    r \in roomEntity.map /\ roomList[r] # "" /\ ~roomFile.torn => roomFile.rooms[r] = roomList[r]
\* A session goes by one name: its rooms', its archives' and their commands'.
GoesBy(s, n) ==
  \/ \E a \in archives : a.sess = s /\ a.name = n
  \/ \E r \in WorkRooms!Rooms : home[r].sess = s /\ roomList[r] = n
  \/ \E k \in Calls : roomCalls[k].pc # "idle" /\ roomCalls[k].arch.sess = s /\ roomCalls[k].name = n
OneName == \A s \in 1 .. roomsDone.sessions : \A m, n \in Names : GoesBy(s, m) /\ GoesBy(s, n) => m = n
SessionsReached == \A s \in 1 .. roomsDone.sessions : s \in roomsDone.lost \/ WorkRooms!Reachable(s)

RoomsApart == CommandsApart /\ OneSave /\ CommandsFit /\ ListFits /\ FileFits /\ OneName /\ SessionsReached
RoomsInv == RoomType /\ (roomsDone.overlap \/ RoomsApart)

LEMMA RoomsInit == WorkRooms!Init => RoomsInv
<1> SUFFICES ASSUME WorkRooms!Init PROVE RoomsInv
  OBVIOUS
<1>1. /\ WorkRooms!Empty \in RoomEntries /\ WorkRooms!NoArchive \in RoomArchives
      /\ \A r \in WorkRooms!Rooms : WorkRooms!Empty[r] = ""
  BY DEF WorkRooms!Empty, WorkRooms!NoArchive, RoomEntries, RoomArchives
<1>2. WorkRooms!Idle \in RoomCommands /\ WorkRooms!Idle.pc = "idle"
  BY <1>1 DEF WorkRooms!Idle, RoomCommands, RoomStages
<1>3. /\ roomList = WorkRooms!Empty /\ roomFile = [rooms |-> WorkRooms!Empty, torn |-> FALSE]
      /\ roomEntity = [known |-> TRUE, map |-> {}] /\ archives = {}
      /\ home \in [WorkRooms!Rooms -> Homes] /\ \A r \in WorkRooms!Rooms : home[r].sess = 0
      /\ roomCalls \in [Calls -> RoomCommands] /\ \A k \in Calls : roomCalls[k].pc = "idle"
      /\ roomsDone \in RoomsDone /\ roomsDone.sessions = 0
  BY <1>2 DEF WorkRooms!Init, WorkRooms!NoHome, Homes, RoomsDone
<1>4. RoomType  BY <1>1, <1>3 DEF RoomType, InRoom, RoomFiles, RoomEntities
<1>5. RoomsApart
  <2>1. CommandsApart /\ OneSave /\ CommandsFit /\ FileFits
    BY <1>3 DEF CommandsApart, OneSave, SavesEntry, CommandsFit, CommandFits, FileFits
  <2>2. ListFits
    <3>1. \A r \in WorkRooms!Rooms : roomList[r] = "" /\ roomFile.rooms[r] = "" /\ r \notin roomEntity.map
      BY <1>1, <1>3
    <3>2. \A r \in WorkRooms!Rooms : home[r].sess = 0 /\ home[r].sess <= roomsDone.sessions
      BY <1>3
    <3> QED  BY <1>3, <3>1, <3>2 DEF ListFits, UniqueNames, Beyond
  <2>3. OneName /\ SessionsReached
    <3>1. 1 .. roomsDone.sessions = {}  BY <1>3
    <3> QED  BY <3>1 DEF OneName, SessionsReached
  <2> QED  BY <2>1, <2>2, <2>3 DEF RoomsApart
<1> QED  BY <1>4, <1>5 DEF RoomsInv

LEMMA AtMost == ASSUME NEW a \in Nat, NEW b \in Nat, NEW c \in Nat, a <= b, b <= c PROVE a <= c
  OBVIOUS

\* Arithmetic on the numbers of rooms and sessions.
LEMMA Numbers ==
  /\ \A a, b, q \in Nat : a <= b /\ q > b => q > a
  /\ \A a, q \in Nat : a < q \/ a > q => a # q
  /\ \A a, b, q \in Nat : a <= b /\ q > b => a # q
  /\ \A a \in Nat : 0 <= a /\ a <= a + 1 /\ a + 1 > a /\ a <= a
  /\ \A a \in Nat : \A s \in 1 .. a : s # 0
  OBVIOUS

LEMMA RoomNumbers == WorkRooms!Rooms \subseteq Nat
<1>1. MaxRooms \in Nat  BY RoomsAssumption
<1> QED  BY <1>1 DEF WorkRooms!Rooms

\* A session with a number not given yet has no name.
LEMMA NamesOfSessions ==
  ASSUME RoomType, RoomsApart, NEW s \in Nat, NEW n \in Names, GoesBy(s, n)
  PROVE  s <= roomsDone.sessions
<1>1. CASE \E a \in archives : a.sess = s /\ a.name = n  BY <1>1 DEF RoomsApart, ListFits
<1>2. CASE \E r \in WorkRooms!Rooms : home[r].sess = s /\ roomList[r] = n  BY <1>2 DEF RoomsApart, ListFits
<1>3. CASE \E k \in Calls : roomCalls[k].pc # "idle" /\ roomCalls[k].arch.sess = s /\ roomCalls[k].name = n
  BY <1>3 DEF RoomsApart, CommandsFit, CommandFits
<1> QED  BY <1>1, <1>2, <1>3 DEF GoesBy

\* A command begins.
LEMMA CommandBegins ==
  ASSUME RoomsInv, NEW k \in Calls, roomCalls[k].pc = "idle", NEW c \in RoomCommands,
         c.pc \in {"create", "archive"}, c.pc = "archive" => c.room \in WorkRooms!Rooms,
         WorkRooms!Begins(k, c), UNCHANGED <<roomList, roomFile, roomEntity, home, archives>>,
         RoomsApart => CommandFits(c) /\ (c.arch.sess = 0 \/ GoesBy(c.arch.sess, c.name))
  PROVE  RoomsInv'
<1>1. RoomType /\ (roomsDone.overlap \/ (~roomsDone.overlap /\ RoomsApart)) /\ roomsDone \in RoomsDone
  BY DEF RoomsInv, RoomType
<1> DEFINE o == roomsDone.overlap \/ WorkRooms!Overlaps(k, c.name)
           n == IF c.cmd = "close" THEN roomsDone.closings + 1 ELSE roomsDone.closings
<1>2. /\ roomCalls' = [roomCalls EXCEPT ![k] = c]
      /\ roomsDone' = [roomsDone EXCEPT !.overlap = o, !.closings = n]
  BY <1>1 DEF WorkRooms!Begins
<1>3. o \in BOOLEAN /\ n \in Nat  BY <1>1 DEF RoomsDone
<1>4. \/ o
      \/ /\ RoomsApart
         /\ \A j \in Calls : j # k => ~(roomCalls[j].pc # "idle" /\ roomCalls[j].name = c.name)
  BY <1>1 DEF WorkRooms!Overlaps
<1> HIDE DEF o, n
<1>5. /\ roomsDone' \in RoomsDone /\ roomsDone'.overlap = o
      /\ roomsDone'.rooms = roomsDone.rooms /\ roomsDone'.sessions = roomsDone.sessions
      /\ roomsDone'.lost = roomsDone.lost
  BY <1>1, <1>2, <1>3 DEF RoomsDone
<1>6. /\ roomCalls'[k] = c /\ \A j \in Calls : j # k => roomCalls'[j] = roomCalls[j]
      /\ roomCalls' \in [Calls -> RoomCommands]
  BY <1>1, <1>2 DEF RoomType
<1>7. RoomType'  BY <1>1, <1>5, <1>6 DEF RoomType, InRoom
<1>8. CASE o  BY <1>5, <1>7, <1>8 DEF RoomsInv
<1>9. CASE ~o
  <2>1. /\ RoomsApart /\ CommandFits(c) /\ (c.arch.sess = 0 \/ GoesBy(c.arch.sess, c.name))
        /\ \A j \in Calls : j # k => ~(roomCalls[j].pc # "idle" /\ roomCalls[j].name = c.name)
    BY <1>4, <1>9
  <2>2. CommandsApart'
    <3>1. ASSUME NEW j \in Calls, j # k, roomCalls[j].pc # "idle", InRoom(roomCalls[j]), InRoom(c)
          PROVE  roomCalls[j].room # c.room
      <4>1. roomList[c.room] = c.name /\ c.name \in Names  BY <2>1, <3>1 DEF CommandFits, InRoom, Closing
      <4>2. CommandFits(roomCalls[j])  BY <2>1 DEF RoomsApart, CommandsFit
      <4>3. CASE Closing(roomCalls[j])
        BY <3>1, <4>1, <4>2, <4>3, RoomsAssumption DEF CommandFits
      <4>4. CASE ~Closing(roomCalls[j])
        BY <2>1, <3>1, <4>1, <4>2, <4>4 DEF CommandFits
      <4> QED  BY <4>3, <4>4
    <3> QED  BY <1>6, <2>1, <3>1 DEF RoomsApart, CommandsApart
  <2>3. CommandsFit'
    <3>1. ASSUME NEW d, CommandFits(d) PROVE CommandFits(d)'
      BY <1>5, <3>1 DEF CommandFits, Beyond
    <3>2. \A j \in Calls : CommandFits(roomCalls'[j])
      BY <1>6, <2>1 DEF RoomsApart, CommandsFit
    <3> QED  BY <3>1, <3>2 DEF CommandsFit
  <2>4. ListFits' /\ SessionsReached'
    BY <1>5, <2>1
    DEF RoomsApart, ListFits, UniqueNames, Beyond, SessionsReached, WorkRooms!Reachable
  <2>5. FileFits' /\ OneSave'
    BY <1>6, <2>1 DEF RoomsApart, FileFits, OneSave, SavesEntry
  <2>6. OneName'
    <3>1. \A s \in 1 .. roomsDone.sessions : \A m \in Names : GoesBy(s, m)' => GoesBy(s, m)
      BY <1>6, <2>1 DEF GoesBy
    <3> QED  BY <1>5, <2>1, <3>1 DEF RoomsApart, OneName
  <2> QED  BY <1>7, <2>1, <2>2, <2>3, <2>4, <2>5, <2>6 DEF RoomsInv, RoomsApart
<1> QED  BY <1>8, <1>9

\* /room, /resume and /close start.
LEMMA RoomCommandsBegin ==
  ASSUME RoomsInv, NEW k \in Calls,
         \/ \E n \in Names : WorkRooms!RoomBegins(k, n) \/ WorkRooms!ResumeBegins(k, n)
         \/ \E r \in WorkRooms!Rooms : WorkRooms!CloseBegins(k, r)
  PROVE  RoomsInv'
<1>1. RoomType  BY DEF RoomsInv
<1>2. /\ WorkRooms!Idle \in RoomCommands /\ WorkRooms!Idle.room = 0
      /\ WorkRooms!Idle.arch = WorkRooms!NoArchive
      /\ WorkRooms!NoArchive \in RoomArchives /\ WorkRooms!NoArchive.sess = 0
  BY DEF WorkRooms!Idle, WorkRooms!NoArchive, WorkRooms!Empty, RoomCommands, RoomStages, RoomArchives, RoomEntries
<1>3. roomsDone.sessions \in Nat /\ roomsDone.rooms \in Nat /\ roomsDone.closings \in Nat
  BY <1>1 DEF RoomType, RoomsDone
<1>4. ASSUME NEW n \in Names, WorkRooms!RoomBegins(k, n) PROVE RoomsInv'
  <2> DEFINE c == [WorkRooms!Idle EXCEPT !.pc = "create", !.cmd = "room", !.name = n]
  <2>1. /\ c \in RoomCommands /\ c.pc = "create" /\ c.cmd = "room" /\ c.name = n
        /\ c.arch = WorkRooms!NoArchive
    BY <1>2 DEF RoomCommands, RoomStages
  <2>2. /\ roomCalls[k].pc = "idle" /\ WorkRooms!Begins(k, c)
        /\ \A r \in WorkRooms!Rooms : roomList[r] # n
        /\ UNCHANGED <<roomList, roomFile, roomEntity, home, archives>>
    BY <1>4 DEF WorkRooms!RoomBegins, WorkRooms!Taken
  <2> HIDE DEF c
  <2>3. CommandFits(c) /\ c.arch.sess = 0
    BY <1>2, <1>3, <2>1, <2>2 DEF CommandFits, InRoom, SavesEntry, Closing
  <2> QED  BY <2>1, <2>2, <2>3, CommandBegins
<1>5. ASSUME NEW n \in Names, WorkRooms!ResumeBegins(k, n) PROVE RoomsInv'
  <2>1. PICK a \in archives :
          /\ a.name = n
          /\ WorkRooms!Begins(k, [WorkRooms!Idle EXCEPT !.pc = "create", !.cmd = "resume",
                                    !.name = n, !.arch = a])
    BY <1>5 DEF WorkRooms!ResumeBegins, WorkRooms!Latest
  <2> DEFINE c == [WorkRooms!Idle EXCEPT !.pc = "create", !.cmd = "resume", !.name = n, !.arch = a]
  <2>2. a \in RoomArchives  BY <1>1 DEF RoomType
  <2>3. /\ c \in RoomCommands /\ c.pc = "create" /\ c.cmd = "resume" /\ c.name = n /\ c.arch = a
    BY <1>2, <2>2 DEF RoomCommands, RoomStages
  <2>4. /\ roomCalls[k].pc = "idle" /\ WorkRooms!Begins(k, c)
        /\ \A r \in WorkRooms!Rooms : roomList[r] # n
        /\ UNCHANGED <<roomList, roomFile, roomEntity, home, archives>>
    BY <1>5, <2>1 DEF WorkRooms!ResumeBegins, WorkRooms!Taken
  <2> HIDE DEF c
  <2>5. ASSUME RoomsApart PROVE CommandFits(c) /\ GoesBy(c.arch.sess, c.name)
    <3>1. a.sess <= roomsDone.sessions  BY <2>5 DEF RoomsApart, ListFits
    <3> QED  BY <2>1, <2>3, <2>4, <3>1 DEF CommandFits, InRoom, SavesEntry, Closing, GoesBy
  <2> QED  BY <2>3, <2>4, <2>5, CommandBegins
<1>6. ASSUME NEW r \in WorkRooms!Rooms, WorkRooms!CloseBegins(k, r) PROVE RoomsInv'
  <2> DEFINE s == IF home[r].at = "bot" THEN home[r].sess ELSE 0
             m == roomsDone.closings + 1
             a == [name |-> roomList[r], closed |-> m, sess |-> s]
             c == [WorkRooms!Idle EXCEPT !.pc = "archive", !.cmd = "close", !.name = roomList[r],
                                         !.room = r, !.arch = a]
  <2>1. /\ home[r] \in Homes /\ roomList[r] \in Names \cup {""} /\ r \in Nat
    <3>1. r \in Nat  BY RoomNumbers
    <3>2. home[r] \in Homes /\ roomList[r] \in Names \cup {""}  BY <1>1 DEF RoomType, RoomEntries
    <3> QED  BY <3>1, <3>2
  <2>2. s \in Nat /\ m \in Nat /\ s \in {0, home[r].sess}
    <3>1. home[r].sess \in Nat  BY <2>1 DEF Homes
    <3>2. s \in {0, home[r].sess}  OBVIOUS
    <3> HIDE DEF s
    <3>3. s \in Nat  BY <3>1, <3>2
    <3> QED  BY <1>3, <3>2, <3>3
  <2>3. /\ roomCalls[k].pc = "idle" /\ WorkRooms!Begins(k, c) /\ roomList[r] # ""
        /\ UNCHANGED <<roomList, roomFile, roomEntity, home, archives>> /\ r \in roomEntity.map
    BY <1>6 DEF WorkRooms!CloseBegins, WorkRooms!Mapped
  <2> HIDE DEF s, m
  <2>4. a \in RoomArchives /\ a.sess = s /\ a.name = roomList[r]  BY <2>1, <2>2 DEF RoomArchives
  <2> HIDE DEF a
  <2>5. /\ c \in RoomCommands /\ c.pc = "archive" /\ c.cmd = "close" /\ c.name = roomList[r]
        /\ c.room = r /\ c.arch = a
    BY <1>2, <2>1, <2>4 DEF RoomCommands, RoomStages
  <2> HIDE DEF c
  <2>6. ASSUME RoomsApart PROVE CommandFits(c) /\ (c.arch.sess = 0 \/ GoesBy(c.arch.sess, c.name))
    <3>1. s <= roomsDone.sessions /\ r <= roomsDone.rooms
      <4>1. home[r].sess <= roomsDone.sessions  BY <2>6 DEF RoomsApart, ListFits
      <4>2. ~(r > roomsDone.rooms)  BY <2>3, <2>6 DEF RoomsApart, ListFits, Beyond
      <4>3. s <= roomsDone.sessions  BY <1>3, <2>2, <4>1
      <4>4. r <= roomsDone.rooms
        <5>1. r \in Nat /\ roomsDone.rooms \in Nat  BY <1>3, <2>1
        <5> QED  BY <4>2, <5>1
      <4> QED  BY <4>3, <4>4
    <3>2. roomList[r] \in Names  BY <2>1, <2>3
    <3>3. s = 0 \/ GoesBy(s, roomList[r])  BY <2>2 DEF GoesBy
    <3>4. c.arch.sess = 0 \/ GoesBy(c.arch.sess, c.name)  BY <2>4, <2>5, <3>3
    <3>5. CommandFits(c)
      BY <2>3, <2>4, <2>5, <3>1, <3>2 DEF CommandFits, InRoom, SavesEntry, Closing
    <3> QED  BY <3>4, <3>5
  <2> QED  BY <2>3, <2>5, <2>6, CommandBegins
<1> QED  BY <1>4, <1>5, <1>6

\* A step of a command in its room that leaves list, file and rooms alone: what it may make
\* of its room's session and of its own archive.
LEMMA RoomMoves ==
  ASSUME RoomsInv, NEW k \in Calls, NEW d \in RoomCommands, roomCalls' = [roomCalls EXCEPT ![k] = d],
         roomCalls[k].pc \in {"assign", "unlink", "archive", "release"},
         \/ d.pc = "idle"
         \/ /\ d.pc \in {"unlink", "release", "delete"}
            /\ d.name = roomCalls[k].name /\ d.room = roomCalls[k].room /\ d.arch = roomCalls[k].arch,
         UNCHANGED <<roomList, roomFile, roomEntity>>,
         NEW h \in Homes, home' = [home EXCEPT ![roomCalls[k].room] = h], h.at = "none" => h.sess = 0,
         archives' \subseteq archives \cup {roomCalls[k].arch},
         archives \subseteq archives' \cup {roomCalls[k].arch},
         roomsDone' \in RoomsDone, roomsDone'.rooms = roomsDone.rooms,
         roomsDone'.overlap = roomsDone.overlap, roomsDone.lost \subseteq roomsDone'.lost,
         \/ roomsDone'.sessions = roomsDone.sessions /\ h.sess \in {0, home[roomCalls[k].room].sess, roomCalls[k].arch.sess}
         \/ roomsDone'.sessions = roomsDone.sessions + 1 /\ h.sess = roomsDone'.sessions,
         RoomsApart =>
           /\ archives' = archives \/ roomCalls[k].cmd # "room"
           /\ \/ home[roomCalls[k].room].sess \in roomsDone'.lost \cup {0, h.sess}
              \/ \E a \in archives' : a.sess = home[roomCalls[k].room].sess
           /\ \/ archives \subseteq archives'
              \/ roomCalls[k].arch.sess \in roomsDone'.lost \cup {0, h.sess}
           /\ d.pc # "idle" => CommandFits(d)'
  PROVE  RoomsInv'
<1> DEFINE c == roomCalls[k]
           r == c.room
<1>1. /\ RoomType /\ (roomsDone.overlap \/ (~roomsDone.overlap /\ RoomsApart)) /\ roomsDone \in RoomsDone
      /\ c \in RoomCommands /\ InRoom(c) /\ r \in WorkRooms!Rooms /\ c.arch \in RoomArchives
      /\ home[r] \in Homes
  BY DEF RoomsInv, RoomType, RoomsDone, InRoom, RoomCommands
<1>2. /\ roomCalls'[k] = d /\ \A j \in Calls : j # k => roomCalls'[j] = roomCalls[j]
      /\ roomCalls' \in [Calls -> RoomCommands]
  BY <1>1 DEF RoomType
<1>3. /\ home'[r] = h /\ \A q \in WorkRooms!Rooms : q # r => home'[q] = home[q]
      /\ home' \in [WorkRooms!Rooms -> Homes]
  BY <1>1 DEF RoomType
<1>4. roomsDone.sessions \in Nat /\ roomsDone'.sessions \in Nat /\ roomsDone.sessions <= roomsDone'.sessions
  BY <1>1 DEF RoomsDone
<1>5. RoomType'
  <2>1. \A j \in Calls : InRoom(roomCalls'[j]) => roomCalls'[j].room \in WorkRooms!Rooms
    BY <1>1, <1>2 DEF RoomType, InRoom
  <2>2. \A q \in WorkRooms!Rooms : home'[q].at = "none" => home'[q].sess = 0
    BY <1>1, <1>3 DEF RoomType
  <2>3. archives' \subseteq RoomArchives  BY <1>1 DEF RoomType
  <2> QED  BY <1>1, <1>2, <1>3, <2>1, <2>2, <2>3 DEF RoomType, InRoom
<1>6. CASE roomsDone.overlap  BY <1>5, <1>6 DEF RoomsInv
<1>7. ASSUME RoomsApart PROVE RoomsApart'
  <2>1. /\ CommandFits(c) /\ roomList[r] = c.name /\ c.name \in Names /\ c.name # ""
        /\ c.pc # "idle" /\ ~Closing(c) /\ c.pc # "create" /\ ~SavesEntry(c) /\ ~SavesEntry(d)
        /\ r \in roomEntity.map
    BY <1>1, <1>7, RoomsAssumption DEF RoomsApart, CommandsFit, CommandFits, SavesEntry, Closing
  <2>2. \A j \in Calls : j # k /\ roomCalls[j].pc # "idle" =>
          /\ CommandFits(roomCalls[j]) /\ roomCalls[j].name # c.name
          /\ InRoom(roomCalls[j]) => roomCalls[j].room # r /\ roomCalls[j].room \in WorkRooms!Rooms
    BY <1>1, <1>7, <2>1 DEF RoomsApart, CommandsApart, CommandsFit, RoomType
  <2>3. CommandsApart'
    <3>1. d.pc # "idle" => d.name = c.name /\ d.room = r  OBVIOUS
    <3> HIDE DEF c, r
    <3> QED  BY <1>2, <1>7, <2>2, <3>1 DEF RoomsApart, CommandsApart
  <2>4. ASSUME NEW j \in Calls, j # k, NEW e \in RoomCommands, roomCalls[j] = e, e.pc # "idle"
        PROVE  CommandFits(e)'
    <3>1. CommandFits(e) /\ e.name # c.name
      BY <2>2, <2>4
    <3>2. InRoom(e) => home'[e.room] = home[e.room]  BY <1>3, <2>2, <2>4
    <3>3. e.pc = "release" => e.arch \in archives'
      <4>1. e.pc = "release" => e.arch \in archives /\ e.arch.name = e.name
        BY <2>4, <3>1 DEF CommandFits
      <4>2. archives' = archives \/ e.arch # c.arch \/ e.pc # "release"
        <5>1. c.cmd # "room" => c.arch.name = c.name  BY <2>1 DEF CommandFits
        <5> QED  BY <1>7, <3>1, <4>1, <5>1
      <4> QED  BY <4>1, <4>2
    <3>4. e.arch.sess <= roomsDone'.sessions
      <4>1. e.arch.sess <= roomsDone.sessions  BY <2>4, <3>1 DEF CommandFits
      <4>2. e.arch \in RoomArchives  BY DEF RoomCommands
      <4>3. e.arch.sess \in Nat  BY <4>2 DEF RoomArchives
      <4> QED  BY <1>4, <4>1, <4>3
    <3>5. e.pc = "unlink" => e.arch.sess \in roomsDone'.lost \cup {0, home'[e.room].sess}
      BY <2>4, <3>1, <3>2 DEF CommandFits, InRoom
    <3>6. /\ SavesEntry(e) => e.copy = roomList
          /\ InRoom(e) /\ ~SavesEntry(e) => e.room \in roomEntity.map
      BY <2>4, <3>1 DEF CommandFits
    <3> QED  BY <2>4, <3>1, <3>3, <3>4, <3>5, <3>6 DEF CommandFits
  <2>5. CommandsFit'
    <3>1. CommandFits(d)'  BY <1>7 DEF CommandFits
    <3>2. ASSUME NEW j \in Calls, j # k PROVE CommandFits(roomCalls[j])'
      <4>1. roomCalls'[j] = roomCalls[j] /\ roomCalls[j] \in RoomCommands  BY <1>1, <1>2, <3>2 DEF RoomType
      <4>2. PICK e \in RoomCommands : roomCalls[j] = e  BY <4>1
      <4>3. CommandFits(e)'
        <5>1. CASE e.pc = "idle"  BY <5>1 DEF CommandFits
        <5> QED  BY <2>4, <3>2, <4>2, <5>1
      <4> QED  BY <4>1, <4>2, <4>3
    <3> QED  BY <1>2, <3>1, <3>2 DEF CommandsFit
  <2>6. /\ h.sess <= roomsDone'.sessions /\ home[r].sess <= roomsDone.sessions
        /\ c.arch.sess <= roomsDone.sessions
    <3>1. home[r].sess <= roomsDone.sessions /\ c.arch.sess <= roomsDone.sessions
      BY <1>1, <1>7, <2>1 DEF RoomsApart, ListFits, CommandFits
    <3>2. home[r].sess \in Nat /\ c.arch.sess \in Nat  BY <1>1 DEF Homes, RoomArchives
    <3> HIDE DEF c, r
    <3> QED  BY <1>4, <3>1, <3>2 DEF c, r
  <2>7. ListFits'
    <3>1. \A q \in WorkRooms!Rooms :
            home'[q].sess <= roomsDone'.sessions /\ (home'[q].sess # 0 => roomList[q] # "")
      <4> SUFFICES ASSUME NEW q \in WorkRooms!Rooms
                   PROVE  home'[q].sess <= roomsDone'.sessions /\ (home'[q].sess # 0 => roomList[q] # "")
        OBVIOUS
      <4>1. CASE q = r
        <5>1. home'[q] = h /\ roomList[q] # ""  BY <1>3, <2>1, <4>1
        <5> QED  BY <2>6, <5>1
      <4>2. CASE q # r
        <5>1. home[q] \in Homes  BY <1>1 DEF RoomType
        <5>2. home[q].sess \in Nat  BY <5>1 DEF Homes
        <5>3. home[q].sess <= roomsDone.sessions /\ (home[q].sess # 0 => roomList[q] # "")
          BY <1>7 DEF RoomsApart, ListFits
        <5>4. home'[q] = home[q]  BY <1>3, <4>2
        <5> DEFINE x == home[q].sess
        <5>5. x \in Nat /\ x <= roomsDone.sessions /\ home'[q].sess = x /\ (x # 0 => roomList[q] # "")
          BY <5>2, <5>3, <5>4
        <5> HIDE DEF x
        <5>6. x <= roomsDone'.sessions  BY <1>4, <5>5, AtMost
        <5> QED  BY <5>5, <5>6
      <4> QED  BY <4>1, <4>2
    <3>2. \A a \in archives' : a.sess <= roomsDone'.sessions
      <4>1. \A a \in archives : a.sess \in Nat /\ a.sess <= roomsDone.sessions
        BY <1>1, <1>7 DEF RoomsApart, ListFits, RoomType, RoomArchives
      <4>2. c.arch.sess \in Nat  BY <1>1 DEF RoomArchives
      <4> DEFINE x == c.arch
      <4>3. x.sess \in Nat /\ x.sess <= roomsDone.sessions /\ archives' \subseteq archives \cup {x}
        BY <2>6, <4>2
      <4> HIDE DEF x
      <4> QED  BY <1>4, <4>1, <4>3
    <3>3. \A q \in WorkRooms!Rooms : home'[q].sess # 0 => q \in roomEntity.map
      BY <1>3, <1>7, <2>1 DEF RoomsApart, ListFits
    <3> QED  BY <1>7, <3>1, <3>2, <3>3 DEF RoomsApart, ListFits, UniqueNames, Beyond
  <2>8. FileFits' /\ OneSave'
    <3>1. FileFits'  BY <1>7 DEF RoomsApart, FileFits
    <3>2. \A j \in Calls : SavesEntry(roomCalls'[j]) => j # k /\ SavesEntry(roomCalls[j])
      BY <1>2, <2>1
    <3>3. OneSave  BY <1>7 DEF RoomsApart
    <3>4. OneSave'
      <4> SUFFICES ASSUME NEW i \in Calls, NEW j \in Calls, SavesEntry(roomCalls'[i]), SavesEntry(roomCalls'[j])
                   PROVE  i = j
        BY DEF OneSave, SavesEntry
      <4> QED  BY <3>2, <3>3 DEF OneSave
    <3> QED  BY <3>1, <3>4
  <2>9. OneName'
    <3>1. GoesBy(c.arch.sess, c.name) /\ GoesBy(home[r].sess, c.name)
      BY <1>1, <2>1 DEF GoesBy
    <3>2. \A s \in 1 .. roomsDone'.sessions : \A m \in Names :
            GoesBy(s, m)' => GoesBy(s, m) \/ (s > roomsDone.sessions /\ m = c.name)
      <4> SUFFICES ASSUME NEW s \in 1 .. roomsDone'.sessions, NEW m \in Names, GoesBy(s, m)'
                   PROVE  GoesBy(s, m) \/ (s > roomsDone.sessions /\ m = c.name)
        OBVIOUS
      <4>1. CASE \E a \in archives' : a.sess = s /\ a.name = m
        <5>1. PICK a \in archives' : a.sess = s /\ a.name = m  BY <4>1
        <5>2. CASE a \in archives  BY <5>1, <5>2 DEF GoesBy
        <5>3. CASE a = c.arch /\ a \notin archives
          <6>1. c.arch.name = c.name  BY <1>7, <2>1, <5>1, <5>3 DEF CommandFits
          <6> QED  BY <3>1, <5>1, <5>3, <6>1
        <5> QED  BY <5>1, <5>2, <5>3
      <4>2. CASE \E q \in WorkRooms!Rooms : home'[q].sess = s /\ roomList[q] = m
        <5>1. PICK q \in WorkRooms!Rooms : home'[q].sess = s /\ roomList[q] = m  BY <4>2
        <5>2. CASE q # r  BY <1>3, <5>1, <5>2 DEF GoesBy
        <5>3. CASE q = r
          <6>1. h.sess = s /\ m = c.name  BY <1>3, <2>1, <5>1, <5>3
          <6>2. CASE h.sess \in {0, home[r].sess, c.arch.sess}
            <7>1. s # 0  OBVIOUS
            <7> QED  BY <3>1, <6>1, <6>2, <7>1
          <6>3. CASE h.sess = roomsDone.sessions + 1  BY <1>4, <6>1, <6>3
          <6> QED  BY <6>2, <6>3
        <5> QED  BY <5>2, <5>3
      <4>3. CASE \E j \in Calls : roomCalls'[j].pc # "idle" /\ roomCalls'[j].arch.sess = s /\ roomCalls'[j].name = m
        BY <1>2, <2>1, <4>3 DEF GoesBy
      <4> QED  BY <4>1, <4>2, <4>3 DEF GoesBy
    <3> QED
      <4> SUFFICES ASSUME NEW s \in 1 .. roomsDone'.sessions, NEW m \in Names, NEW n \in Names,
                          GoesBy(s, m)', GoesBy(s, n)'
                   PROVE  m = n
        BY DEF OneName
      <4>1. CASE s > roomsDone.sessions
        <5>1. ~GoesBy(s, m) /\ ~GoesBy(s, n)  BY <1>1, <1>4, <1>7, <4>1, NamesOfSessions
        <5> QED  BY <3>2, <5>1
      <4>2. CASE ~(s > roomsDone.sessions)
        <5>1. s \in 1 .. roomsDone.sessions  BY <1>4, <4>2
        <5> QED  BY <1>7, <3>2, <4>2, <5>1 DEF RoomsApart, OneName
      <4> QED  BY <4>1, <4>2
  <2>10. SessionsReached'
    <3> SUFFICES ASSUME NEW s \in 1 .. roomsDone'.sessions, s \notin roomsDone'.lost
                 PROVE  \/ \E a \in archives' : a.sess = s
                        \/ \E q \in WorkRooms!Rooms : home'[q].sess = s /\ roomList[q] # ""
      BY DEF SessionsReached, WorkRooms!Reachable
    <3>1. CASE h.sess = s  BY <1>1, <1>3, <2>1, <3>1
    <3>2. CASE h.sess # s
      <4>1. s \in 1 .. roomsDone.sessions /\ s \notin roomsDone.lost /\ s # 0  BY <1>4, <3>2
      <4>2. WorkRooms!Reachable(s)  BY <1>7, <4>1 DEF RoomsApart, SessionsReached
      <4>3. CASE \E a \in archives : a.sess = s  BY <1>7, <3>2, <4>1, <4>3
      <4>4. CASE \E q \in WorkRooms!Rooms : home[q].sess = s /\ roomList[q] # ""
        <5>1. PICK q \in WorkRooms!Rooms : home[q].sess = s /\ roomList[q] # ""  BY <4>4
        <5>2. CASE q = r  BY <1>7, <3>2, <4>1, <5>1, <5>2
        <5>3. CASE q # r  BY <1>3, <5>1, <5>3
        <5> QED  BY <5>2, <5>3
      <4> QED  BY <4>2, <4>3, <4>4 DEF WorkRooms!Reachable
    <3> QED  BY <3>1, <3>2
  <2> QED  BY <2>3, <2>5, <2>7, <2>8, <2>9, <2>10 DEF RoomsApart
<1> QED  BY <1>1, <1>5, <1>6, <1>7 DEF RoomsInv

\* A command that has ended.
LEMMA RoomIdle ==
  /\ WorkRooms!Idle \in RoomCommands /\ WorkRooms!Idle.pc = "idle"
  /\ WorkRooms!NoHome \in Homes /\ WorkRooms!NoHome.sess = 0
  BY DEF WorkRooms!Idle, WorkRooms!NoArchive, WorkRooms!Empty, WorkRooms!NoHome, RoomCommands, RoomStages,
         RoomArchives, RoomEntries, Homes

LEMMA RoomAssigns == ASSUME RoomsInv, NEW k \in Calls, WorkRooms!RoomAssigned(k) PROVE RoomsInv'
<1> DEFINE c == roomCalls[k]
           r == c.room
<1>1. /\ RoomType /\ c \in RoomCommands /\ c.pc = "assign" /\ r \in WorkRooms!Rooms
      /\ c.arch \in RoomArchives /\ home[r] \in Homes /\ roomsDone \in RoomsDone
      /\ home[r].at = "none" => home[r].sess = 0
      /\ UNCHANGED <<roomList, roomFile, roomEntity, archives>>
  BY DEF RoomsInv, RoomType, InRoom, RoomCommands, WorkRooms!RoomAssigned
<1>2. home[r].sess \in Nat /\ c.arch.sess \in Nat /\ roomsDone.sessions \in Nat /\ roomsDone.lost \subseteq Nat
  BY <1>1 DEF Homes, RoomArchives, RoomsDone
<1>3. PICK d \in RoomCommands :
        /\ roomCalls' = [roomCalls EXCEPT ![k] = d]
        /\ \/ d.pc = "idle"
           \/ /\ d.pc = "unlink" /\ c.cmd = "resume" /\ d.cmd = c.cmd
              /\ d.name = c.name /\ d.room = r /\ d.arch = c.arch
  <2>1. CASE c.cmd = "resume"
    <3> DEFINE d == [c EXCEPT !.pc = "unlink"]
    <3>1. roomCalls' = [roomCalls EXCEPT ![k] = d]
      BY <1>1, <2>1 DEF WorkRooms!RoomAssigned, WorkRooms!Unlinks, WorkRooms!Goes, RoomType
    <3>2. d \in RoomCommands /\ d.pc = "unlink" /\ d.cmd = c.cmd /\ d.name = c.name /\ d.room = r /\ d.arch = c.arch
      BY <1>1 DEF RoomCommands, RoomStages
    <3> QED  BY <2>1, <3>1, <3>2
  <2>2. CASE c.cmd # "resume"
    <3>1. roomCalls' = [roomCalls EXCEPT ![k] = WorkRooms!Idle]
      BY <2>2 DEF WorkRooms!RoomAssigned, WorkRooms!Unlinks, WorkRooms!Returns
    <3> QED  BY <3>1, RoomIdle
  <2> QED  BY <2>1, <2>2
<1>4. ASSUME NEW h \in Homes, home' = [home EXCEPT ![r] = h], h.at = "none" => h.sess = 0,
             roomsDone' \in RoomsDone, roomsDone'.rooms = roomsDone.rooms,
             roomsDone'.overlap = roomsDone.overlap, roomsDone.lost \subseteq roomsDone'.lost,
             \/ roomsDone'.sessions = roomsDone.sessions /\ h.sess \in {0, home[r].sess, c.arch.sess}
             \/ roomsDone'.sessions = roomsDone.sessions + 1 /\ h.sess = roomsDone'.sessions,
             home[r].sess \in roomsDone'.lost \cup {0, h.sess},
             c.arch.sess \in roomsDone'.lost \cup {0, h.sess}
      PROVE  RoomsInv'
  <2>1. ASSUME RoomsApart, d.pc # "idle" PROVE CommandFits(d)'
    <3>1. CommandFits(c)  BY <2>1 DEF RoomsApart, CommandsFit
    <3>2. c.arch.sess <= roomsDone'.sessions
      <4>1. c.arch.sess <= roomsDone.sessions  BY <1>1, <3>1 DEF CommandFits
      <4>2. roomsDone'.sessions \in Nat /\ roomsDone.sessions <= roomsDone'.sessions
        BY <1>2, <1>4 DEF RoomsDone
      <4> QED  BY <1>2, <4>1, <4>2, AtMost
    <3>3. home'[r] = h  BY <1>1, <1>4 DEF RoomType
    <3> QED
      BY <1>1, <1>3, <1>4, <2>1, <3>1, <3>2, <3>3 DEF CommandFits, InRoom, SavesEntry, Closing
  <2>2. c.pc \in {"assign", "unlink", "archive", "release"}  BY <1>1
  <2>3. \/ d.pc = "idle"
        \/ /\ d.pc \in {"unlink", "release", "delete"}
           /\ d.name = roomCalls[k].name /\ d.room = roomCalls[k].room /\ d.arch = roomCalls[k].arch
    BY <1>3
  <2>4. archives' \subseteq archives \cup {c.arch} /\ archives \subseteq archives' \cup {c.arch}
        /\ archives \subseteq archives' /\ archives' = archives
    BY <1>1
  <2> QED  BY <1>1, <1>3, <1>4, <2>1, <2>2, <2>3, <2>4, RoomMoves
<1>5. CASE UNCHANGED home /\ WorkRooms!Loses({c.arch.sess})
  <2> DEFINE l == roomsDone.lost \cup ({c.arch.sess} \ {0})
  <2>1. roomsDone' = [roomsDone EXCEPT !.lost = l]  BY <1>1, <1>5 DEF WorkRooms!Loses, RoomsDone
  <2>2. l \in SUBSET Nat /\ roomsDone.lost \subseteq l /\ c.arch.sess \in l \cup {0}  BY <1>2
  <2> HIDE DEF l
  <2>3. /\ roomsDone' \in RoomsDone /\ roomsDone'.lost = l /\ roomsDone'.rooms = roomsDone.rooms
        /\ roomsDone'.overlap = roomsDone.overlap /\ roomsDone'.sessions = roomsDone.sessions
    BY <1>1, <2>1, <2>2 DEF RoomsDone
  <2>4. home' = [home EXCEPT ![r] = home[r]]  BY <1>1, <1>5 DEF RoomType
  <2> QED  BY <1>1, <1>4, <2>2, <2>3, <2>4
<1>6. CASE c.arch.sess # 0 /\ WorkRooms!Here(r, c.arch.sess) /\ WorkRooms!Loses({home[r].sess})
  <2> DEFINE l == roomsDone.lost \cup ({home[r].sess} \ {0})
             h == [sess |-> c.arch.sess, at |-> "bot"]
  <2>1. roomsDone' = [roomsDone EXCEPT !.lost = l]  BY <1>1, <1>6 DEF WorkRooms!Loses, RoomsDone
  <2>2. l \in SUBSET Nat /\ roomsDone.lost \subseteq l /\ home[r].sess \in l \cup {0}  BY <1>2
  <2> HIDE DEF l
  <2>3. /\ roomsDone' \in RoomsDone /\ roomsDone'.lost = l /\ roomsDone'.rooms = roomsDone.rooms
        /\ roomsDone'.overlap = roomsDone.overlap /\ roomsDone'.sessions = roomsDone.sessions
    BY <1>1, <2>1, <2>2 DEF RoomsDone
  <2>4. home' = [home EXCEPT ![r] = h]  BY <1>6 DEF WorkRooms!Here
  <2>5. h \in Homes /\ h.sess = c.arch.sess /\ h.at = "bot"  BY <1>2 DEF Homes
  <2> HIDE DEF h
  <2> QED  BY <1>1, <1>4, <2>2, <2>3, <2>4, <2>5
<1>7. CASE c.arch.sess = 0 /\ WorkRooms!Here(r, home[r].sess) /\ UNCHANGED roomsDone
  <2> DEFINE h == [sess |-> home[r].sess, at |-> "bot"]
  <2>1. home' = [home EXCEPT ![r] = h]  BY <1>7 DEF WorkRooms!Here
  <2>2. h \in Homes /\ h.sess = home[r].sess /\ h.at = "bot"  BY <1>2 DEF Homes
  <2> HIDE DEF h
  <2> QED  BY <1>1, <1>4, <1>7, <2>1, <2>2
<1>8. CASE c.arch.sess = 0 /\ home[r].sess = 0 /\ WorkRooms!StartsAnew(r)
  <2> DEFINE s == roomsDone.sessions + 1
             h == [sess |-> s, at |-> "bot"]
  <2>1. home' = [home EXCEPT ![r] = h] /\ roomsDone' = [roomsDone EXCEPT !.sessions = s]
    BY <1>8 DEF WorkRooms!StartsAnew, WorkRooms!Here, WorkRooms!NewSession
  <2>2. s \in Nat /\ s = roomsDone.sessions + 1  BY <1>2
  <2> HIDE DEF s
  <2>3. h \in Homes /\ h.sess = s /\ h.at = "bot"  BY <2>2 DEF Homes
  <2> HIDE DEF h
  <2>4. /\ roomsDone' \in RoomsDone /\ roomsDone'.lost = roomsDone.lost /\ roomsDone'.rooms = roomsDone.rooms
        /\ roomsDone'.overlap = roomsDone.overlap /\ roomsDone'.sessions = s
    BY <1>1, <2>1, <2>2 DEF RoomsDone
  <2> QED  BY <1>1, <1>4, <1>8, <2>1, <2>2, <2>3, <2>4
<1> QED  BY <1>5, <1>6, <1>7, <1>8 DEF WorkRooms!RoomAssigned

\* /close and /resume deal with the archive.
LEMMA RoomArchived ==
  ASSUME RoomsInv, NEW k \in Calls, WorkRooms!ArchiveConsumed(k) \/ WorkRooms!ArchiveWritten(k)
  PROVE  RoomsInv'
<1> DEFINE c == roomCalls[k]
           r == c.room
<1>1. /\ RoomType /\ c \in RoomCommands /\ r \in WorkRooms!Rooms /\ c.pc \in {"unlink", "archive"}
      /\ c.arch \in RoomArchives /\ home[r] \in Homes /\ roomsDone \in RoomsDone
      /\ home[r].at = "none" => home[r].sess = 0
      /\ UNCHANGED <<roomList, roomFile, roomEntity, home, roomsDone>>
  BY DEF RoomsInv, RoomType, InRoom, RoomCommands, WorkRooms!ArchiveConsumed, WorkRooms!ArchiveWritten
<1>2. home' = [home EXCEPT ![r] = home[r]]  BY <1>1 DEF RoomType
<1>3. /\ roomsDone.lost \subseteq roomsDone'.lost /\ roomsDone'.sessions = roomsDone.sessions
      /\ roomsDone' \in RoomsDone /\ roomsDone'.rooms = roomsDone.rooms
      /\ roomsDone'.overlap = roomsDone.overlap
  BY <1>1
<1>4. RoomsApart => CommandFits(c)  BY DEF RoomsApart, CommandsFit
<1>5. CASE WorkRooms!ArchiveConsumed(k)
  <2>1. /\ roomCalls' = [roomCalls EXCEPT ![k] = WorkRooms!Idle] /\ c.pc = "unlink"
        /\ archives' \in {archives, archives \ {c.arch}}
    BY <1>5 DEF WorkRooms!ArchiveConsumed, WorkRooms!Returns
  <2>2. archives' \subseteq archives \cup {c.arch} /\ archives \subseteq archives' \cup {c.arch}  BY <2>1
  <2>3. RoomsApart => c.cmd # "room" /\ c.arch.sess \in roomsDone'.lost \cup {0, home[r].sess}
    BY <1>1, <1>4, <2>1 DEF CommandFits
  <2> QED  BY <1>1, <1>2, <1>3, <2>1, <2>2, <2>3, RoomIdle, RoomMoves
<1>6. ASSUME c.pc = "archive", UNCHANGED archives, roomCalls' = [roomCalls EXCEPT ![k] = WorkRooms!Idle]
      PROVE  RoomsInv'
  <2>1. archives' \subseteq archives \cup {c.arch} /\ archives \subseteq archives' \cup {c.arch}  BY <1>6
  <2> QED  BY <1>1, <1>2, <1>3, <1>6, <2>1, RoomIdle, RoomMoves
<1>7. ASSUME c.pc = "archive", archives' = archives \cup {c.arch}, WorkRooms!Goes(k, "release")
      PROVE  RoomsInv'
  <2> DEFINE d == [c EXCEPT !.pc = "release"]
  <2>1. roomCalls' = [roomCalls EXCEPT ![k] = d]  BY <1>1, <1>7 DEF WorkRooms!Goes, RoomType
  <2>2. d \in RoomCommands /\ d.pc = "release" /\ d.cmd = c.cmd /\ d.name = c.name /\ d.room = r /\ d.arch = c.arch
    BY <1>1 DEF RoomCommands, RoomStages
  <2> HIDE DEF d
  <2>3. PICK e \in RoomCommands : e = d  BY <2>2
  <2>4. ASSUME RoomsApart PROVE CommandFits(e)' /\ c.cmd # "room"
    <3>1. c.arch \in archives'  BY <1>7
    <3> QED  BY <1>1, <1>4, <1>7, <2>2, <2>3, <2>4, <3>1 DEF CommandFits, InRoom, SavesEntry, Closing
  <2>5. archives' \subseteq archives \cup {c.arch} /\ archives \subseteq archives' \cup {c.arch}
        /\ archives \subseteq archives'
    BY <1>7
  <2> QED  BY <1>1, <1>2, <1>3, <1>7, <2>1, <2>2, <2>3, <2>4, <2>5, RoomMoves
<1> QED  BY <1>5, <1>6, <1>7 DEF WorkRooms!ArchiveWritten, WorkRooms!Returns

LEMMA RoomReleases == ASSUME RoomsInv, NEW k \in Calls, WorkRooms!RoomReleased(k) PROVE RoomsInv'
<1> DEFINE c == roomCalls[k]
           r == c.room
           l == roomsDone.lost \cup (({home[r].sess} \ {c.arch.sess}) \ {0})
           d == [c EXCEPT !.pc = "delete"]
<1>1. /\ RoomType /\ c \in RoomCommands /\ r \in WorkRooms!Rooms /\ c.pc = "release"
      /\ c.arch \in RoomArchives /\ home[r] \in Homes /\ roomsDone \in RoomsDone
      /\ home' = [home EXCEPT ![r] = WorkRooms!NoHome]
      /\ UNCHANGED <<roomList, roomFile, roomEntity, archives>>
  BY DEF RoomsInv, RoomType, InRoom, RoomCommands, WorkRooms!RoomReleased
<1>2. roomsDone' = [roomsDone EXCEPT !.lost = l]
  BY <1>1 DEF WorkRooms!RoomReleased, WorkRooms!Loses, RoomsDone
<1>3. /\ l \in SUBSET Nat /\ roomsDone.lost \subseteq l
      /\ home[r].sess \in l \cup {0} \/ home[r].sess = c.arch.sess
  BY <1>1 DEF Homes, RoomsDone
<1> HIDE DEF l
<1>4. /\ roomsDone' \in RoomsDone /\ roomsDone'.lost = l /\ roomsDone'.rooms = roomsDone.rooms
      /\ roomsDone'.overlap = roomsDone.overlap /\ roomsDone'.sessions = roomsDone.sessions
  BY <1>1, <1>2, <1>3 DEF RoomsDone
<1>5. roomCalls' = [roomCalls EXCEPT ![k] = d]
  BY <1>1 DEF WorkRooms!RoomReleased, WorkRooms!Goes, RoomType
<1>6. d \in RoomCommands /\ d.pc = "delete" /\ d.cmd = c.cmd /\ d.name = c.name /\ d.room = r /\ d.arch = c.arch
  BY <1>1 DEF RoomCommands, RoomStages
<1> HIDE DEF d
<1>7. PICK e \in RoomCommands : e = d  BY <1>6
<1>8. ASSUME RoomsApart PROVE CommandFits(e)' /\ c.arch \in archives'
  <2>1. CommandFits(c)  BY <1>8 DEF RoomsApart, CommandsFit
  <2> QED  BY <1>1, <1>4, <1>6, <1>7, <2>1 DEF CommandFits, InRoom, SavesEntry, Closing
<1>9. archives' \subseteq archives \cup {c.arch} /\ archives \subseteq archives' \cup {c.arch}
      /\ archives \subseteq archives' /\ archives' = archives
  BY <1>1
<1>10. RoomsApart => \/ home[r].sess \in roomsDone'.lost \cup {0, WorkRooms!NoHome.sess}
                     \/ \E a \in archives' : a.sess = home[r].sess
  BY <1>3, <1>4, <1>8
<1> QED  BY <1>1, <1>3, <1>4, <1>5, <1>6, <1>7, <1>8, <1>9, <1>10, RoomIdle, RoomMoves

\* A command puts a new room on the list, or takes its room off it: the command becomes d,
\* the room r gets the name n.
Lists(k, d, r, n) ==
  /\ roomCalls' = [roomCalls EXCEPT ![k] = d]
  /\ d.name = roomCalls[k].name /\ d.arch = roomCalls[k].arch /\ d.cmd = roomCalls[k].cmd
  /\ d.room = r /\ roomList' = [roomList EXCEPT ![r] = n] /\ d.copy = roomList'
  /\ \/ /\ roomCalls[k].pc = "create" /\ d.pc = "save" /\ n = roomCalls[k].name
        /\ r = roomsDone.rooms + 1 /\ roomsDone'.rooms = r
     \/ /\ roomCalls[k].pc = "delete" /\ d.pc = "saveclosed" /\ n = ""
        /\ r = roomCalls[k].room /\ roomsDone'.rooms = roomsDone.rooms
  /\ home' \in [WorkRooms!Rooms -> Homes]
  /\ \A q \in WorkRooms!Rooms : home'[q].at = "none" => home'[q].sess = 0
  /\ \A q \in WorkRooms!Rooms : q # r => home'[q] = home[q]
  /\ RoomsApart => home'[r].sess = 0
  /\ home[r].sess \in roomsDone'.lost \cup {0}
  /\ roomsDone' \in RoomsDone /\ roomsDone.lost \subseteq roomsDone'.lost
  /\ roomsDone'.sessions = roomsDone.sessions /\ roomsDone'.overlap = WorkRooms!SavesMeet(k)
  /\ UNCHANGED <<roomFile, roomEntity, archives>>

LEMMA RoomListed ==
  ASSUME RoomsInv, NEW k \in Calls, NEW d \in RoomCommands, NEW r \in WorkRooms!Rooms,
         NEW n \in Names \cup {""}, Lists(k, d, r, n)
  PROVE  RoomsInv'
<1> USE DEF Lists
<1> DEFINE c == roomCalls[k]
<1>1. /\ RoomType /\ (roomsDone.overlap \/ (~roomsDone.overlap /\ RoomsApart)) /\ roomsDone \in RoomsDone
      /\ c \in RoomCommands /\ c.pc \in {"create", "delete"} /\ d.pc \in {"save", "saveclosed"}
  BY DEF RoomsInv, RoomType, RoomsDone
<1>2. /\ roomCalls'[k] = d /\ \A j \in Calls : j # k => roomCalls'[j] = roomCalls[j]
      /\ roomCalls' \in [Calls -> RoomCommands]
  BY <1>1 DEF RoomType
<1>3. /\ roomList'[r] = n /\ \A q \in WorkRooms!Rooms : q # r => roomList'[q] = roomList[q]
      /\ roomList' \in RoomEntries
  BY <1>1 DEF RoomType, RoomEntries
<1>4. RoomType'
  <2>1. \A j \in Calls : InRoom(roomCalls'[j]) => roomCalls'[j].room \in WorkRooms!Rooms
    BY <1>1, <1>2 DEF RoomType, InRoom
  <2> QED  BY <1>1, <1>2, <1>3, <2>1 DEF RoomType, InRoom
<1>7. roomsDone.sessions \in Nat  BY <1>1 DEF RoomsDone
<1>5. CASE WorkRooms!SavesMeet(k)  BY <1>4, <1>5 DEF RoomsInv
<1>6. ASSUME RoomsApart, ~WorkRooms!SavesMeet(k) PROVE RoomsApart'
  <2>0. \A j \in Calls : j # k => ~SavesEntry(roomCalls[j])
    BY <1>6 DEF WorkRooms!SavesMeet, WorkRooms!Saves, SavesEntry
  <2>1. /\ CommandFits(c) /\ c.name \in Names /\ c.name # ""
        /\ c.pc = "create" => \A q \in WorkRooms!Rooms : roomList[q] # c.name
        /\ c.pc = "delete" => roomList[r] = c.name
    BY <1>1, <1>6, RoomsAssumption DEF RoomsApart, CommandsFit, CommandFits, InRoom, Closing
  <2>2. /\ roomsDone.rooms \in Nat /\ roomsDone'.rooms \in Nat /\ roomsDone.rooms <= roomsDone'.rooms
        /\ r \in Nat /\ r <= roomsDone'.rooms /\ (c.pc = "create" => r > roomsDone.rooms)
    <3>1. roomsDone.rooms \in Nat /\ roomsDone'.rooms \in Nat /\ r \in Nat
      BY <1>1, RoomNumbers DEF RoomsDone
    <3>2. c.pc = "delete" => r <= roomsDone.rooms  BY <2>1 DEF CommandFits
    <3>3. CASE c.pc = "create"
      <4>1. r = roomsDone.rooms + 1 /\ roomsDone'.rooms = r  BY <3>3
      <4>2. roomsDone.rooms <= roomsDone.rooms + 1 /\ roomsDone.rooms + 1 > roomsDone.rooms
        BY <3>1, Numbers
      <4>3. r <= r  BY <3>1, Numbers
      <4> QED  BY <3>1, <4>1, <4>2, <4>3
    <3>4. CASE c.pc = "delete"
      <4>1. roomsDone'.rooms = roomsDone.rooms  BY <3>4
      <4>2. roomsDone.rooms <= roomsDone.rooms  BY <3>1, Numbers
      <4> QED  BY <3>1, <3>2, <3>4, <4>1, <4>2
    <3> QED  BY <1>1, <3>3, <3>4
  <2>3. ASSUME NEW j \in Calls, j # k, NEW e \in RoomCommands, roomCalls[j] = e, e.pc # "idle"
        PROVE  /\ CommandFits(e) /\ e.name # c.name
               /\ InRoom(e) => e.room \in WorkRooms!Rooms /\ e.room # r
    <3>1. CommandFits(e) /\ e.name # c.name
      BY <1>1, <1>6, <2>3 DEF RoomsApart, CommandsApart, CommandsFit
    <3>2. ASSUME InRoom(e) PROVE e.room \in WorkRooms!Rooms /\ e.room # r
      <4>1. e.room \in WorkRooms!Rooms /\ e.room \in Nat
        BY <1>1, <2>3, <3>2, RoomNumbers DEF RoomType
      <4>2. CASE c.pc = "create"
        <5>1. e.room <= roomsDone.rooms  BY <2>3, <3>1, <3>2 DEF CommandFits, InRoom
        <5>2. r > roomsDone.rooms /\ r \in Nat /\ roomsDone.rooms \in Nat  BY <2>2, <4>2
        <5> QED  BY <4>1, <5>1, <5>2, Numbers
      <4>3. CASE c.pc = "delete"
        <5>1. roomCalls[k].room = r /\ InRoom(roomCalls[k]) /\ roomCalls[k].pc # "idle"
          BY <4>3 DEF InRoom
        <5>2. roomCalls[j].pc # "idle" /\ InRoom(roomCalls[j]) /\ roomCalls[j].room = e.room
          BY <2>3, <3>2
        <5>3. CommandsApart  BY <1>6 DEF RoomsApart
        <5> QED  BY <2>3, <4>1, <5>1, <5>2, <5>3 DEF CommandsApart
      <4> QED  BY <1>1, <4>2, <4>3
    <3> QED  BY <3>1, <3>2
  <2>4. CommandsApart'
    <3>1. \A j \in Calls : j # k /\ roomCalls[j].pc # "idle" =>
            /\ roomCalls[j].name # d.name
            /\ InRoom(roomCalls[j]) => roomCalls[j].room # d.room
      BY <1>1, <2>3 DEF RoomType
    <3> HIDE DEF c
    <3> QED  BY <1>2, <1>6, <3>1 DEF RoomsApart, CommandsApart
  <2>5. UniqueNames(roomList') /\ Beyond(roomList)'
    <3>1. UniqueNames(roomList)  BY <1>6 DEF RoomsApart, ListFits
    <3>2. n # "" => \A q \in WorkRooms!Rooms : roomList[q] # n  BY <1>1, <2>1
    <3>3. UniqueNames(roomList')
      <4> SUFFICES ASSUME NEW q1 \in WorkRooms!Rooms, NEW q2 \in WorkRooms!Rooms,
                          roomList'[q1] = roomList'[q2], roomList'[q1] # ""
                   PROVE  q1 = q2
        BY DEF UniqueNames
      <4>1. CASE q1 # r /\ q2 # r
        <5>1. roomList'[q1] = roomList[q1] /\ roomList'[q2] = roomList[q2]  BY <1>3, <4>1
        <5>2. roomList[q1] = roomList[q2] /\ roomList[q1] # ""  BY <5>1
        <5> QED  BY <3>1, <5>2, Zenon DEF UniqueNames
      <4>2. CASE q1 = r /\ q2 # r
        <5>1. roomList'[q1] = n /\ roomList'[q2] = roomList[q2]  BY <1>3, <4>2
        <5> QED  BY <3>2, <5>1
      <4>3. CASE q1 # r /\ q2 = r
        <5>1. roomList'[q2] = n /\ roomList'[q1] = roomList[q1]  BY <1>3, <4>3
        <5> QED  BY <3>2, <5>1
      <4> QED  BY <4>1, <4>2, <4>3
    <3>4. ASSUME NEW q \in WorkRooms!Rooms, q > roomsDone'.rooms PROVE roomList'[q] = ""
      <4>1. q \in Nat  BY RoomNumbers
      <4>2. q # r /\ q > roomsDone.rooms
        <5>1. q # r  BY <2>2, <3>4, <4>1, Numbers
        <5>2. q > roomsDone.rooms  BY <2>2, <3>4, <4>1, Numbers
        <5> QED  BY <5>1, <5>2
      <4> QED  BY <1>3, <1>6, <4>2 DEF RoomsApart, ListFits, Beyond
    <3> QED  BY <3>3, <3>4 DEF Beyond
  <2>6. ASSUME NEW f, Beyond(f) PROVE Beyond(f)'
    <3> SUFFICES ASSUME NEW q \in WorkRooms!Rooms, q > roomsDone'.rooms PROVE f[q] = ""
      BY DEF Beyond
    <3>1. q \in Nat  BY RoomNumbers
    <3>2. q > roomsDone.rooms  BY <2>2, <3>1, Numbers
    <3> QED  BY <2>6, <3>2 DEF Beyond
  <2>7. CommandsFit'
    <3>1. CommandFits(d)'
      <4>1. c.arch.sess <= roomsDone'.sessions /\ (c.cmd = "room" => c.arch.sess = 0)
            /\ (c.cmd # "room" => c.arch.name = c.name)
        BY <1>1, <2>1 DEF CommandFits
      <4>2. d.pc = "save" => n = d.name  BY <1>1
      <4>3. d.pc = "saveclosed" => n = ""  BY <1>1
      <4>4. r <= roomsDone'.rooms  BY <2>2
      <4>5. d.copy = roomList' /\ SavesEntry(d)  BY <1>1 DEF SavesEntry
      <4> HIDE DEF c
      <4> QED
        BY <1>1, <1>3, <2>1, <4>1, <4>2, <4>3, <4>4, <4>5 DEF CommandFits, InRoom, SavesEntry, Closing, c
    <3>2. ASSUME NEW j \in Calls, j # k, NEW e \in RoomCommands, roomCalls[j] = e, e.pc # "idle"
          PROVE  CommandFits(e)'
      <4>1. CommandFits(e) /\ e.name # c.name /\ (InRoom(e) => e.room \in WorkRooms!Rooms /\ e.room # r)
        BY <2>3, <3>2
      <4>2. InRoom(e) => home'[e.room] = home[e.room] /\ roomList'[e.room] = roomList[e.room]
        BY <1>3, <4>1
      <4>3. e.pc = "create" => \A q \in WorkRooms!Rooms : roomList'[q] # e.name
        <5>1. ASSUME e.pc = "create", NEW q \in WorkRooms!Rooms PROVE roomList'[q] # e.name
          <6>1. roomList[q] # e.name /\ e.name \in Names  BY <3>2, <4>1, <5>1 DEF CommandFits
          <6>2. n # e.name  BY <4>1, <6>1, RoomsAssumption
          <6> QED  BY <1>3, <6>1, <6>2
        <5> QED  BY <5>1
      <4>4. e.pc # "create" => e.room <= roomsDone'.rooms
        <5>1. ASSUME e.pc # "create" PROVE e.room <= roomsDone'.rooms
          <6>1. e.room <= roomsDone.rooms  BY <3>2, <4>1, <5>1 DEF CommandFits
          <6>2. e.room \in Nat  BY DEF RoomCommands
          <6> QED  BY <2>2, <6>1, <6>2, AtMost
        <5> QED  BY <5>1
      <4>5. ~SavesEntry(e) /\ (InRoom(e) => e.room \in roomEntity.map)
        BY <2>0, <3>2, <4>1 DEF CommandFits
      <4>6. e.pc = "unlink" => e.cmd = "resume" /\ e.arch.sess \in roomsDone'.lost \cup {0, home'[e.room].sess}
        BY <3>2, <4>1, <4>2 DEF CommandFits, InRoom
      <4>7. /\ InRoom(e) /\ ~Closing(e) => roomList'[e.room] = e.name
            /\ Closing(e) => roomList'[e.room] = ""
        BY <3>2, <4>1, <4>2 DEF CommandFits, InRoom, Closing
      <4> QED  BY <3>2, <4>1, <4>3, <4>4, <4>5, <4>6, <4>7 DEF CommandFits
    <3>3. ASSUME NEW j \in Calls, j # k PROVE CommandFits(roomCalls[j])'
      <4>1. roomCalls'[j] = roomCalls[j] /\ roomCalls[j] \in RoomCommands  BY <1>1, <1>2, <3>3 DEF RoomType
      <4>2. PICK e \in RoomCommands : roomCalls[j] = e  BY <4>1
      <4>3. CommandFits(e)'
        <5>1. CASE e.pc = "idle"  BY <5>1 DEF CommandFits
        <5> QED  BY <3>2, <3>3, <4>2, <5>1
      <4> QED  BY <4>1, <4>2, <4>3
    <3> QED  BY <1>2, <3>1, <3>3 DEF CommandsFit
  <2>8. ListFits'
    <3>1. ASSUME NEW q \in WorkRooms!Rooms
          PROVE  home'[q].sess <= roomsDone'.sessions /\ (home'[q].sess # 0 => roomList'[q] # "")
      <4>1. CASE q = r
        <5>1. roomsDone'.sessions \in Nat  BY DEF RoomsDone
        <5>2. home'[q].sess = 0  BY <1>6, <4>1
        <5> QED  BY <5>1, <5>2, Numbers
      <4>2. CASE q # r  BY <1>3, <1>6, <4>2 DEF RoomsApart, ListFits
      <4> QED  BY <4>1, <4>2
    <3>2. UniqueNames(roomFile.rooms) /\ Beyond(roomFile.rooms)'
      <4>1. PICK f : f = roomFile.rooms  OBVIOUS
      <4>2. Beyond(f)'  BY <1>6, <2>6, <4>1 DEF RoomsApart, ListFits
      <4> QED  BY <1>6, <4>1, <4>2 DEF RoomsApart, ListFits, Beyond
    <3>3. ASSUME NEW q \in WorkRooms!Rooms
          PROVE  /\ home'[q].sess # 0 => q \in roomEntity.map
                 /\ q \in roomEntity.map => q <= roomsDone'.rooms
      <4>1. home'[q].sess # 0 => q \in roomEntity.map
        BY <1>6 DEF RoomsApart, ListFits
      <4>2. q \in Nat /\ (q \in roomEntity.map => q <= roomsDone.rooms)
        BY <1>6, RoomNumbers DEF RoomsApart, ListFits
      <4>3. q \in roomEntity.map => q <= roomsDone'.rooms  BY <2>2, <4>2, AtMost
      <4> QED  BY <4>1, <4>3
    <3> QED  BY <1>6, <2>5, <3>1, <3>2, <3>3 DEF RoomsApart, ListFits, UniqueNames
  <2>9. FileFits' /\ OneSave'
    <3>1. ASSUME NEW q \in WorkRooms!Rooms, q \in roomEntity.map, roomList'[q] # "", ~roomFile.torn
          PROVE  roomFile.rooms[q] = roomList'[q]
      <4>1. q # r
        <5>1. c.pc = "create" => q # r
          <6>1. q <= roomsDone.rooms /\ q \in Nat  BY <1>6, <3>1, RoomNumbers DEF RoomsApart, ListFits
          <6> QED  BY <2>2, <6>1, Numbers
        <5>2. c.pc = "delete" => roomList'[r] = ""  BY <1>1, <1>3
        <5> QED  BY <1>1, <3>1, <5>1, <5>2
      <4> QED  BY <1>3, <1>6, <3>1, <4>1 DEF RoomsApart, FileFits
    <3>2. FileFits'  BY <3>1 DEF FileFits
    <3>3. \A j \in Calls : SavesEntry(roomCalls'[j]) => j = k  BY <1>2, <2>0
    <3>4. OneSave'
      <4> SUFFICES ASSUME NEW i \in Calls, NEW j \in Calls, SavesEntry(roomCalls'[i]), SavesEntry(roomCalls'[j])
                   PROVE  i = j
        BY DEF OneSave, SavesEntry
      <4> QED  BY <3>3
    <3> QED  BY <3>2, <3>4
  <2>10. OneName'
    <3>1. ASSUME NEW s \in 1 .. roomsDone.sessions, NEW m \in Names, GoesBy(s, m)' PROVE GoesBy(s, m)
      <4>1. CASE \E a \in archives : a.sess = s /\ a.name = m  BY <4>1 DEF GoesBy
      <4>2. CASE \E q \in WorkRooms!Rooms : home'[q].sess = s /\ roomList'[q] = m
        <5>1. PICK q \in WorkRooms!Rooms : home'[q].sess = s /\ roomList'[q] = m  BY <4>2
        <5>2. s # 0  BY <1>7, Numbers
        <5>3. q # r  BY <1>6, <5>1, <5>2
        <5> QED  BY <1>3, <5>1, <5>3 DEF GoesBy
      <4>3. CASE \E j \in Calls : roomCalls'[j].pc # "idle" /\ roomCalls'[j].arch.sess = s /\ roomCalls'[j].name = m
        <5>1. PICK j \in Calls : roomCalls'[j].pc # "idle" /\ roomCalls'[j].arch.sess = s /\ roomCalls'[j].name = m
          BY <4>3
        <5>2. roomCalls[j].pc # "idle" /\ roomCalls[j].arch.sess = s /\ roomCalls[j].name = m
          BY <1>1, <1>2, <5>1
        <5> QED  BY <5>2 DEF GoesBy
      <4> QED  BY <3>1, <4>1, <4>2, <4>3 DEF GoesBy
    <3> QED  BY <1>6, <3>1 DEF RoomsApart, OneName
  <2>11. SessionsReached'
    <3> SUFFICES ASSUME NEW s \in 1 .. roomsDone.sessions, s \notin roomsDone'.lost
                 PROVE  \/ \E a \in archives : a.sess = s
                        \/ \E q \in WorkRooms!Rooms : home'[q].sess = s /\ roomList'[q] # ""
      BY DEF SessionsReached, WorkRooms!Reachable
    <3>1. WorkRooms!Reachable(s)  BY <1>6 DEF RoomsApart, SessionsReached
    <3>2. ASSUME NEW q \in WorkRooms!Rooms, home[q].sess = s, roomList[q] # ""
          PROVE  home'[q].sess = s /\ roomList'[q] # ""
      <4>1. s # 0  BY <1>7, Numbers
      <4>2. q # r  BY <3>2, <4>1
      <4> QED  BY <1>3, <3>2, <4>2
    <3> QED  BY <3>1, <3>2 DEF WorkRooms!Reachable
  <2> QED  BY <2>4, <2>7, <2>8, <2>9, <2>10, <2>11 DEF RoomsApart
<1>8. CASE ~WorkRooms!SavesMeet(k)
  <2>1. RoomsApart  BY <1>1, <1>8 DEF WorkRooms!SavesMeet
  <2> QED  BY <1>4, <1>6, <1>8, <2>1 DEF RoomsInv
<1> QED  BY <1>5, <1>8

LEMMA RoomCreated == ASSUME RoomsInv, NEW k \in Calls, WorkRooms!ChannelCreated(k) PROVE RoomsInv'
<1> DEFINE c == roomCalls[k]
           r == roomsDone.rooms + 1
<1>1. /\ RoomType /\ c \in RoomCommands /\ c.pc = "create" /\ c.name \in Names \cup {""}
      /\ roomsDone \in RoomsDone /\ roomsDone.rooms \in Nat /\ roomsDone.sessions \in Nat
      /\ UNCHANGED <<roomFile, roomEntity, home, archives>>
  BY DEF RoomsInv, RoomType, RoomsDone, RoomCommands, WorkRooms!ChannelCreated
<1>4. r \in Nat /\ r > roomsDone.rooms
  <2>1. \A a \in Nat : a + 1 \in Nat /\ a + 1 > a  OBVIOUS
  <2> QED  BY <1>1, <2>1
<1>2. ASSUME r \in WorkRooms!Rooms, roomList' = [roomList EXCEPT ![r] = c.name],
             roomCalls' = [roomCalls EXCEPT ![k].pc = "save", ![k].room = r, ![k].copy = roomList'],
             roomsDone' = [roomsDone EXCEPT !.rooms = r, !.overlap = WorkRooms!SavesMeet(k)]
      PROVE  RoomsInv'
  <2> DEFINE l == roomList'
             d == [c EXCEPT !.pc = "save", !.room = r, !.copy = l]
  <2>1. l \in RoomEntries  BY <1>1, <1>2 DEF RoomType, RoomEntries
  <2>2. roomCalls' = [roomCalls EXCEPT ![k] = d]  BY <1>1, <1>2 DEF RoomType
  <2>3. r \in Nat  BY <1>4
  <2> HIDE DEF l
  <2>4. d \in RoomCommands /\ d.pc = "save" /\ d.name = c.name /\ d.arch = c.arch /\ d.cmd = c.cmd
        /\ d.room = r /\ d.copy = l
    BY <1>1, <2>1, <2>3 DEF RoomCommands, RoomStages
  <2> HIDE DEF d
  <2>5. WorkRooms!SavesMeet(k) \in BOOLEAN /\ (roomsDone.overlap => WorkRooms!SavesMeet(k))
    BY <1>1 DEF WorkRooms!SavesMeet, RoomsDone
  <2>6. /\ roomsDone' \in RoomsDone /\ roomsDone'.rooms = r /\ roomsDone'.lost = roomsDone.lost
        /\ roomsDone'.sessions = roomsDone.sessions /\ roomsDone'.overlap = WorkRooms!SavesMeet(k)
    BY <1>1, <1>2, <2>3, <2>5 DEF RoomsDone
  <2>7. home[r] \in Homes /\ home[r].sess \in Nat  BY <1>1, <1>2 DEF RoomType, Homes
  <2>8. RoomsApart => home'[r].sess = 0
    <3>1. ASSUME RoomsApart PROVE roomList[r] = ""
      <4> QED  BY <1>2, <1>4, <3>1 DEF RoomsApart, ListFits, Beyond
    <3> QED  BY <1>1, <1>2, <3>1 DEF RoomsApart, ListFits
  <2>9. home[r].sess \in roomsDone'.lost \cup {0} \/ ~RoomsApart
    BY <1>1, <2>8
  <2>10. CASE RoomsApart
    <3>1. home[r].sess \in roomsDone'.lost \cup {0}  BY <2>9, <2>10
    <3>2. /\ home' \in [WorkRooms!Rooms -> Homes]
          /\ \A q \in WorkRooms!Rooms : home'[q] = home[q]
          /\ \A q \in WorkRooms!Rooms : home'[q].at = "none" => home'[q].sess = 0
      BY <1>1 DEF RoomType
    <3>3. ASSUME NEW e \in RoomCommands, NEW p \in WorkRooms!Rooms, NEW n \in Names \cup {""},
                 e = d, p = r, n = c.name
          PROVE  RoomsInv'
      <4>1. /\ roomCalls' = [roomCalls EXCEPT ![k] = e]
            /\ e.name = roomCalls[k].name /\ e.arch = roomCalls[k].arch /\ e.cmd = roomCalls[k].cmd
            /\ e.room = p /\ e.copy = roomList'
        BY <2>2, <2>4, <3>3 DEF l
      <4>2. roomList' = [roomList EXCEPT ![p] = n]  BY <1>2, <3>3
      <4>3. /\ roomCalls[k].pc = "create" /\ e.pc = "save" /\ n = roomCalls[k].name
            /\ p = roomsDone.rooms + 1 /\ roomsDone'.rooms = p
        BY <1>1, <2>4, <2>6, <3>3
      <4>4. /\ \A q \in WorkRooms!Rooms : q # p => home'[q] = home[q]
            /\ RoomsApart => home'[p].sess = 0
            /\ home[p].sess \in roomsDone'.lost \cup {0}
        BY <2>8, <3>1, <3>2, <3>3
      <4>5. roomsDone.lost \subseteq roomsDone'.lost  BY <2>6
      <4>6. UNCHANGED <<roomFile, roomEntity, archives>>  BY <1>1
      <4> HIDE DEF c, r
      <4>7. Lists(k, e, p, n)
        BY <2>6, <3>2, <4>1, <4>2, <4>3, <4>4, <4>5, <4>6 DEF Lists
      <4> QED  BY <4>7, RoomListed
    <3> QED  BY <1>1, <1>2, <2>4, <3>3
  <2>11. CASE ~RoomsApart
    <3>1. roomsDone'.overlap  BY <2>5, <2>6, <2>11 DEF RoomsInv
    <3>2. roomCalls' \in [Calls -> RoomCommands] /\ \A j \in Calls : j # k => roomCalls'[j] = roomCalls[j]
          /\ roomCalls'[k] = d
      BY <1>1, <2>2, <2>4 DEF RoomType
    <3>3. \A j \in Calls : InRoom(roomCalls'[j]) => roomCalls'[j].room \in WorkRooms!Rooms
      <4>1. \A j \in Calls : j # k /\ InRoom(roomCalls'[j]) => roomCalls'[j].room \in WorkRooms!Rooms
        BY <1>1, <3>2 DEF RoomType, InRoom
      <4> QED  BY <1>2, <2>4, <3>2, <4>1
    <3>4. RoomType'  BY <1>1, <2>1, <2>6, <3>2, <3>3 DEF RoomType, InRoom, l
    <3> QED  BY <2>6, <3>1, <3>4 DEF RoomsInv
  <2> QED  BY <2>10, <2>11
<1>3. ASSUME roomCalls' = [roomCalls EXCEPT ![k] = WorkRooms!Idle], UNCHANGED <<roomList, roomsDone>>
      PROVE  RoomsInv'
  <2>1. /\ roomCalls'[k] = WorkRooms!Idle /\ \A j \in Calls : j # k => roomCalls'[j] = roomCalls[j]
        /\ roomCalls' \in [Calls -> RoomCommands]
    BY <1>1, <1>3, RoomIdle DEF RoomType
  <2>2. RoomType'
    <3>1. \A j \in Calls : InRoom(roomCalls'[j]) => roomCalls'[j].room \in WorkRooms!Rooms
      BY <1>1, <2>1, RoomIdle DEF RoomType, InRoom
    <3> QED  BY <1>1, <1>3, <2>1, <3>1 DEF RoomType, InRoom
  <2>3. ASSUME RoomsApart PROVE RoomsApart'
    <3>1. CommandsApart'
      <4>1. \A i, j \in Calls : i # j /\ roomCalls'[i].pc # "idle" /\ roomCalls'[j].pc # "idle" =>
              i # k /\ j # k /\ roomCalls'[i] = roomCalls[i] /\ roomCalls'[j] = roomCalls[j]
        BY <2>1, RoomIdle
      <4> QED  BY <2>3, <4>1 DEF RoomsApart, CommandsApart, InRoom
    <3>2. CommandsFit'
      <4>1. ASSUME NEW e, CommandFits(e) PROVE CommandFits(e)'
        BY <1>1, <1>3, <4>1 DEF CommandFits, Beyond
      <4>2. \A j \in Calls : CommandFits(roomCalls'[j])
        <5>1. CommandFits(WorkRooms!Idle)  BY RoomIdle DEF CommandFits
        <5> QED  BY <2>1, <2>3, <5>1 DEF RoomsApart, CommandsFit
      <4> QED  BY <4>1, <4>2 DEF CommandsFit
    <3>3. ListFits' /\ SessionsReached'
      BY <1>1, <1>3, <2>3
      DEF RoomsApart, ListFits, UniqueNames, Beyond, SessionsReached, WorkRooms!Reachable
    <3>4. FileFits' /\ OneSave'
      <4>1. FileFits'  BY <1>1, <1>3, <2>3 DEF RoomsApart, FileFits
      <4>2. \A j \in Calls : SavesEntry(roomCalls'[j]) => roomCalls'[j] = roomCalls[j]
        BY <2>1, RoomIdle DEF SavesEntry
      <4>3. OneSave'  BY <2>3, <4>2 DEF RoomsApart, OneSave, SavesEntry
      <4> QED  BY <4>1, <4>3
    <3>5. OneName'
      <4>1. \A s, m : GoesBy(s, m)' => GoesBy(s, m)  BY <1>1, <1>3, <2>1, RoomIdle DEF GoesBy
      <4> QED  BY <1>3, <2>3, <4>1 DEF RoomsApart, OneName
    <3> QED  BY <3>1, <3>2, <3>3, <3>4, <3>5 DEF RoomsApart
  <2> QED  BY <1>3, <2>2, <2>3 DEF RoomsInv
<1> QED  BY <1>2, <1>3 DEF WorkRooms!ChannelCreated, WorkRooms!Returns

LEMMA RoomDeleted == ASSUME RoomsInv, NEW k \in Calls, WorkRooms!ChannelDeleted(k) PROVE RoomsInv'
<1> DEFINE c == roomCalls[k]
           r == c.room
           l == roomList'
           d == [c EXCEPT !.pc = "saveclosed", !.copy = l]
           x == roomsDone.lost \cup ({home[r].sess} \ {0})
<1>1. /\ RoomType /\ c \in RoomCommands /\ c.pc = "delete" /\ r \in WorkRooms!Rooms
      /\ roomsDone \in RoomsDone /\ home[r].sess \in Nat
      /\ roomList' = [roomList EXCEPT ![r] = ""]
      /\ roomCalls' = [roomCalls EXCEPT ![k].pc = "saveclosed", ![k].copy = roomList']
      /\ home' = [home EXCEPT ![r] = WorkRooms!NoHome]
      /\ UNCHANGED <<roomFile, roomEntity, archives>>
  BY DEF RoomsInv, RoomType, InRoom, RoomCommands, Homes, WorkRooms!ChannelDeleted
<1>2. l \in RoomEntries  BY <1>1 DEF RoomType, RoomEntries
<1>3. roomCalls' = [roomCalls EXCEPT ![k] = d]  BY <1>1 DEF RoomType
<1>4. roomsDone' = [roomsDone EXCEPT !.lost = x, !.overlap = WorkRooms!SavesMeet(k)]
  BY <1>1 DEF WorkRooms!ChannelDeleted, RoomsDone
<1>5. x \in SUBSET Nat /\ roomsDone.lost \subseteq x /\ home[r].sess \in x \cup {0}
  BY <1>1 DEF RoomsDone
<1> HIDE DEF l, x
<1>10. WorkRooms!SavesMeet(k) \in BOOLEAN  BY <1>1 DEF WorkRooms!SavesMeet, RoomsDone
<1>6. /\ roomsDone' \in RoomsDone /\ roomsDone'.lost = x /\ roomsDone'.rooms = roomsDone.rooms
      /\ roomsDone'.sessions = roomsDone.sessions /\ roomsDone'.overlap = WorkRooms!SavesMeet(k)
  BY <1>1, <1>4, <1>5, <1>10 DEF RoomsDone
<1>7. d \in RoomCommands /\ d.pc = "saveclosed" /\ d.name = c.name /\ d.arch = c.arch /\ d.cmd = c.cmd
      /\ d.room = r /\ d.copy = l
  BY <1>1, <1>2 DEF RoomCommands, RoomStages
<1> HIDE DEF d
<1>8. /\ home' \in [WorkRooms!Rooms -> Homes] /\ \A q \in WorkRooms!Rooms : q # r => home'[q] = home[q]
      /\ home'[r].sess = 0
      /\ \A q \in WorkRooms!Rooms : home'[q].at = "none" => home'[q].sess = 0
  BY <1>1, RoomIdle DEF RoomType
<1>9. ASSUME NEW e \in RoomCommands, NEW p \in WorkRooms!Rooms, NEW n \in Names \cup {""},
             e = d, p = r, n = ""
      PROVE  RoomsInv'
  <2>1. /\ roomCalls' = [roomCalls EXCEPT ![k] = e]
        /\ e.name = roomCalls[k].name /\ e.arch = roomCalls[k].arch /\ e.cmd = roomCalls[k].cmd
        /\ e.room = p /\ e.copy = roomList'
    BY <1>3, <1>7, <1>9 DEF l
  <2>2. roomList' = [roomList EXCEPT ![p] = n]  BY <1>1, <1>9
  <2>3. /\ roomCalls[k].pc = "delete" /\ e.pc = "saveclosed" /\ n = ""
        /\ p = roomCalls[k].room /\ roomsDone'.rooms = roomsDone.rooms
    BY <1>1, <1>6, <1>7, <1>9
  <2>4. /\ \A q \in WorkRooms!Rooms : q # p => home'[q] = home[q]
        /\ home'[p].sess = 0 /\ home[p].sess \in roomsDone'.lost \cup {0}
    BY <1>5, <1>6, <1>8, <1>9
  <2>5. roomsDone.lost \subseteq roomsDone'.lost  BY <1>5, <1>6
  <2> HIDE DEF c, r
  <2>6. Lists(k, e, p, n)
    BY <1>1, <1>6, <1>8, <2>1, <2>2, <2>3, <2>4, <2>5 DEF Lists
  <2> QED  BY <2>6, RoomListed
<1> QED  BY <1>1, <1>7, <1>9

\* A step of a command that saves the config: the list, the archives and the homes stay.
LEMMA RoomSaves ==
  ASSUME RoomsInv, NEW k \in Calls, NEW d \in RoomCommands, roomCalls' = [roomCalls EXCEPT ![k] = d],
         SavesEntry(roomCalls[k]), UNCHANGED <<roomList, home, archives, roomsDone>>,
         \/ d.pc = "idle"
         \/ /\ InRoom(d) /\ d.name = roomCalls[k].name /\ d.room = roomCalls[k].room
            /\ d.arch = roomCalls[k].arch,
         roomFile' \in RoomFiles, roomEntity' \in RoomEntities,
         RoomsApart =>
           /\ UniqueNames(roomFile'.rooms) /\ Beyond(roomFile'.rooms) /\ FileFits'
           /\ d.pc # "idle" => CommandFits(d)'
           /\ \A r \in WorkRooms!Rooms : r \in roomEntity'.map => r <= roomsDone.rooms
           /\ \A r \in WorkRooms!Rooms : r \in roomEntity.map /\ roomList[r] # "" => r \in roomEntity'.map
  PROVE  RoomsInv'
<1> DEFINE c == roomCalls[k]
<1>1. /\ RoomType /\ c \in RoomCommands /\ c.pc # "idle" /\ InRoom(c) /\ (roomsDone.overlap \/ RoomsApart)
  BY DEF RoomsInv, RoomType, InRoom, SavesEntry
<1>2. /\ roomCalls'[k] = d /\ \A j \in Calls : j # k => roomCalls'[j] = roomCalls[j]
      /\ roomCalls' \in [Calls -> RoomCommands]
  BY <1>1 DEF RoomType
<1>3. RoomType'
  <2>1. \A j \in Calls : InRoom(roomCalls'[j]) => roomCalls'[j].room \in WorkRooms!Rooms
    BY <1>1, <1>2 DEF RoomType, InRoom
  <2> QED  BY <1>1, <1>2, <2>1 DEF RoomType, InRoom
<1>4. CASE roomsDone.overlap  BY <1>3, <1>4 DEF RoomsInv
<1>5. ASSUME RoomsApart PROVE RoomsApart'
  <2>1. CommandsApart'
    <3>1. \A i, j \in Calls : i # j /\ roomCalls[i].pc # "idle" /\ roomCalls[j].pc # "idle" =>
            /\ roomCalls[i].name # roomCalls[j].name
            /\ InRoom(roomCalls[i]) /\ InRoom(roomCalls[j]) => roomCalls[i].room # roomCalls[j].room
      BY <1>5 DEF RoomsApart, CommandsApart
    <3>2. \A j \in Calls : roomCalls'[j].pc # "idle" =>
            /\ roomCalls[j].pc # "idle" /\ roomCalls'[j].name = roomCalls[j].name
            /\ InRoom(roomCalls'[j]) => InRoom(roomCalls[j]) /\ roomCalls'[j].room = roomCalls[j].room
      BY <1>1, <1>2
    <3> SUFFICES ASSUME NEW i \in Calls, NEW j \in Calls, i # j,
                        roomCalls'[i].pc # "idle", roomCalls'[j].pc # "idle"
                 PROVE  /\ roomCalls'[i].name # roomCalls'[j].name
                        /\ InRoom(roomCalls'[i]) /\ InRoom(roomCalls'[j]) =>
                             roomCalls'[i].room # roomCalls'[j].room
      BY DEF CommandsApart, InRoom
    <3>3. /\ roomCalls[i].pc # "idle" /\ roomCalls'[i].name = roomCalls[i].name
          /\ InRoom(roomCalls'[i]) => InRoom(roomCalls[i]) /\ roomCalls'[i].room = roomCalls[i].room
      BY <3>2
    <3>4. /\ roomCalls[j].pc # "idle" /\ roomCalls'[j].name = roomCalls[j].name
          /\ InRoom(roomCalls'[j]) => InRoom(roomCalls[j]) /\ roomCalls'[j].room = roomCalls[j].room
      BY <3>2
    <3> QED  BY <3>1, <3>3, <3>4
  <2>2. OneSave'
    <3>1. \A j \in Calls : SavesEntry(roomCalls'[j]) => SavesEntry(roomCalls[j])  BY <1>2
    <3> SUFFICES ASSUME NEW i \in Calls, NEW j \in Calls, SavesEntry(roomCalls'[i]), SavesEntry(roomCalls'[j])
                 PROVE  i = j
      BY DEF OneSave, SavesEntry
    <3> QED  BY <1>5, <3>1 DEF RoomsApart, OneSave
  <2>3. CommandsFit'
    <3>1. CommandFits(d)'  BY <1>5 DEF CommandFits
    <3>2. ASSUME NEW j \in Calls, j # k PROVE CommandFits(roomCalls[j])'
      <4>1. roomCalls'[j] = roomCalls[j] /\ roomCalls[j] \in RoomCommands  BY <1>1, <1>2, <3>2 DEF RoomType
      <4>2. PICK e \in RoomCommands : roomCalls[j] = e  BY <4>1
      <4>3. CommandFits(e) /\ (InRoom(e) => e.room \in WorkRooms!Rooms)
        BY <1>1, <1>5, <4>2 DEF RoomsApart, CommandsFit, RoomType
      <4>4. e.pc # "idle" /\ InRoom(e) /\ ~SavesEntry(e) => e.room \in roomEntity'.map
        <5>1. ASSUME e.pc # "idle", InRoom(e), ~SavesEntry(e) PROVE e.room \in roomEntity'.map
          <6>1. /\ e.room \in roomEntity.map /\ roomList[e.room] = e.name /\ e.name \in Names
                /\ e.room \in WorkRooms!Rooms
            BY <4>3, <5>1 DEF CommandFits, SavesEntry, Closing
          <6> QED  BY <1>5, <6>1, RoomsAssumption
        <5> QED  BY <5>1
      <4>5. CommandFits(e)'  BY <4>3, <4>4 DEF CommandFits
      <4> QED  BY <4>1, <4>2, <4>5
    <3> QED  BY <1>2, <3>1, <3>2 DEF CommandsFit
  <2>4. ListFits'
    <3>1. \A r \in WorkRooms!Rooms : home[r].sess # 0 => r \in roomEntity'.map
      BY <1>5 DEF RoomsApart, ListFits
    <3> QED  BY <1>5, <3>1 DEF RoomsApart, ListFits, UniqueNames, Beyond
  <2>5. OneName'
    <3>1. \A s, m : GoesBy(s, m)' => GoesBy(s, m)  BY <1>1, <1>2 DEF GoesBy
    <3> QED  BY <1>5, <3>1 DEF RoomsApart, OneName
  <2>6. SessionsReached'
    BY <1>5 DEF RoomsApart, SessionsReached, WorkRooms!Reachable
  <2> QED  BY <1>5, <2>1, <2>2, <2>3, <2>4, <2>5, <2>6 DEF RoomsApart
<1> QED  BY <1>1, <1>3, <1>4, <1>5 DEF RoomsInv

\* What a command that saves becomes.
LEMMA RoomSavesTo ==
  ASSUME RoomType, NEW k \in Calls, SavesEntry(roomCalls[k]),
         NEW p \in {"write", "writeclosed", "assign"}, WorkRooms!Goes(k, p)
  PROVE  \E d \in RoomCommands :
           /\ roomCalls' = [roomCalls EXCEPT ![k] = d]
           /\ d.pc = p /\ d.name = roomCalls[k].name /\ d.room = roomCalls[k].room
           /\ d.arch = roomCalls[k].arch /\ d.cmd = roomCalls[k].cmd /\ d.copy = roomCalls[k].copy
<1> DEFINE d == [roomCalls[k] EXCEPT !.pc = p]
<1>1. roomCalls[k] \in RoomCommands  BY DEF RoomType
<1>2. roomCalls' = [roomCalls EXCEPT ![k] = d]  BY DEF WorkRooms!Goes, RoomType
<1>3. /\ d \in RoomCommands /\ d.pc = p /\ d.name = roomCalls[k].name /\ d.room = roomCalls[k].room
      /\ d.arch = roomCalls[k].arch /\ d.cmd = roomCalls[k].cmd /\ d.copy = roomCalls[k].copy
  BY <1>1 DEF RoomCommands, RoomStages
<1> QED  BY <1>2, <1>3

LEMMA RoomSaved ==
  ASSUME RoomsInv, NEW k \in Calls,
         WorkRooms!ConfigTruncated(k) \/ WorkRooms!ConfigSaved(k) \/ WorkRooms!ConfigFails(k)
  PROVE  RoomsInv'
<1> DEFINE c == roomCalls[k]
<1>1. /\ RoomType /\ c \in RoomCommands /\ SavesEntry(c) /\ c.copy \in RoomEntries /\ c.room \in WorkRooms!Rooms
      /\ UNCHANGED <<roomList, home, archives, roomsDone>>
  BY DEF RoomsInv, RoomType, InRoom, RoomCommands, SavesEntry, WorkRooms!ConfigTruncated, WorkRooms!ConfigSaved,
         WorkRooms!ConfigFails, WorkRooms!Saves
<1>2. RoomsApart => CommandFits(c) /\ c.pc # "idle"  BY <1>1 DEF RoomsApart, CommandsFit, SavesEntry
<1>3. CASE WorkRooms!ConfigTruncated(k)
  <2>1. PICK p \in {"write", "writeclosed"} : WorkRooms!Goes(k, p) /\ (p = "write" <=> c.pc = "save")
                                             /\ c.pc \in {"save", "saveclosed"}
    BY <1>3 DEF WorkRooms!ConfigTruncated
  <2>2. PICK d \in RoomCommands :
          /\ roomCalls' = [roomCalls EXCEPT ![k] = d]
          /\ d.pc = p /\ d.name = c.name /\ d.room = c.room /\ d.arch = c.arch /\ d.cmd = c.cmd /\ d.copy = c.copy
    BY <1>1, <2>1, RoomSavesTo
  <2>3. /\ roomFile' = [rooms |-> WorkRooms!Empty, torn |-> TRUE] /\ UNCHANGED roomEntity
        /\ roomFile' \in RoomFiles /\ \A r \in WorkRooms!Rooms : roomFile'.rooms[r] = ""
    BY <1>3 DEF WorkRooms!ConfigTruncated, WorkRooms!Empty, RoomFiles, RoomEntries
  <2>4. ASSUME RoomsApart
        PROVE  /\ UniqueNames(roomFile'.rooms) /\ Beyond(roomFile'.rooms) /\ FileFits'
               /\ CommandFits(d)'
               /\ \A r \in WorkRooms!Rooms : r \in roomEntity'.map => r <= roomsDone.rooms
    <3>1. UniqueNames(roomFile'.rooms) /\ Beyond(roomFile'.rooms) /\ FileFits'
      BY <2>3 DEF UniqueNames, Beyond, FileFits
    <3>2. CommandFits(d)'
      BY <1>1, <1>2, <2>1, <2>2, <2>4 DEF CommandFits, InRoom, SavesEntry, Closing
    <3>3. \A r \in WorkRooms!Rooms : r \in roomEntity'.map => r <= roomsDone.rooms
      BY <2>3, <2>4 DEF RoomsApart, ListFits
    <3> QED  BY <3>1, <3>2, <3>3
  <2>5. InRoom(d) /\ roomEntity' \in RoomEntities  BY <1>1, <2>2, <2>3 DEF InRoom, RoomType
  <2> QED  BY <1>1, <2>2, <2>3, <2>4, <2>5, RoomSaves
<1>4. CASE WorkRooms!ConfigSaved(k)
  <2>1. PICK d \in RoomCommands :
          /\ roomCalls' = [roomCalls EXCEPT ![k] = d]
          /\ \/ d.pc = "idle"
             \/ /\ c.pc = "write" /\ d.pc = "assign" /\ d.name = c.name /\ d.room = c.room
                /\ d.arch = c.arch /\ d.cmd = c.cmd
    <3>1. CASE c.pc = "write" /\ WorkRooms!Goes(k, "assign")  BY <1>1, <3>1, RoomSavesTo
    <3>2. CASE WorkRooms!Returns(k)  BY <3>2, RoomIdle DEF WorkRooms!Returns
    <3> QED  BY <1>4, <3>1, <3>2 DEF WorkRooms!ConfigSaved
  <2>2. /\ roomFile' = [rooms |-> c.copy, torn |-> FALSE] /\ roomFile'.rooms = c.copy /\ ~roomFile'.torn
        /\ roomEntity' = [roomEntity EXCEPT !.map = {r \in WorkRooms!Rooms : roomList[r] # ""}]
    BY <1>4 DEF WorkRooms!ConfigSaved
  <2>3. /\ roomFile' \in RoomFiles /\ roomEntity' \in RoomEntities
        /\ \A r \in WorkRooms!Rooms : r \in roomEntity'.map <=> roomList[r] # ""
    BY <1>1, <2>2 DEF RoomType, RoomFiles, RoomEntities
  <2>4. ASSUME RoomsApart
        PROVE  /\ UniqueNames(roomFile'.rooms) /\ Beyond(roomFile'.rooms) /\ FileFits'
               /\ d.pc # "idle" => CommandFits(d)'
               /\ \A r \in WorkRooms!Rooms : r \in roomEntity'.map => r <= roomsDone.rooms
    <3>1. c.copy = roomList /\ UniqueNames(roomList) /\ Beyond(roomList)
      BY <1>1, <1>2, <2>4 DEF CommandFits, RoomsApart, ListFits
    <3>2. FileFits'  BY <1>1, <2>2, <3>1 DEF FileFits
    <3>3. ASSUME d.pc # "idle" PROVE CommandFits(d)'
      <4>1. roomList[c.room] = c.name /\ c.name \in Names /\ c.name # ""
        BY <1>1, <1>2, <2>1, <2>4, <3>3, RoomsAssumption DEF CommandFits, InRoom, Closing
      <4>2. c.room \in roomEntity'.map  BY <1>1, <2>3, <4>1
      <4> QED
        BY <1>1, <1>2, <2>1, <2>4, <3>3, <4>1, <4>2 DEF CommandFits, InRoom, SavesEntry, Closing
    <3>4. ASSUME NEW r \in WorkRooms!Rooms, r \in roomEntity'.map PROVE r <= roomsDone.rooms
      <4>1. ~(r > roomsDone.rooms)  BY <2>3, <3>1, <3>4 DEF Beyond
      <4>2. r \in Nat /\ roomsDone.rooms \in Nat  BY <1>1, RoomNumbers DEF RoomType, RoomsDone
      <4> QED  BY <4>1, <4>2
    <3> QED  BY <2>2, <3>1, <3>2, <3>3, <3>4
  <2>5. d.pc = "assign" => InRoom(d)  BY DEF InRoom
  <2> QED  BY <1>1, <2>1, <2>3, <2>4, <2>5, RoomSaves
<1>5. CASE WorkRooms!ConfigFails(k)
  <2>1. roomCalls' = [roomCalls EXCEPT ![k] = WorkRooms!Idle] /\ UNCHANGED <<roomFile, roomEntity>>
    BY <1>5 DEF WorkRooms!ConfigFails, WorkRooms!Returns
  <2>2. roomFile' \in RoomFiles /\ roomEntity' \in RoomEntities  BY <1>1, <2>1 DEF RoomType
  <2>3. RoomsApart => /\ UniqueNames(roomFile'.rooms) /\ Beyond(roomFile'.rooms) /\ FileFits'
                      /\ \A r \in WorkRooms!Rooms : r \in roomEntity'.map => r <= roomsDone.rooms
    BY <1>1, <2>1 DEF RoomsApart, ListFits, FileFits
  <2> QED  BY <1>1, <2>1, <2>2, <2>3, RoomIdle, RoomSaves
<1> QED  BY <1>3, <1>4, <1>5

\* The session of a room's home changes hands, or a new one starts where none was.
LEMMA RoomHome ==
  ASSUME RoomsInv, NEW r \in WorkRooms!Rooms, NEW h \in Homes, home' = [home EXCEPT ![r] = h],
         h.at = "none" => h.sess = 0,
         \/ h.sess = home[r].sess /\ UNCHANGED roomsDone
         \/ /\ home[r].sess = 0 /\ WorkRooms!Mapped(r) /\ h.sess = roomsDone.sessions + 1
            /\ roomsDone' = [roomsDone EXCEPT !.sessions = h.sess],
         UNCHANGED <<roomList, roomFile, roomEntity, archives, roomCalls>>
  PROVE  RoomsInv'
<1>1. /\ RoomType /\ (roomsDone.overlap \/ RoomsApart) /\ roomsDone \in RoomsDone
      /\ roomsDone.sessions \in Nat /\ home[r] \in Homes
  BY DEF RoomsInv, RoomType, RoomsDone
<1>2. /\ home'[r] = h /\ \A q \in WorkRooms!Rooms : q # r => home'[q] = home[q]
      /\ home' \in [WorkRooms!Rooms -> Homes]
  BY <1>1 DEF RoomType
<1>3. h.sess \in Nat  BY DEF Homes
<1>4. /\ roomsDone' \in RoomsDone /\ roomsDone'.lost = roomsDone.lost /\ roomsDone'.rooms = roomsDone.rooms
      /\ roomsDone'.overlap = roomsDone.overlap
      /\ roomsDone'.sessions \in {roomsDone.sessions, h.sess}
      /\ roomsDone'.sessions = roomsDone.sessions \/ home[r].sess = 0
  BY <1>1, <1>3 DEF RoomsDone
<1>5. /\ roomsDone'.sessions \in Nat /\ roomsDone.sessions <= roomsDone'.sessions
      /\ h.sess # home[r].sess => h.sess = roomsDone.sessions + 1 /\ roomsDone'.sessions = h.sess
  <2>1. CASE h.sess = home[r].sess /\ UNCHANGED roomsDone  BY <1>1, <2>1, Numbers
  <2>2. CASE /\ h.sess = roomsDone.sessions + 1
             /\ roomsDone' = [roomsDone EXCEPT !.sessions = h.sess]
    <3>1. roomsDone'.sessions = h.sess  BY <1>1, <2>2 DEF RoomsDone
    <3>2. roomsDone.sessions <= roomsDone.sessions + 1  BY <1>1
    <3> QED  BY <1>3, <2>2, <3>1, <3>2
  <2> QED  BY <2>1, <2>2
<1>6. RoomType'
  <2>1. \A q \in WorkRooms!Rooms : home'[q].at = "none" => home'[q].sess = 0  BY <1>1, <1>2 DEF RoomType
  <2> QED  BY <1>1, <1>2, <1>4, <2>1 DEF RoomType
<1>7. ASSUME RoomsApart PROVE RoomsApart'
  <2>1. CommandsApart' /\ FileFits' /\ OneSave'
    BY <1>7 DEF RoomsApart, CommandsApart, FileFits, OneSave, SavesEntry
  <2>2. h.sess # home[r].sess => home[r].sess = 0 /\ roomList[r] # "" /\ r \in roomEntity.map
    BY DEF WorkRooms!Mapped
  <2>3. CommandsFit'
    <3>1. ASSUME NEW k \in Calls, NEW e \in RoomCommands, roomCalls[k] = e, e.pc # "idle"
          PROVE  CommandFits(e)'
      <4>1. CommandFits(e) /\ (InRoom(e) => e.room \in WorkRooms!Rooms)
        BY <1>1, <1>7, <3>1 DEF RoomsApart, CommandsFit, RoomType
      <4>3. e.pc = "unlink" => e.arch.sess \in roomsDone'.lost \cup {0, home'[e.room].sess}
        <5>1. ASSUME e.pc = "unlink" PROVE e.arch.sess \in roomsDone'.lost \cup {0, home'[e.room].sess}
          <6>1. e.arch.sess \in roomsDone.lost \cup {0, home[e.room].sess} /\ e.room \in WorkRooms!Rooms
            BY <4>1, <5>1 DEF CommandFits, InRoom
          <6>2. home'[e.room].sess = home[e.room].sess \/ home[e.room].sess = 0
            BY <1>2, <2>2, <6>1
          <6> QED  BY <1>4, <6>1, <6>2
        <5> QED  BY <5>1
      <4>4. e.arch.sess <= roomsDone'.sessions
        <5>1. e.arch.sess <= roomsDone.sessions  BY <3>1, <4>1 DEF CommandFits
        <5>2. e.arch \in RoomArchives  BY DEF RoomCommands
        <5>3. e.arch.sess \in Nat  BY <5>2 DEF RoomArchives
        <5> QED  BY <1>1, <1>5, <5>1, <5>3, AtMost
      <4> QED  BY <1>4, <3>1, <4>1, <4>3, <4>4 DEF CommandFits
    <3>2. ASSUME NEW k \in Calls PROVE CommandFits(roomCalls[k])'
      <4>1. roomCalls'[k] = roomCalls[k] /\ roomCalls[k] \in RoomCommands  BY <1>1 DEF RoomType
      <4>2. PICK e \in RoomCommands : roomCalls[k] = e  BY <4>1
      <4>3. CommandFits(e)'
        <5>1. CASE e.pc = "idle"  BY <5>1 DEF CommandFits
        <5> QED  BY <3>1, <4>2, <5>1
      <4> QED  BY <4>1, <4>2, <4>3
    <3> QED  BY <3>2 DEF CommandsFit
  <2>4. ListFits'
    <3>1. ASSUME NEW q \in WorkRooms!Rooms
          PROVE  home'[q].sess <= roomsDone'.sessions /\ (home'[q].sess # 0 => roomList[q] # "")
      <4>1. home[q].sess <= roomsDone.sessions /\ home[q].sess \in Nat
            /\ (home[q].sess # 0 => roomList[q] # "")
        BY <1>1, <1>7 DEF RoomsApart, ListFits, RoomType, Homes
      <4>2. home[q].sess <= roomsDone'.sessions  BY <1>1, <1>5, <4>1, AtMost
      <4>3. CASE home'[q].sess = home[q].sess  BY <4>1, <4>2, <4>3
      <4>4. CASE home'[q].sess # home[q].sess
        <5>1. q = r /\ h.sess # home[r].sess  BY <1>2, <4>4
        <5>2. home'[q].sess = roomsDone'.sessions /\ roomList[q] # ""  BY <1>2, <1>5, <2>2, <5>1
        <5> QED  BY <1>5, <5>2, Numbers
      <4> QED  BY <4>3, <4>4
    <3>2. ASSUME NEW a \in archives PROVE a.sess <= roomsDone'.sessions
      <4>1. a.sess \in Nat /\ a.sess <= roomsDone.sessions
        BY <1>1, <1>7 DEF RoomsApart, ListFits, RoomType, RoomArchives
      <4> QED  BY <1>1, <1>5, <4>1, AtMost
    <3>3. \A q \in WorkRooms!Rooms : home'[q].sess # 0 => q \in roomEntity.map
      BY <1>2, <1>7, <2>2 DEF RoomsApart, ListFits
    <3> QED  BY <1>4, <1>7, <3>1, <3>2, <3>3 DEF RoomsApart, ListFits, UniqueNames, Beyond
  <2>5. ASSUME NEW s \in Nat, s # 0, NEW m \in Names, GoesBy(s, m)'
        PROVE  GoesBy(s, m) \/ (s = roomsDone.sessions + 1 /\ m = roomList[r])
    <3>1. CASE \E a \in archives : a.sess = s /\ a.name = m  BY <3>1 DEF GoesBy
    <3>2. CASE \E q \in WorkRooms!Rooms : home'[q].sess = s /\ roomList[q] = m
      <4>1. PICK q \in WorkRooms!Rooms : home'[q].sess = s /\ roomList[q] = m  BY <3>2
      <4>2. CASE home'[q].sess = home[q].sess  BY <4>1, <4>2 DEF GoesBy
      <4>3. CASE home'[q].sess # home[q].sess
        <5>1. q = r /\ h.sess # home[r].sess /\ h.sess = s  BY <1>2, <4>1, <4>3
        <5> QED  BY <1>5, <4>1, <5>1
      <4> QED  BY <4>2, <4>3
    <3>3. CASE \E k \in Calls : roomCalls[k].pc # "idle" /\ roomCalls[k].arch.sess = s /\ roomCalls[k].name = m
      BY <3>3 DEF GoesBy
    <3> QED  BY <2>5, <3>1, <3>2, <3>3 DEF GoesBy
  <2>6. OneName'
    <3> SUFFICES ASSUME NEW s \in 1 .. roomsDone'.sessions, NEW m \in Names, NEW n \in Names,
                        GoesBy(s, m)', GoesBy(s, n)'
                 PROVE  m = n
      BY DEF OneName
    <3>1. s \in Nat /\ s # 0  BY <1>5, Numbers
    <3>2. CASE s = roomsDone.sessions + 1
      <4>1. ~(s <= roomsDone.sessions)  BY <1>1, <3>2
      <4>2. ~GoesBy(s, m) /\ ~GoesBy(s, n)  BY <1>1, <1>7, <3>1, <4>1, NamesOfSessions
      <4> QED  BY <2>5, <3>1, <4>2
    <3>3. CASE s # roomsDone.sessions + 1
      <4>1. GoesBy(s, m) /\ GoesBy(s, n)  BY <2>5, <3>1, <3>3
      <4>2. s <= roomsDone.sessions  BY <1>1, <1>7, <3>1, <4>1, NamesOfSessions
      <4>3. s \in 1 .. roomsDone.sessions  BY <1>1, <3>1, <4>2
      <4> QED  BY <1>7, <4>1, <4>3 DEF RoomsApart, OneName
    <3> QED  BY <3>2, <3>3
  <2>7. SessionsReached'
    <3> SUFFICES ASSUME NEW s \in 1 .. roomsDone'.sessions, s \notin roomsDone.lost
                 PROVE  \/ \E a \in archives : a.sess = s
                        \/ \E q \in WorkRooms!Rooms : home'[q].sess = s /\ roomList[q] # ""
      BY <1>4 DEF SessionsReached, WorkRooms!Reachable
    <3>1. s \in Nat /\ s # 0  BY <1>5, Numbers
    <3>2. CASE s \in 1 .. roomsDone.sessions
      <4>1. WorkRooms!Reachable(s)  BY <1>7, <3>2 DEF RoomsApart, SessionsReached
      <4>2. ASSUME NEW q \in WorkRooms!Rooms, home[q].sess = s PROVE home'[q].sess = s
        BY <1>2, <2>2, <3>1, <4>2
      <4> QED  BY <4>1, <4>2 DEF WorkRooms!Reachable
    <3>3. CASE s \notin 1 .. roomsDone.sessions
      <4>1. roomsDone'.sessions # roomsDone.sessions  BY <3>3
      <4>2. h.sess # home[r].sess
        <5>1. CASE h.sess = home[r].sess /\ UNCHANGED roomsDone  BY <4>1, <5>1
        <5>2. CASE home[r].sess = 0 /\ h.sess = roomsDone.sessions + 1
          <6>1. roomsDone.sessions + 1 # 0  BY <1>1
          <6> QED  BY <5>2, <6>1
        <5> QED  BY <5>1, <5>2
      <4>3. s = h.sess
        <5>1. h.sess = roomsDone.sessions + 1 /\ roomsDone'.sessions = h.sess  BY <1>5, <4>2
        <5>2. \A a \in Nat : \A x \in 1 .. (a + 1) : x \in 1 .. a \/ x = a + 1  OBVIOUS
        <5> QED  BY <1>1, <3>3, <5>1, <5>2
      <4> QED  BY <1>2, <2>2, <4>2, <4>3
    <3> QED  BY <3>2, <3>3
  <2> QED  BY <2>1, <2>3, <2>4, <2>6, <2>7 DEF RoomsApart
<1> QED  BY <1>1, <1>4, <1>6, <1>7 DEF RoomsInv

LEMMA RoomVisited ==
  ASSUME RoomsInv, NEW r \in WorkRooms!Rooms, WorkRooms!Evicted(r) \/ WorkRooms!Message(r)
  PROVE  RoomsInv'
<1>1. /\ RoomType /\ home[r] \in Homes /\ home[r].sess \in Nat /\ roomsDone.sessions + 1 \in Nat
      /\ home[r].at = "none" => home[r].sess = 0
      /\ UNCHANGED <<roomList, roomFile, roomEntity, archives, roomCalls>>
  BY DEF RoomsInv, RoomType, RoomsDone, Homes, WorkRooms!Evicted, WorkRooms!Message
<1>2. ASSUME NEW a \in {"bot", "kept"}, home' = [home EXCEPT ![r].at = a], UNCHANGED roomsDone
      PROVE  RoomsInv'
  <2> DEFINE h == [home[r] EXCEPT !.at = a]
  <2>1. home' = [home EXCEPT ![r] = h]  BY <1>1, <1>2 DEF RoomType
  <2>2. h \in Homes /\ h.sess = home[r].sess /\ h.at = a  BY <1>1 DEF Homes
  <2> HIDE DEF h
  <2>3. h.at = "none" => h.sess = 0  BY <2>2
  <2> QED  BY <1>1, <1>2, <2>1, <2>2, <2>3, RoomHome
<1>3. ASSUME home[r].at = "none", WorkRooms!Mapped(r), WorkRooms!StartsAnew(r) PROVE RoomsInv'
  <2> DEFINE s == roomsDone.sessions + 1
             h == [sess |-> s, at |-> "bot"]
  <2>1. home' = [home EXCEPT ![r] = h] /\ roomsDone' = [roomsDone EXCEPT !.sessions = s]
    BY <1>3 DEF WorkRooms!StartsAnew, WorkRooms!Here, WorkRooms!NewSession
  <2>2. s \in Nat /\ s = roomsDone.sessions + 1  BY <1>1
  <2> HIDE DEF s
  <2>3. h \in Homes /\ h.sess = s /\ h.at = "bot"  BY <2>2 DEF Homes
  <2> HIDE DEF h
  <2>4. h.at = "none" => h.sess = 0  BY <2>3
  <2> QED  BY <1>1, <1>3, <2>1, <2>2, <2>3, <2>4, RoomHome
<1> QED  BY <1>2, <1>3 DEF WorkRooms!Evicted, WorkRooms!Message

\* The daemon restarts: the list is read back from the disk.
LEMMA RoomsRestart == ASSUME RoomsInv, WorkRooms!DaemonRestarts PROVE RoomsInv'
<1>1. /\ RoomType /\ (roomsDone.overlap \/ RoomsApart) /\ roomsDone \in RoomsDone
      /\ roomCalls' = [k \in Calls |-> WorkRooms!Idle] /\ roomList' = roomFile.rooms
      /\ roomEntity' = [known |-> ~roomFile.torn, map |-> {r \in WorkRooms!Rooms : roomFile.rooms[r] # ""}]
      /\ UNCHANGED <<roomFile, archives>>
  BY DEF RoomsInv, RoomType, WorkRooms!DaemonRestarts
<1>2. /\ home' \in [WorkRooms!Rooms -> Homes]
      /\ \A r \in WorkRooms!Rooms : home'[r].at = "none" => home'[r].sess = 0
      /\ roomFile.torn => \A r \in WorkRooms!Rooms : home'[r].sess = 0
      /\ ~roomFile.torn => \A r \in WorkRooms!Rooms : home'[r].sess = home[r].sess
  <2>1. CASE roomFile.torn
    <3>1. home' = [r \in WorkRooms!Rooms |-> WorkRooms!NoHome]  BY <2>1 DEF WorkRooms!DaemonRestarts
    <3> QED  BY <2>1, <3>1, RoomIdle
  <2>2. CASE ~roomFile.torn
    <3>1. home' = [r \in WorkRooms!Rooms |-> IF home[r].at = "bot" THEN [home[r] EXCEPT !.at = "kept"] ELSE home[r]]
      BY <2>2 DEF WorkRooms!DaemonRestarts
    <3>2. ASSUME NEW r \in WorkRooms!Rooms
          PROVE  /\ home'[r] \in Homes /\ home'[r].sess = home[r].sess
                 /\ home'[r].at = "none" => home'[r].sess = 0
      <4>1. home[r] \in Homes /\ (home[r].at = "none" => home[r].sess = 0)  BY <1>1 DEF RoomType
      <4>2. CASE home[r].at = "bot"
        <5>1. home'[r] = [home[r] EXCEPT !.at = "kept"]  BY <3>1, <4>2
        <5> QED  BY <4>1, <5>1 DEF Homes
      <4>3. CASE home[r].at # "bot"
        <5>1. home'[r] = home[r]  BY <3>1, <4>3
        <5> QED  BY <4>1, <5>1
      <4> QED  BY <4>2, <4>3
    <3>3. home' = [r \in WorkRooms!Rooms |-> home'[r]]  BY <3>1
    <3>4. home' \in [WorkRooms!Rooms -> Homes]  BY <3>2, <3>3
    <3> QED  BY <2>2, <3>2, <3>4
  <2> QED  BY <2>1, <2>2
<1>3. \A k \in Calls : roomCalls'[k] = WorkRooms!Idle /\ roomCalls'[k].pc = "idle"  BY <1>1, RoomIdle
<1>6. /\ roomsDone' \in RoomsDone /\ roomsDone'.rooms = roomsDone.rooms
      /\ roomsDone'.sessions = roomsDone.sessions /\ roomsDone'.overlap = roomsDone.overlap
      /\ roomsDone.lost \subseteq roomsDone'.lost
      /\ roomFile.torn => \A r \in WorkRooms!Rooms : home[r].sess \in roomsDone'.lost \cup {0}
  <2>1. CASE roomFile.torn
    <3> DEFINE x == roomsDone.lost \cup ({home[r].sess : r \in WorkRooms!Rooms} \ {0})
    <3>1. roomsDone' = [roomsDone EXCEPT !.lost = x]
      BY <1>1, <2>1 DEF WorkRooms!DaemonRestarts, WorkRooms!Loses, RoomsDone
    <3>2. \A r \in WorkRooms!Rooms : home[r].sess \in Nat  BY <1>1 DEF RoomType, Homes
    <3>3. x \in SUBSET Nat /\ roomsDone.lost \subseteq x
          /\ \A r \in WorkRooms!Rooms : home[r].sess \in x \cup {0}
      BY <1>1, <3>2 DEF RoomsDone
    <3> HIDE DEF x
    <3> QED  BY <1>1, <3>1, <3>3 DEF RoomsDone
  <2>2. CASE ~roomFile.torn
    <3>1. UNCHANGED roomsDone  BY <2>2 DEF WorkRooms!DaemonRestarts
    <3> QED  BY <1>1, <2>2, <3>1
  <2> QED  BY <2>1, <2>2
<1>7. /\ roomFile.rooms \in RoomEntries /\ roomEntity' \in RoomEntities
      /\ \A r \in WorkRooms!Rooms : r \in roomEntity'.map <=> roomFile.rooms[r] # ""
  BY <1>1 DEF RoomType, RoomFiles, RoomEntities
<1>4. RoomType'
  BY <1>1, <1>2, <1>3, <1>6, <1>7, RoomIdle DEF RoomType, InRoom
<1>5. ASSUME RoomsApart PROVE RoomsApart'
  <2>1. CommandsApart' /\ OneSave' /\ CommandsFit' /\ FileFits'
    <3>1. FileFits'  BY <1>1 DEF FileFits
    <3> QED  BY <1>3, <3>1 DEF CommandsApart, OneSave, SavesEntry, CommandsFit, CommandFits
  <2>2. ASSUME NEW r \in WorkRooms!Rooms, home'[r].sess # 0
        PROVE  /\ ~roomFile.torn /\ home'[r].sess = home[r].sess /\ roomFile.rooms[r] = roomList[r]
               /\ roomList[r] # ""
    <3>1. ~roomFile.torn /\ home'[r].sess = home[r].sess  BY <1>2, <2>2
    <3>2. roomList[r] # "" /\ r \in roomEntity.map  BY <1>5, <2>2, <3>1 DEF RoomsApart, ListFits
    <3> QED  BY <1>5, <3>1, <3>2 DEF RoomsApart, FileFits
  <2>3. ListFits'
    <3>1. UniqueNames(roomFile.rooms) /\ Beyond(roomFile.rooms)'
      <4>1. PICK f : f = roomFile.rooms  OBVIOUS
      <4>2. roomFile'.rooms = f  BY <1>1, <4>1
      <4>3. UniqueNames(f) /\ Beyond(f)  BY <1>5, <4>1 DEF RoomsApart, ListFits
      <4>4. Beyond(f)'  BY <1>6, <4>3 DEF Beyond
      <4> QED  BY <4>1, <4>2, <4>3, <4>4 DEF Beyond
    <3>2. roomsDone.sessions \in Nat /\ roomsDone.rooms \in Nat  BY <1>1 DEF RoomsDone
    <3>3. ASSUME NEW r \in WorkRooms!Rooms
          PROVE  /\ home'[r].sess <= roomsDone.sessions /\ (home'[r].sess # 0 => roomFile.rooms[r] # "")
                 /\ home'[r].sess # 0 => r \in roomEntity'.map
                 /\ r \in roomEntity'.map => r <= roomsDone.rooms
      <4>1. home'[r].sess <= roomsDone.sessions
        <5>1. CASE home'[r].sess = 0  BY <3>2, <5>1, Numbers
        <5>2. CASE home'[r].sess # 0  BY <1>5, <2>2, <5>2 DEF RoomsApart, ListFits
        <5> QED  BY <5>1, <5>2
      <4>2. home'[r].sess # 0 => roomFile.rooms[r] # "" /\ r \in roomEntity'.map  BY <1>7, <2>2
      <4>3. r \in roomEntity'.map => ~(r > roomsDone.rooms)
        BY <1>5, <1>7 DEF RoomsApart, ListFits, Beyond
      <4>4. r \in Nat  BY RoomNumbers
      <4>5. ~(r > roomsDone.rooms) => r <= roomsDone.rooms  BY <3>2, <4>4
      <4> QED  BY <4>1, <4>2, <4>3, <4>5
    <3>4. \A a \in archives : a.sess <= roomsDone.sessions  BY <1>5 DEF RoomsApart, ListFits
    <3> QED  BY <1>1, <1>6, <3>1, <3>3, <3>4 DEF ListFits, UniqueNames
  <2>4. OneName'
    <3>1. ASSUME NEW s \in 1 .. roomsDone.sessions, NEW m \in Names, GoesBy(s, m)' PROVE GoesBy(s, m)
      <4>1. s # 0  BY <1>1, Numbers DEF RoomsDone
      <4>2. CASE \E a \in archives : a.sess = s /\ a.name = m  BY <4>2 DEF GoesBy
      <4>3. CASE \E q \in WorkRooms!Rooms : home'[q].sess = s /\ roomList'[q] = m
        <5>1. PICK q \in WorkRooms!Rooms : home'[q].sess = s /\ roomList'[q] = m  BY <4>3
        <5>2. home[q].sess = s /\ roomList[q] = m  BY <1>1, <2>2, <4>1, <5>1
        <5> QED  BY <5>2 DEF GoesBy
      <4> QED  BY <1>1, <1>3, <3>1, <4>2, <4>3 DEF GoesBy
    <3> QED  BY <1>5, <1>6, <3>1 DEF RoomsApart, OneName
  <2>5. SessionsReached'
    <3> SUFFICES ASSUME NEW s \in 1 .. roomsDone.sessions, s \notin roomsDone'.lost
                 PROVE  \/ \E a \in archives : a.sess = s
                        \/ \E q \in WorkRooms!Rooms : home'[q].sess = s /\ roomFile.rooms[q] # ""
      BY <1>1, <1>6 DEF SessionsReached, WorkRooms!Reachable
    <3>1. s # 0 /\ s \notin roomsDone.lost  BY <1>1, <1>6, Numbers DEF RoomsDone
    <3>2. WorkRooms!Reachable(s)  BY <1>5, <3>1 DEF RoomsApart, SessionsReached
    <3>3. ASSUME NEW q \in WorkRooms!Rooms, home[q].sess = s, roomList[q] # ""
          PROVE  home'[q].sess = s /\ roomFile.rooms[q] # ""
      <4>1. ~roomFile.torn  BY <1>6, <3>1, <3>3
      <4>2. home'[q].sess = s  BY <1>2, <3>3, <4>1
      <4> QED  BY <2>2, <3>1, <4>2
    <3> QED  BY <3>2, <3>3 DEF WorkRooms!Reachable
  <2> QED  BY <2>1, <2>3, <2>4, <2>5 DEF RoomsApart
<1> QED  BY <1>1, <1>4, <1>5, <1>6 DEF RoomsInv

LEMMA RoomsStep == ASSUME RoomsInv, [WorkRooms!Next]_(WorkRooms!roomVars) PROVE RoomsInv'
<1>1. CASE UNCHANGED WorkRooms!roomVars
  <2>1. UNCHANGED <<roomList, roomFile, roomEntity, home, archives, roomCalls, roomsDone>>
    BY <1>1 DEF WorkRooms!roomVars
  <2>2. RoomType' <=> RoomType  BY <2>1 DEF RoomType
  <2>3. (CommandsApart' <=> CommandsApart) /\ (OneSave' <=> OneSave)
    BY <2>1 DEF CommandsApart, OneSave, SavesEntry
  <2>4. CommandsFit' <=> CommandsFit
    BY <2>1 DEF CommandsFit, CommandFits, UniqueNames, Beyond
  <2>5. ListFits' <=> ListFits  BY <2>1 DEF ListFits, UniqueNames, Beyond
  <2>6. FileFits' <=> FileFits  BY <2>1 DEF FileFits
  <2>7. OneName' <=> OneName  BY <2>1 DEF OneName, GoesBy
  <2>8. SessionsReached' <=> SessionsReached  BY <2>1 DEF SessionsReached, WorkRooms!Reachable
  <2>9. RoomsApart' <=> RoomsApart
    BY <2>3, <2>4, <2>5, <2>6, <2>7, <2>8 DEF RoomsApart
  <2> QED  BY <2>1, <2>2, <2>9 DEF RoomsInv
<1>2. ASSUME NEW k \in Calls,
             \/ \E n \in Names : WorkRooms!RoomBegins(k, n) \/ WorkRooms!ResumeBegins(k, n)
             \/ WorkRooms!ChannelCreated(k) \/ WorkRooms!ConfigTruncated(k) \/ WorkRooms!ConfigSaved(k)
             \/ WorkRooms!ConfigFails(k) \/ WorkRooms!RoomAssigned(k) \/ WorkRooms!ArchiveConsumed(k)
             \/ \E r \in WorkRooms!Rooms : WorkRooms!CloseBegins(k, r)
             \/ WorkRooms!ArchiveWritten(k) \/ WorkRooms!RoomReleased(k) \/ WorkRooms!ChannelDeleted(k)
      PROVE  RoomsInv'
  BY <1>2, RoomCommandsBegin, RoomCreated, RoomSaved, RoomAssigns, RoomArchived, RoomReleases, RoomDeleted
<1> QED  BY <1>1, <1>2, RoomVisited, RoomsRestart DEF WorkRooms!Next

LEMMA RoomsSafe == RoomsInv => SessionsKeptOnce
<1> SUFFICES ASSUME RoomsApart, RoomType
             PROVE  /\ \A s \in 1 .. roomsDone.sessions : s \in roomsDone.lost \/ WorkRooms!Reachable(s)
                    /\ \A q, r \in WorkRooms!Rooms : home[q].sess # 0 /\ home[q].sess = home[r].sess => q = r
  BY DEF RoomsInv, SessionsKeptOnce, WorkRooms!SessionsKeptOnce
<1>1. ASSUME NEW q \in WorkRooms!Rooms, NEW r \in WorkRooms!Rooms,
             home[q].sess # 0, home[q].sess = home[r].sess
      PROVE  q = r
  <2>1. /\ roomList[q] # "" /\ roomList[r] # "" /\ home[q].sess <= roomsDone.sessions
    BY <1>1 DEF RoomsApart, ListFits
  <2>2. home[q].sess \in Nat /\ roomsDone.sessions \in Nat /\ roomList[q] \in Names /\ roomList[r] \in Names
    BY <2>1 DEF RoomType, Homes, RoomsDone, RoomEntries
  <2>3. home[q].sess \in 1 .. roomsDone.sessions
    <3>1. \A a, b \in Nat : a # 0 /\ a <= b => a \in 1 .. b  OBVIOUS
    <3> QED  BY <1>1, <2>1, <2>2, <3>1
  <2>4. GoesBy(home[q].sess, roomList[q]) /\ GoesBy(home[q].sess, roomList[r])  BY <1>1 DEF GoesBy
  <2>5. roomList[q] = roomList[r]  BY <2>2, <2>3, <2>4 DEF RoomsApart, OneName
  <2> QED  BY <2>1, <2>5 DEF RoomsApart, ListFits, UniqueNames
<1> QED  BY <1>1 DEF RoomsApart, SessionsReached

\* However the room commands are cut at their awaits, their saves fail and the daemon
\* restarts: without commands for one name or saves of the config that overlap, every
\* session is archived, at home in a listed room or given up with a reason (closed without
\* a bot, resumed without a bot, forgotten with a torn config), and in one room only
\* (discord.ts, /room, /close and /resume; write_yaml).
THEOREM RoomsKeepTheirSessions == WorkRooms!Spec => []SessionsKeptOnce
<1>1. WorkRooms!Spec => []RoomsInv  BY RoomsInit, RoomsStep, PTL DEF WorkRooms!Spec
<1> QED  BY <1>1, RoomsSafe, PTL

--------------------------------------------------------------------------------
(* Sessions spawned on failures: FixSpawners.                                        *)

RunFiles == [Runs -> [tries: Nat, young: BOOLEAN]]
PullFiles == [Pulls -> Nat]
FixCalls == [pc: {"free", "token", "spawn"}, key: Fix!Keys \cup {"none"}, prs: PullFiles, runs: RunFiles]
FixCounts == [spawned: [Fix!Keys -> Nat], young: [Runs -> Nat],
              lostReviews: Nat, lostDeploys: Nat, events: Nat]
FixType ==
  /\ reviews \in PullFiles /\ deploys \in RunFiles
  /\ cronReviews \in PullFiles /\ other \in [pc: {"idle", "loaded"}, base: PullFiles]
  /\ handlers \in [Handlers -> FixCalls] /\ fixDone \in FixCounts
  /\ \A h \in Handlers : handlers[h].pc = "free" <=> handlers[h].key = "none"

\* No file, nor a copy of one, counts more attempts than are allowed.
PullsCapped(f) == \A p \in Pulls : f[p] <= MaxCiFixAttempts
RunsCapped(f) == \A r \in Runs : f[r].tries <= MaxDeployFixAttempts
\* A call that has passed its checks has room for one attempt in the copy it will write.
CallFits(c) ==
  /\ PullsCapped(c.prs) /\ RunsCapped(c.runs)
  /\ c.pc = "token" /\ c.key \in Pulls => c.prs[c.key] < MaxCiFixAttempts
  /\ c.pc = "token" /\ c.key \in Runs => /\ c.runs[c.key].tries < MaxDeployFixAttempts
                                         /\ Cardinality(Fix!YoungAttempts(c.runs)) < SafetyValve
Capped ==
  /\ PullsCapped(reviews) /\ PullsCapped(cronReviews) /\ PullsCapped(other.base)
  /\ RunsCapped(deploys) /\ \A h \in Handlers : CallFits(handlers[h])

\* Calls that have counted their attempt and not spawned yet; the sessions that makes.
Spawning(k) == {h \in Handlers : handlers[h].pc = "spawn" /\ handlers[h].key = k}
Promised(k) == fixDone.spawned[k] + Cardinality(Spawning(k))
\* What the file grants, and once more all of it for every save that lost another's.
Granted ==
  /\ \A p \in Pulls : Promised(p) <= reviews[p] + MaxCiFixAttempts * fixDone.lostReviews
  /\ \A r \in Runs : Promised(r) <= deploys[r].tries + MaxDeployFixAttempts * fixDone.lostDeploys
\* The sessions of the last 24 hours, those about to be spawned with them.
YoungPromised(r) == fixDone.young[r] + Cardinality(Spawning(r))
YoungSessions == {a \in Runs \X (1 .. MaxDeployFixAttempts) : a[2] <= YoungPromised(a[1])}
ValveHolds == fixDone.lostDeploys = 0 =>
  /\ \A r \in Runs : YoungPromised(r) <= deploys[r].tries /\ (YoungPromised(r) = 0 \/ deploys[r].young)
  /\ Cardinality(YoungSessions) <= SafetyValve

FixInv == FixType /\ Capped /\ Granted /\ ValveHolds

LEMMA FixCardinality == ASSUME NEW S PROVE Fix!Cardinality(S) = Cardinality(S)
  BY DEF Fix!Cardinality, Cardinality

LEMMA FixIdle ==
  /\ Fix!NoTries \in PullFiles /\ PullsCapped(Fix!NoTries) /\ \A p \in Pulls : Fix!NoTries[p] = 0
  /\ Fix!None \in RunFiles /\ \A r \in Runs : Fix!None[r] = [tries |-> 0, young |-> FALSE]
  /\ RunsCapped(Fix!None) /\ Fix!YoungAttempts(Fix!None) = {}
  /\ Fix!Free \in FixCalls /\ Fix!Free.pc = "free" /\ Fix!Free.key = "none" /\ CallFits(Fix!Free)
  /\ Fix!NoOther \in [pc: {"idle", "loaded"}, base: PullFiles] /\ Fix!NoOther.base = Fix!NoTries
<1>1. Fix!NoTries \in PullFiles /\ \A p \in Pulls : Fix!NoTries[p] = 0
  BY DEF Fix!NoTries, PullFiles
<1>2. Fix!None \in RunFiles /\ \A r \in Runs : Fix!None[r] = [tries |-> 0, young |-> FALSE]
  BY DEF Fix!None, RunFiles
<1> HIDE DEF Fix!NoTries, Fix!None
<1>3. PullsCapped(Fix!NoTries) /\ RunsCapped(Fix!None)
  BY <1>1, <1>2, FixAssumption DEF PullsCapped, RunsCapped
<1>4. /\ Fix!Free \in FixCalls /\ Fix!Free.pc = "free" /\ Fix!Free.key = "none"
      /\ Fix!Free.prs = Fix!NoTries /\ Fix!Free.runs = Fix!None
  BY <1>1, <1>2 DEF Fix!Free, FixCalls
<1>5. CallFits(Fix!Free)  BY <1>3, <1>4 DEF CallFits
<1>6. Fix!YoungAttempts(Fix!None) = {}  BY <1>2 DEF Fix!YoungAttempts
<1>7. Fix!NoOther \in [pc: {"idle", "loaded"}, base: PullFiles] /\ Fix!NoOther.base = Fix!NoTries
  BY <1>1 DEF Fix!NoOther
<1> QED  BY <1>1, <1>2, <1>3, <1>4, <1>5, <1>6, <1>7

LEMMA FixInit == Fix!Init => FixInv
<1> SUFFICES ASSUME Fix!Init PROVE FixInv
  OBVIOUS
<1>1. /\ reviews = Fix!NoTries /\ cronReviews = Fix!NoTries /\ deploys = Fix!None /\ other = Fix!NoOther
      /\ handlers = [h \in Handlers |-> Fix!Free]
      /\ fixDone = [spawned |-> [k \in Fix!Keys |-> 0], young |-> [r \in Runs |-> 0],
                    lostReviews |-> 0, lostDeploys |-> 0, events |-> 0]
  BY DEF Fix!Init
<1>2. /\ fixDone \in FixCounts /\ fixDone.lostReviews = 0 /\ fixDone.lostDeploys = 0
      /\ \A k \in Fix!Keys : fixDone.spawned[k] = 0
      /\ \A r \in Runs : fixDone.young[r] = 0
  BY <1>1 DEF FixCounts
<1>3. FixType  BY <1>1, <1>2, FixIdle DEF FixType
<1>4. Capped  BY <1>1, FixIdle DEF Capped
<1>5. \A k : Cardinality(Spawning(k)) = 0
  <2>1. \A k : Spawning(k) = {}  BY <1>1, FixIdle DEF Spawning
  <2> QED  BY <2>1, FS_EmptySet
<1>6. /\ \A k \in Fix!Keys : Promised(k) = 0
      /\ \A r \in Runs : YoungPromised(r) = 0
  BY <1>2, <1>5 DEF Promised, YoungPromised
<1>7. Granted
  BY <1>1, <1>2, <1>6, FixIdle, FixAssumption DEF Granted, Fix!Keys
<1>8. ValveHolds
  <2>1. YoungSessions = {}  BY <1>6 DEF YoungSessions
  <2> QED  BY <1>1, <1>6, <2>1, FixIdle, FS_EmptySet, FixAssumption DEF ValveHolds
<1> QED  BY <1>3, <1>4, <1>7, <1>8 DEF FixInv

\* How the calls about to spawn for a key change when one call changes.
LEMMA SpawningMoves ==
  ASSUME handlers \in [Handlers -> FixCalls], NEW h \in Handlers, NEW c,
         handlers' = [handlers EXCEPT ![h] = c], NEW k
  PROVE  /\ Cardinality(Spawning(k)) \in Nat /\ Cardinality(Spawning(k))' \in Nat
         /\ (c.pc = "spawn" /\ c.key = k) \/ Cardinality(Spawning(k))' <= Cardinality(Spawning(k))
         /\ ~(c.pc = "spawn" /\ c.key = k) /\ handlers[h].pc = "spawn" /\ handlers[h].key = k =>
              Cardinality(Spawning(k))' + 1 = Cardinality(Spawning(k))
         /\ c.pc = "spawn" /\ c.key = k /\ handlers[h].pc # "spawn" =>
              Cardinality(Spawning(k))' = Cardinality(Spawning(k)) + 1
<1> DEFINE S == Spawning(k)
           T == {j \in Handlers : handlers'[j].pc = "spawn" /\ handlers'[j].key = k}
<1>1. Spawning(k)' = T  BY DEF Spawning
<1>2. T = IF c.pc = "spawn" /\ c.key = k THEN S \cup {h} ELSE S \ {h}  BY DEF Spawning
<1>3. S \subseteq Handlers /\ (h \in S <=> handlers[h].pc = "spawn" /\ handlers[h].key = k)
  BY DEF Spawning
<1> HIDE DEF S, T
<1>4. IsFiniteSet(S)  BY <1>3, FixAssumption, FS_Subset
<1>5. /\ Cardinality(S) \in Nat
      /\ IsFiniteSet(S \cup {h})
      /\ Cardinality(S \cup {h}) = IF h \in S THEN Cardinality(S) ELSE Cardinality(S) + 1
      /\ IsFiniteSet(S \ {h})
      /\ Cardinality(S \ {h}) = IF h \in S THEN Cardinality(S) - 1 ELSE Cardinality(S)
  BY <1>4, FS_CardinalityType, FS_AddElement, FS_RemoveElement
<1>6. Cardinality(S \cup {h}) \in Nat /\ Cardinality(S \ {h}) \in Nat
  BY <1>5, FS_CardinalityType
<1>7. Cardinality(Spawning(k)) = Cardinality(S) /\ Cardinality(Spawning(k))' = Cardinality(T)
  BY <1>1 DEF S
<1>8. CASE c.pc = "spawn" /\ c.key = k
  BY <1>2, <1>3, <1>5, <1>6, <1>7, <1>8
<1>9. CASE ~(c.pc = "spawn" /\ c.key = k)
  BY <1>2, <1>3, <1>5, <1>6, <1>7, <1>9
<1> QED  BY <1>8, <1>9

LEMMA YoungFinite ==
  /\ \A S : S \subseteq Runs \X (1 .. MaxDeployFixAttempts) => IsFiniteSet(S) /\ Cardinality(S) \in Nat
  /\ \A S, T : T \subseteq Runs \X (1 .. MaxDeployFixAttempts) /\ S \subseteq T =>
       Cardinality(S) <= Cardinality(T)
<1>1. IsFiniteSet(1 .. MaxDeployFixAttempts)  BY FixAssumption, FS_Interval
<1>2. IsFiniteSet(Runs \X (1 .. MaxDeployFixAttempts))  BY <1>1, FixAssumption, FS_Product
<1>3. ASSUME NEW S, S \subseteq Runs \X (1 .. MaxDeployFixAttempts)
      PROVE  IsFiniteSet(S) /\ Cardinality(S) \in Nat
  BY <1>2, <1>3, FS_Subset, FS_CardinalityType
<1>4. ASSUME NEW S, NEW T, T \subseteq Runs \X (1 .. MaxDeployFixAttempts), S \subseteq T
      PROVE  Cardinality(S) <= Cardinality(T)
  <2>1. IsFiniteSet(T)  BY <1>3, <1>4
  <2> QED  BY <1>4, <2>1, FS_Subset
<1> QED  BY <1>3, <1>4

\* The counts of a step, for a key.
LEMMA Counted ==
  ASSUME FixType
  PROVE  /\ \A k : Cardinality(Spawning(k)) \in Nat
         /\ \A k \in Fix!Keys : Promised(k) \in Nat
         /\ \A r \in Runs : YoungPromised(r) \in Nat
         /\ Pulls \subseteq Fix!Keys /\ Runs \subseteq Fix!Keys
         /\ \A p \in Pulls : reviews[p] \in Nat
         /\ \A r \in Runs : deploys[r].tries \in Nat
         /\ fixDone.lostReviews \in Nat /\ fixDone.lostDeploys \in Nat
<1>1. ASSUME NEW k PROVE Cardinality(Spawning(k)) \in Nat
  <2>1. Spawning(k) \subseteq Handlers  BY DEF Spawning
  <2> QED  BY <2>1, FixAssumption, FS_Subset, FS_CardinalityType
<1> QED  BY <1>1 DEF FixType, FixCounts, Promised, YoungPromised, Fix!Keys, PullFiles, RunFiles

LEMMA CountedNext ==
  ASSUME FixType'
  PROVE  /\ \A k : Cardinality(Spawning(k))' \in Nat
         /\ \A k \in Fix!Keys : Promised(k)' \in Nat
         /\ \A r \in Runs : YoungPromised(r)' \in Nat
         /\ \A p \in Pulls : reviews'[p] \in Nat
         /\ \A r \in Runs : deploys'[r].tries \in Nat
         /\ fixDone'.lostReviews \in Nat /\ fixDone'.lostDeploys \in Nat
<1>1. ASSUME NEW k PROVE Cardinality(Spawning(k))' \in Nat
  <2>1. Spawning(k)' \subseteq Handlers  BY DEF Spawning
  <2> QED  BY <2>1, FixAssumption, FS_Subset, FS_CardinalityType
<1> QED  BY <1>1 DEF FixType, FixCounts, Promised, YoungPromised, Fix!Keys, PullFiles, RunFiles

\* A step that promises no more and leaves the files.
LEMMA FixKeeps ==
  ASSUME FixInv, FixType', Capped', UNCHANGED <<reviews, deploys>>,
         fixDone'.lostReviews = fixDone.lostReviews, fixDone'.lostDeploys = fixDone.lostDeploys,
         \A k \in Fix!Keys : Promised(k)' <= Promised(k),
         \A r \in Runs : YoungPromised(r)' <= YoungPromised(r)
  PROVE  FixInv'
<1>1. FixType /\ Granted /\ ValveHolds  BY DEF FixInv
<1>2. /\ \A k \in Fix!Keys : Promised(k) \in Nat /\ Promised(k)' \in Nat
      /\ \A r \in Runs : YoungPromised(r) \in Nat /\ YoungPromised(r)' \in Nat
  BY <1>1, Counted, CountedNext
<1>3. \A a, b, c \in Nat : a <= b /\ b <= c => a <= c  OBVIOUS
<1>4. \A a, m, l \in Nat : a + m * l \in Nat  OBVIOUS
<1>5. Granted'
  BY <1>1, <1>2, <1>3, <1>4, Counted, FixAssumption DEF Granted
<1>6. ASSUME fixDone.lostDeploys = 0 PROVE ValveHolds'
  <2>1. ASSUME NEW r \in Runs
        PROVE  YoungPromised(r)' <= deploys[r].tries /\ (YoungPromised(r)' = 0 \/ deploys[r].young)
    <3>1. \A a, b \in Nat : a <= b /\ b = 0 => a = 0  OBVIOUS
    <3> QED  BY <1>1, <1>2, <1>3, <1>6, <3>1, Counted DEF ValveHolds
  <2>2. YoungSessions' \subseteq YoungSessions
    <3>1. \A n \in 1 .. MaxDeployFixAttempts : n \in Nat  BY FixAssumption
    <3> QED  BY <1>2, <1>3, <3>1 DEF YoungSessions
  <2>3. /\ Cardinality(YoungSessions') <= Cardinality(YoungSessions)
        /\ Cardinality(YoungSessions') \in Nat /\ Cardinality(YoungSessions) \in Nat
    BY <2>2, YoungFinite DEF YoungSessions
  <2>4. Cardinality(YoungSessions) <= SafetyValve  BY <1>1, <1>6 DEF ValveHolds
  <2>5. Cardinality(YoungSessions)' <= SafetyValve  BY <1>3, <2>3, <2>4, FixAssumption
  <2> QED  BY <2>1, <2>5 DEF ValveHolds
<1>7. ValveHolds'  BY <1>6 DEF ValveHolds
<1> QED  BY <1>5, <1>7 DEF FixInv

\* A call ends, after a session was spawned or without one.
LEMMA CallEnds ==
  ASSUME FixInv, NEW h \in Handlers, Fix!Ends(h),
         UNCHANGED <<reviews, deploys, cronReviews, other>>,
         \/ UNCHANGED fixDone
         \/ /\ handlers[h].pc = "spawn"
            /\ \/ /\ handlers[h].key \in Pulls
                  /\ fixDone' = [fixDone EXCEPT !.spawned[handlers[h].key] = @ + 1]
               \/ /\ handlers[h].key \in Runs
                  /\ fixDone' = [fixDone EXCEPT !.spawned[handlers[h].key] = @ + 1,
                                                !.young[handlers[h].key] = @ + 1]
  PROVE  FixInv'
<1>1. FixType /\ Capped  BY DEF FixInv
<1>2. Fix!Free \in FixCalls /\ Fix!Free.pc = "free" /\ Fix!Free.key = "none" /\ CallFits(Fix!Free)
  BY FixIdle
<1>3. /\ handlers' = [handlers EXCEPT ![h] = Fix!Free]
      /\ handlers \in [Handlers -> FixCalls] /\ handlers' \in [Handlers -> FixCalls]
  BY <1>1, <1>2 DEF Fix!Ends, FixType
<1>4. /\ fixDone' \in FixCounts /\ fixDone'.lostReviews = fixDone.lostReviews
      /\ fixDone'.lostDeploys = fixDone.lostDeploys
      /\ \A k \in Fix!Keys :
           \/ fixDone'.spawned[k] = fixDone.spawned[k]
           \/ /\ fixDone'.spawned[k] = fixDone.spawned[k] + 1
              /\ handlers[h].pc = "spawn" /\ handlers[h].key = k
      /\ \A r \in Runs :
           \/ fixDone'.young[r] = fixDone.young[r]
           \/ /\ fixDone'.young[r] = fixDone.young[r] + 1
              /\ handlers[h].pc = "spawn" /\ handlers[h].key = r
  <2>1. /\ fixDone \in FixCounts /\ fixDone.spawned \in [Fix!Keys -> Nat] /\ fixDone.young \in [Runs -> Nat]
        /\ Pulls \subseteq Fix!Keys /\ Runs \subseteq Fix!Keys
    BY <1>1 DEF FixType, FixCounts, Fix!Keys
  <2>2. CASE UNCHANGED fixDone  BY <2>1, <2>2
  <2> DEFINE key == handlers[h].key
  <2>3. CASE handlers[h].pc = "spawn" /\ key \in Pulls /\ fixDone' = [fixDone EXCEPT !.spawned[key] = @ + 1]
    BY <2>1, <2>3 DEF FixCounts
  <2>4. CASE /\ handlers[h].pc = "spawn" /\ key \in Runs
             /\ fixDone' = [fixDone EXCEPT !.spawned[key] = @ + 1, !.young[key] = @ + 1]
    <3> DEFINE sp == [fixDone.spawned EXCEPT ![key] = @ + 1]
               yo == [fixDone.young EXCEPT ![key] = @ + 1]
    <3>1. key \in Fix!Keys /\ key \in Runs  BY <2>1, <2>4
    <3>2. sp \in [Fix!Keys -> Nat] /\ yo \in [Runs -> Nat]  BY <2>1, <3>1
    <3>3. fixDone' = [fixDone EXCEPT !.spawned = sp, !.young = yo]  BY <2>1, <2>4 DEF FixCounts
    <3>4. /\ \A j \in Fix!Keys : sp[j] = fixDone.spawned[j] \/ (j = key /\ sp[j] = fixDone.spawned[j] + 1)
          /\ \A r \in Runs : yo[r] = fixDone.young[r] \/ (r = key /\ yo[r] = fixDone.young[r] + 1)
      BY <2>1
    <3> HIDE DEF sp, yo
    <3>5. /\ fixDone' \in FixCounts /\ fixDone'.spawned = sp /\ fixDone'.young = yo
          /\ fixDone'.lostReviews = fixDone.lostReviews /\ fixDone'.lostDeploys = fixDone.lostDeploys
      BY <2>1, <3>2, <3>3 DEF FixCounts
    <3> QED  BY <2>4, <3>4, <3>5
  <2> QED  BY <2>2, <2>3, <2>4
<1>5. FixType'  BY <1>1, <1>2, <1>3, <1>4 DEF FixType
<1>6. Capped'
  <2>1. \A j \in Handlers : CallFits(handlers'[j])  BY <1>1, <1>2, <1>3 DEF Capped
  <2> QED  BY <1>1, <2>1 DEF Capped, PullsCapped, RunsCapped
<1>7. ASSUME NEW k
      PROVE  /\ Cardinality(Spawning(k)) \in Nat /\ Cardinality(Spawning(k))' \in Nat
             /\ Cardinality(Spawning(k))' <= Cardinality(Spawning(k))
             /\ handlers[h].pc = "spawn" /\ handlers[h].key = k =>
                  Cardinality(Spawning(k))' + 1 = Cardinality(Spawning(k))
  BY <1>2, <1>3, SpawningMoves
<1>8. \A k \in Fix!Keys : fixDone.spawned[k] \in Nat
  BY <1>1 DEF FixType, FixCounts
<1>9. ASSUME NEW k \in Fix!Keys PROVE Promised(k)' <= Promised(k)
  BY <1>4, <1>7, <1>8 DEF Promised
<1>10. ASSUME NEW r \in Runs PROVE YoungPromised(r)' <= YoungPromised(r)
  <2>1. fixDone.young[r] \in Nat  BY <1>1 DEF FixType, FixCounts
  <2> QED  BY <1>4, <1>7, <2>1 DEF YoungPromised
<1> QED  BY <1>4, <1>5, <1>6, <1>9, <1>10, FixKeeps

\* An event comes: the call ends at its checks, or loads the files.
LEMMA EventLoads ==
  ASSUME FixInv, NEW h \in Handlers, Fix!EventArrives(h),
         UNCHANGED <<reviews, deploys, cronReviews, other>>,
         NEW key \in Fix!Keys, NEW prs \in PullFiles, NEW runs \in RunFiles,
         PullsCapped(prs), RunsCapped(runs),
         \/ UNCHANGED handlers
         \/ /\ Fix!Loaded(h, key, prs, runs)
            /\ key \in Pulls => prs[key] < MaxCiFixAttempts
            /\ key \in Runs => /\ runs[key].tries < MaxDeployFixAttempts
                               /\ Cardinality(Fix!YoungAttempts(runs)) < SafetyValve
  PROVE  FixInv'
<1>1. FixType /\ Capped  BY DEF FixInv
<1>2. /\ handlers[h].pc = "free" /\ fixDone' \in FixCounts
      /\ fixDone'.lostReviews = fixDone.lostReviews /\ fixDone'.lostDeploys = fixDone.lostDeploys
      /\ fixDone'.spawned = fixDone.spawned /\ fixDone'.young = fixDone.young
  BY <1>1 DEF Fix!EventArrives, FixType, FixCounts
<1>3. CASE UNCHANGED handlers
  <2>1. FixType' /\ Capped'
    BY <1>1, <1>2, <1>3 DEF FixType, Capped, PullsCapped, RunsCapped
  <2>2. /\ \A k : Spawning(k)' = Spawning(k)
        /\ \A k \in Fix!Keys : Promised(k)' = Promised(k)
        /\ \A r \in Runs : YoungPromised(r)' = YoungPromised(r)
    BY <1>2, <1>3 DEF Spawning, Promised, YoungPromised
  <2>3. /\ \A k \in Fix!Keys : Promised(k)' <= Promised(k)
        /\ \A r \in Runs : YoungPromised(r)' <= YoungPromised(r)
    BY <1>1, <2>2, Counted
  <2> QED  BY <1>2, <2>1, <2>3, FixKeeps
<1>4. CASE /\ Fix!Loaded(h, key, prs, runs)
           /\ key \in Pulls => prs[key] < MaxCiFixAttempts
           /\ key \in Runs => /\ runs[key].tries < MaxDeployFixAttempts
                              /\ Cardinality(Fix!YoungAttempts(runs)) < SafetyValve
  <2> DEFINE c == [pc |-> "token", key |-> key, prs |-> prs, runs |-> runs]
  <2>1. c \in FixCalls /\ c.pc = "token" /\ c.key = key /\ c.prs = prs /\ c.runs = runs
    BY DEF FixCalls
  <2>2. handlers' = [handlers EXCEPT ![h] = c]  BY <1>4 DEF Fix!Loaded
  <2> HIDE DEF c
  <2>3. handlers \in [Handlers -> FixCalls] /\ handlers' \in [Handlers -> FixCalls]
        /\ handlers'[h] = c /\ \A j \in Handlers : j # h => handlers'[j] = handlers[j]
    BY <1>1, <2>1, <2>2 DEF FixType
  <2>4. FixType'
    <3>1. key # "none"  BY FixAssumption DEF Fix!Keys
    <3> QED  BY <1>1, <1>2, <2>1, <2>3, <3>1 DEF FixType
  <2>5. Capped'
    <3>1. CallFits(c)  BY <1>4, <2>1 DEF CallFits
    <3>2. \A j \in Handlers : CallFits(handlers'[j])  BY <1>1, <2>3, <3>1 DEF Capped
    <3> QED  BY <1>1, <3>2 DEF Capped, PullsCapped, RunsCapped
  <2>6. ASSUME NEW k
        PROVE  /\ Cardinality(Spawning(k)) \in Nat /\ Cardinality(Spawning(k))' \in Nat
               /\ Cardinality(Spawning(k))' <= Cardinality(Spawning(k))
    BY <2>1, <2>2, <2>3, SpawningMoves
  <2>7. ASSUME NEW k \in Fix!Keys PROVE Promised(k)' <= Promised(k)
    <3>1. fixDone.spawned[k] \in Nat  BY <1>1 DEF FixType, FixCounts
    <3> QED  BY <1>2, <2>6, <3>1 DEF Promised
  <2>8. ASSUME NEW r \in Runs PROVE YoungPromised(r)' <= YoungPromised(r)
    <3>1. fixDone.young[r] \in Nat  BY <1>1 DEF FixType, FixCounts
    <3> QED  BY <1>2, <2>6, <3>1 DEF YoungPromised
  <2> QED  BY <1>2, <2>4, <2>5, <2>7, <2>8, FixKeeps
<1> QED  BY <1>3, <1>4

LEMMA GrantMore ==
  /\ \A n, t, m, l, u \in Nat : n <= t + m * l /\ t <= m =>
       n <= u + m * (l + 1) /\ (1 <= u => n + 1 <= u + m * (l + 1))
  /\ \A n, t, m, l, u \in Nat : n <= t + m * l =>
       (t <= u => n <= u + m * l) /\ (t + 1 <= u => n + 1 <= u + m * l)
<1>1. \A m, l \in Nat : m * (l + 1) = m * l + m /\ m * l \in Nat  OBVIOUS
<1>2. \A n, t, m, u, x \in Nat : n <= t + x /\ t <= m =>
        n <= u + (x + m) /\ (1 <= u => n + 1 <= u + (x + m))
  OBVIOUS
<1>3. \A n, t, u, x \in Nat : n <= t + x =>
        (t <= u => n <= u + x) /\ (t + 1 <= u => n + 1 <= u + x)
  OBVIOUS
<1> QED  BY <1>1, <1>2, <1>3

\* A file is written with an attempt at k, or with none, over the changes of others or not.
LEMMA Written ==
  ASSUME FixInv, FixType', Capped', NEW k, NEW overP \in BOOLEAN, NEW overR \in BOOLEAN,
         fixDone'.lostReviews = IF overP THEN fixDone.lostReviews + 1 ELSE fixDone.lostReviews,
         fixDone'.lostDeploys = IF overR THEN fixDone.lostDeploys + 1 ELSE fixDone.lostDeploys,
         \A j \in Fix!Keys : /\ j = k => Promised(j)' = Promised(j) + 1
                             /\ j # k => Promised(j)' <= Promised(j),
         \A r \in Runs : /\ r = k => YoungPromised(r)' = YoungPromised(r) + 1
                         /\ r # k => YoungPromised(r)' <= YoungPromised(r),
         \A p \in Pulls : /\ p = k => 1 <= reviews'[p]
                          /\ ~overP => reviews[p] <= reviews'[p]
                          /\ ~overP /\ p = k => reviews[p] + 1 <= reviews'[p],
         \A r \in Runs : /\ r = k => 1 <= deploys'[r].tries
                         /\ ~overR => deploys[r].tries <= deploys'[r].tries
                         /\ ~overR => (deploys[r].young => deploys'[r].young)
                         /\ ~overR /\ r = k => /\ deploys[r].tries + 1 <= deploys'[r].tries
                                               /\ deploys'[r].young
                                               /\ Cardinality(Fix!YoungAttempts(deploys)) < SafetyValve
  PROVE  FixInv'
<1>1. FixType /\ Capped /\ Granted /\ ValveHolds  BY DEF FixInv
<1>2. /\ \A j \in Fix!Keys : Promised(j) \in Nat /\ Promised(j)' \in Nat
      /\ \A r \in Runs : YoungPromised(r) \in Nat /\ YoungPromised(r)' \in Nat
      /\ fixDone.lostReviews \in Nat /\ fixDone.lostDeploys \in Nat
      /\ fixDone'.lostReviews \in Nat /\ fixDone'.lostDeploys \in Nat
      /\ Pulls \subseteq Fix!Keys /\ Runs \subseteq Fix!Keys
      /\ \A p \in Pulls : reviews[p] \in Nat /\ reviews'[p] \in Nat
      /\ \A r \in Runs : deploys[r].tries \in Nat /\ deploys'[r].tries \in Nat
  BY <1>1, Counted, CountedNext
<1>3. \A j \in Fix!Keys : (j = k => Promised(j)' = Promised(j) + 1) /\ (j # k => Promised(j)' <= Promised(j))
  OBVIOUS
<1>4. \A r \in Runs : /\ r = k => YoungPromised(r)' = YoungPromised(r) + 1
                      /\ r # k => YoungPromised(r)' <= YoungPromised(r)
  OBVIOUS
<1>5. \A a, b, d \in Nat : a <= b /\ b <= d => a <= d  OBVIOUS
<1>6. Granted'
  <2>1. ASSUME NEW over \in BOOLEAN, NEW was \in Nat, NEW now \in Nat, now = IF over THEN was + 1 ELSE was,
               NEW n \in Nat, NEW m \in Nat, NEW t \in Nat, NEW u \in Nat, NEW x \in Nat, NEW j,
               n <= t + m * was, t <= m, j = k => x = n + 1, j # k => x <= n,
               j = k => 1 <= u, ~over => t <= u, ~over /\ j = k => t + 1 <= u
        PROVE  x <= u + m * now
    <3>1. u + m * now \in Nat  OBVIOUS
    <3>2. \A a, b, d \in Nat : a <= b /\ b <= d => a <= d  OBVIOUS
    <3>3. CASE over
      <4>1. now = was + 1  BY <2>1, <3>3
      <4>2. n <= u + m * (was + 1) /\ (1 <= u => n + 1 <= u + m * (was + 1))  BY <2>1, GrantMore
      <4> QED  BY <2>1, <3>1, <3>2, <4>1, <4>2
    <3>4. CASE ~over
      <4>1. now = was  BY <2>1, <3>4
      <4>2. (t <= u => n <= u + m * was) /\ (t + 1 <= u => n + 1 <= u + m * was)  BY <2>1, GrantMore
      <4> QED  BY <2>1, <3>1, <3>2, <3>4, <4>1, <4>2
    <3> QED  BY <3>3, <3>4
  <2>2. ASSUME NEW p \in Pulls
        PROVE  Promised(p)' <= reviews'[p] + MaxCiFixAttempts * fixDone'.lostReviews
    <3>1. /\ Promised(p) <= reviews[p] + MaxCiFixAttempts * fixDone.lostReviews
          /\ reviews[p] <= MaxCiFixAttempts
      BY <1>1 DEF Granted, Capped, PullsCapped
    <3> QED  BY <1>2, <1>3, <2>1, <3>1, FixAssumption
  <2>3. ASSUME NEW r \in Runs
        PROVE  Promised(r)' <= deploys'[r].tries + MaxDeployFixAttempts * fixDone'.lostDeploys
    <3>1. /\ Promised(r) <= deploys[r].tries + MaxDeployFixAttempts * fixDone.lostDeploys
          /\ deploys[r].tries <= MaxDeployFixAttempts
      BY <1>1 DEF Granted, Capped, RunsCapped
    <3>2. PICK over \in BOOLEAN : over = overR  OBVIOUS
    <3>3. PICK was \in Nat, now \in Nat : was = fixDone.lostDeploys /\ now = fixDone'.lostDeploys
      BY <1>2
    <3>4. PICK n \in Nat, t \in Nat, u \in Nat, x \in Nat :
            n = Promised(r) /\ t = deploys[r].tries /\ u = deploys'[r].tries /\ x = Promised(r)'
      BY <1>2
    <3>5. /\ now = IF over THEN was + 1 ELSE was
          /\ n <= t + MaxDeployFixAttempts * was /\ t <= MaxDeployFixAttempts
          /\ r = k => x = n + 1 /\ 1 <= u
          /\ r # k => x <= n
          /\ ~over => t <= u
          /\ ~over /\ r = k => t + 1 <= u
      BY <1>2, <1>3, <3>1, <3>2, <3>3, <3>4
    <3>6. x <= u + MaxDeployFixAttempts * now  BY <2>1, <3>5, FixAssumption
    <3> QED  BY <3>3, <3>4, <3>6
  <2> QED  BY <2>2, <2>3 DEF Granted
<1>7. ValveHolds'
  <2> SUFFICES ASSUME fixDone'.lostDeploys = 0
               PROVE  /\ \A r \in Runs : /\ YoungPromised(r)' <= deploys'[r].tries
                                         /\ YoungPromised(r)' = 0 \/ deploys'[r].young
                      /\ Cardinality(YoungSessions)' <= SafetyValve
    BY DEF ValveHolds
  <2>1. ~overR /\ fixDone.lostDeploys = 0
    <3>1. \A l \in Nat : l + 1 # 0  OBVIOUS
    <3> QED  BY <1>2, <3>1
  <2>2. /\ \A r \in Runs : /\ YoungPromised(r) <= deploys[r].tries
                           /\ YoungPromised(r) = 0 \/ deploys[r].young
        /\ Cardinality(YoungSessions) <= SafetyValve
    BY <1>1, <2>1 DEF ValveHolds
  <2>3. ASSUME NEW r \in Runs
        PROVE  YoungPromised(r)' <= deploys'[r].tries /\ (YoungPromised(r)' = 0 \/ deploys'[r].young)
    <3>1. \A a, b, t, u \in Nat : /\ a <= t /\ b = a + 1 /\ t + 1 <= u => b <= u
                                  /\ a <= t /\ b <= a /\ t <= u => b <= u
                                  /\ a = 0 /\ b <= a => b = 0
      OBVIOUS
    <3> QED  BY <1>2, <1>4, <2>1, <2>2, <3>1
  <2>4. YoungSessions \subseteq Runs \X (1 .. MaxDeployFixAttempts)
        /\ YoungSessions' \subseteq Runs \X (1 .. MaxDeployFixAttempts)
    BY DEF YoungSessions
  <2>5. IsFiniteSet(YoungSessions) /\ Cardinality(YoungSessions) \in Nat
        /\ IsFiniteSet(YoungSessions') /\ Cardinality(YoungSessions') \in Nat
    BY <2>4, YoungFinite
  <2>6. \A n \in 1 .. MaxDeployFixAttempts : n \in Nat /\ n # 0  BY FixAssumption
  <2>7. CASE k \notin Runs
    <3>1. YoungSessions' \subseteq YoungSessions
      BY <1>2, <1>4, <1>5, <2>6, <2>7 DEF YoungSessions
    <3>2. Cardinality(YoungSessions') <= Cardinality(YoungSessions)  BY <2>4, <3>1, YoungFinite
    <3>3. Cardinality(YoungSessions)' <= SafetyValve  BY <1>5, <2>2, <2>5, <3>2, FixAssumption
    <3> QED  BY <2>3, <3>3
  <2>8. CASE k \in Runs
    <3> DEFINE a == <<k, YoungPromised(k) + 1>>
    <3>1. YoungSessions' \subseteq YoungSessions \cup {a}
      <4>1. \A n, y \in Nat : n <= y + 1 => n <= y \/ n = y + 1  OBVIOUS
      <4> QED  BY <1>2, <1>4, <1>5, <2>6, <2>8, <4>1 DEF YoungSessions
    <3>2. YoungSessions \subseteq Fix!YoungAttempts(deploys)
      <4>1. ASSUME NEW b \in YoungSessions PROVE b \in Fix!YoungAttempts(deploys)
        <5>1. b \in Runs \X (1 .. MaxDeployFixAttempts) /\ b[2] <= YoungPromised(b[1])
          BY DEF YoungSessions
        <5>2. b[1] \in Runs /\ b[2] \in Nat /\ b[2] # 0  BY <2>6, <5>1
        <5>3. \A n \in Nat : n # 0 => ~(n <= 0)  OBVIOUS
        <5>4. YoungPromised(b[1]) # 0  BY <5>1, <5>2, <5>3
        <5> QED  BY <1>2, <1>5, <2>2, <5>1, <5>2, <5>4 DEF Fix!YoungAttempts
      <4> QED  BY <4>1
    <3>3. Fix!YoungAttempts(deploys) \subseteq Runs \X (1 .. MaxDeployFixAttempts)
      BY DEF Fix!YoungAttempts
    <3>4. /\ Cardinality(YoungSessions) <= Cardinality(Fix!YoungAttempts(deploys))
          /\ Cardinality(Fix!YoungAttempts(deploys)) \in Nat
      BY <3>2, <3>3, YoungFinite
    <3>5. Cardinality(Fix!YoungAttempts(deploys)) < SafetyValve  BY <2>1, <2>8
    <3> HIDE DEF a
    <3>6. /\ IsFiniteSet(YoungSessions \cup {a})
          /\ Cardinality(YoungSessions \cup {a}) \in Nat
          /\ Cardinality(YoungSessions \cup {a}) <= Cardinality(YoungSessions) + 1
      <4>1. /\ IsFiniteSet(YoungSessions \cup {a})
            /\ Cardinality(YoungSessions \cup {a}) =
                 IF a \in YoungSessions THEN Cardinality(YoungSessions) ELSE Cardinality(YoungSessions) + 1
        BY <2>5, FS_AddElement
      <4>2. Cardinality(YoungSessions \cup {a}) \in Nat  BY <4>1, FS_CardinalityType
      <4>3. \A s \in Nat : s <= s + 1 /\ s + 1 <= s + 1  OBVIOUS
      <4> QED  BY <2>5, <4>1, <4>2, <4>3
    <3>7. Cardinality(YoungSessions') <= Cardinality(YoungSessions \cup {a})
      BY <3>1, <3>6, FS_Subset
    <3>8. \A s, y, z, v, w \in Nat : s <= y /\ y < v /\ z <= s + 1 /\ w <= z => w <= v  OBVIOUS
    <3>9. Cardinality(YoungSessions)' <= SafetyValve
      BY <2>5, <3>4, <3>5, <3>6, <3>7, <3>8, FixAssumption
    <3> QED  BY <2>3, <3>9
  <2> QED  BY <2>7, <2>8
<1> QED  BY <1>6, <1>7 DEF FixInv

\* The counts of a save of pr-reviews.json.
LEMMA ReviewsCounted ==
  ASSUME FixType, NEW base, NEW new, NEW counts \in FixCounts, Fix!ReviewsSaved(base, new, counts),
         counts.lostReviews = fixDone.lostReviews, counts.lostDeploys = fixDone.lostDeploys,
         NEW over \in BOOLEAN, over = Fix!TakesBack(base, new)
  PROVE  /\ reviews' = new /\ fixDone' \in FixCounts
         /\ fixDone'.spawned = counts.spawned /\ fixDone'.young = counts.young
         /\ fixDone'.lostReviews = IF over THEN fixDone.lostReviews + 1 ELSE fixDone.lostReviews
         /\ fixDone'.lostDeploys = fixDone.lostDeploys
BY DEF Fix!ReviewsSaved, FixCounts

\* A call writes its attempt, over the changes of others or not.
LEMMA AttemptSaved ==
  ASSUME FixInv, NEW h \in Handlers, NEW k \in Fix!Keys, NEW overP \in BOOLEAN, NEW overR \in BOOLEAN,
         handlers[h].key = k, Fix!Saves(h), UNCHANGED <<cronReviews, other>>,
         fixDone' \in FixCounts, fixDone'.spawned = fixDone.spawned, fixDone'.young = fixDone.young,
         fixDone'.lostReviews = IF overP THEN fixDone.lostReviews + 1 ELSE fixDone.lostReviews,
         fixDone'.lostDeploys = IF overR THEN fixDone.lostDeploys + 1 ELSE fixDone.lostDeploys,
         reviews' \in PullFiles, deploys' \in RunFiles, PullsCapped(reviews'), RunsCapped(deploys'),
         \A p \in Pulls : /\ p = k => 1 <= reviews'[p]
                          /\ ~overP => reviews[p] <= reviews'[p]
                          /\ ~overP /\ p = k => reviews[p] + 1 <= reviews'[p],
         \A r \in Runs : /\ r = k => 1 <= deploys'[r].tries
                         /\ ~overR => deploys[r].tries <= deploys'[r].tries
                         /\ ~overR => (deploys[r].young => deploys'[r].young)
                         /\ ~overR /\ r = k => /\ deploys[r].tries + 1 <= deploys'[r].tries
                                               /\ deploys'[r].young
                                               /\ Cardinality(Fix!YoungAttempts(deploys)) < SafetyValve
  PROVE  FixInv'
<1>1. FixType /\ Capped  BY DEF FixInv
<1> DEFINE c == [handlers[h] EXCEPT !.pc = "spawn"]
<1>2. /\ c \in FixCalls /\ c.pc = "spawn" /\ c.key = k /\ c.prs = handlers[h].prs /\ c.runs = handlers[h].runs
  BY <1>1 DEF FixType, FixCalls
<1>3. handlers[h].pc = "token" /\ handlers' = [handlers EXCEPT ![h] = c] /\ handlers \in [Handlers -> FixCalls]
  BY <1>1 DEF Fix!Saves, FixType
<1> HIDE DEF c
<1>4. handlers' \in [Handlers -> FixCalls]
      /\ handlers'[h] = c /\ \A j \in Handlers : j # h => handlers'[j] = handlers[j]
  BY <1>2, <1>3
<1>5. FixType'
  <2>1. k # "none"  BY FixAssumption DEF Fix!Keys
  <2> QED  BY <1>1, <1>2, <1>4, <2>1 DEF FixType
<1>6. Capped'
  <2>1. CallFits(c)  BY <1>1, <1>2 DEF CallFits, Capped
  <2>2. \A j \in Handlers : CallFits(handlers'[j])  BY <1>1, <1>4, <2>1 DEF Capped
  <2> QED  BY <1>1, <2>2 DEF Capped, PullsCapped, RunsCapped
<1>7. ASSUME NEW j
      PROVE  /\ Cardinality(Spawning(j)) \in Nat /\ Cardinality(Spawning(j))' \in Nat
             /\ j = k => Cardinality(Spawning(j))' = Cardinality(Spawning(j)) + 1
             /\ j # k => Cardinality(Spawning(j))' <= Cardinality(Spawning(j))
  BY <1>2, <1>3, SpawningMoves
<1>8. ASSUME NEW j \in Fix!Keys
      PROVE  (j = k => Promised(j)' = Promised(j) + 1) /\ (j # k => Promised(j)' <= Promised(j))
  <2>1. fixDone.spawned[j] \in Nat  BY <1>1 DEF FixType, FixCounts
  <2> QED  BY <1>7, <2>1 DEF Promised
<1>9. ASSUME NEW r \in Runs
      PROVE  /\ r = k => YoungPromised(r)' = YoungPromised(r) + 1
             /\ r # k => YoungPromised(r)' <= YoungPromised(r)
  <2>1. fixDone.young[r] \in Nat  BY <1>1 DEF FixType, FixCounts
  <2> QED  BY <1>7, <2>1 DEF YoungPromised
<1> QED  BY <1>5, <1>6, <1>8, <1>9, Written

\* Another flow writes pr-reviews.json, with an attempt it spawns for or without one.
LEMMA OthersWrite ==
  ASSUME FixInv, NEW k, NEW base \in PullFiles, NEW new \in PullFiles, PullsCapped(new),
         NEW counts \in FixCounts, Fix!ReviewsSaved(base, new, counts),
         counts.lostReviews = fixDone.lostReviews, counts.lostDeploys = fixDone.lostDeploys,
         counts.young = fixDone.young, k \notin Runs,
         \A j \in Fix!Keys : counts.spawned[j] = IF j = k THEN fixDone.spawned[j] + 1 ELSE fixDone.spawned[j],
         k \in Pulls => new[k] = base[k] + 1,
         UNCHANGED <<deploys, handlers>>,
         cronReviews' \in PullFiles, PullsCapped(cronReviews'),
         other' \in [pc: {"idle", "loaded"}, base: PullFiles], PullsCapped(other'.base)
  PROVE  FixInv'
<1>1. FixType /\ Capped  BY DEF FixInv
<1>2. PICK over \in BOOLEAN : over = Fix!TakesBack(base, new)  BY DEF Fix!TakesBack
<1>3. /\ reviews' = new /\ fixDone' \in FixCounts
      /\ fixDone'.spawned = counts.spawned /\ fixDone'.young = fixDone.young
      /\ fixDone'.lostReviews = IF over THEN fixDone.lostReviews + 1 ELSE fixDone.lostReviews
      /\ fixDone'.lostDeploys = fixDone.lostDeploys
  BY <1>1, <1>2, ReviewsCounted
<1>4. FixType'  BY <1>1, <1>3 DEF FixType
<1>5. Capped'
  <2>1. PullsCapped(reviews')  BY <1>3
  <2> QED  BY <1>1, <2>1 DEF Capped, CallFits, PullsCapped, RunsCapped
<1>6. /\ \A j : Spawning(j)' = Spawning(j)
      /\ \A j : Cardinality(Spawning(j)) \in Nat
  BY <1>1, Counted DEF Spawning
<1>7. ASSUME NEW j \in Fix!Keys
      PROVE  (j = k => Promised(j)' = Promised(j) + 1) /\ (j # k => Promised(j)' <= Promised(j))
  <2>1. fixDone.spawned[j] \in Nat  BY <1>1 DEF FixType, FixCounts
  <2> QED  BY <1>3, <1>6, <2>1 DEF Promised
<1>8. ASSUME NEW r \in Runs
      PROVE  /\ r = k => YoungPromised(r)' = YoungPromised(r) + 1
             /\ r # k => YoungPromised(r)' <= YoungPromised(r)
  <2>1. fixDone.young[r] \in Nat  BY <1>1 DEF FixType, FixCounts
  <2> QED  BY <1>3, <1>6, <2>1 DEF YoungPromised
<1>9. ASSUME NEW p \in Pulls
      PROVE  /\ p = k => 1 <= reviews'[p]
             /\ ~over => reviews[p] <= reviews'[p]
             /\ ~over /\ p = k => reviews[p] + 1 <= reviews'[p]
  <2>1. new[p] \in Nat /\ base[p] \in Nat /\ reviews[p] \in Nat  BY <1>1 DEF PullFiles, FixType
  <2>2. ~over => base = reviews /\ ~(new[p] < reviews[p])  BY <1>2 DEF Fix!TakesBack
  <2> QED  BY <1>3, <2>1, <2>2
<1>10. PICK no \in BOOLEAN : ~no  OBVIOUS
<1>11. \A r \in Runs : deploys'[r].tries = deploys[r].tries /\ deploys[r].tries \in Nat
                       /\ deploys'[r].young = deploys[r].young /\ r # k
  BY <1>1 DEF FixType, RunFiles
<1>12. \A r \in Runs : /\ r = k => 1 <= deploys'[r].tries
                       /\ ~no => deploys[r].tries <= deploys'[r].tries
                       /\ ~no => (deploys[r].young => deploys'[r].young)
                       /\ ~no /\ r = k => /\ deploys[r].tries + 1 <= deploys'[r].tries
                                          /\ deploys'[r].young
                                          /\ Cardinality(Fix!YoungAttempts(deploys)) < SafetyValve
  BY <1>11
<1>13. fixDone'.lostDeploys = IF no THEN fixDone.lostDeploys + 1 ELSE fixDone.lostDeploys
  BY <1>3, <1>10
<1> QED  BY <1>3, <1>4, <1>5, <1>7, <1>8, <1>9, <1>12, <1>13, Written

\* The attempts of a run age, in the file and in every copy.
LEMMA FixAges == ASSUME FixInv, NEW r \in Runs, Fix!AttemptsAge(r) PROVE FixInv'
<1>1. FixType /\ Capped /\ Granted /\ ValveHolds  BY DEF FixInv
<1> DEFINE Older(f, g) == /\ f \in RunFiles /\ g \in RunFiles
                          /\ \A q \in Runs : f[q].tries = g[q].tries /\ (q # r => f[q].young = g[q].young)
                          /\ ~g[r].young
<1>2. ASSUME NEW f \in RunFiles PROVE Older(f, Fix!Aged(f, r))
  BY <1>2 DEF Fix!Aged, RunFiles
<1>3. Older(deploys, deploys')
  BY <1>1, <1>2 DEF Fix!AttemptsAge, FixType
<1>4. \A h \in Handlers : /\ handlers[h] \in FixCalls /\ handlers[h].key # r
                          /\ handlers'[h] = [handlers[h] EXCEPT !.runs = Fix!Aged(handlers[h].runs, r)]
  BY <1>1 DEF Fix!AttemptsAge, FixType
<1>5. ASSUME NEW h \in Handlers
      PROVE  /\ handlers'[h] \in FixCalls /\ handlers'[h].pc = handlers[h].pc
             /\ handlers'[h].key = handlers[h].key /\ handlers'[h].prs = handlers[h].prs
             /\ Older(handlers[h].runs, handlers'[h].runs)
  <2>1. Older(handlers[h].runs, Fix!Aged(handlers[h].runs, r))  BY <1>2, <1>4 DEF FixCalls
  <2> QED  BY <1>4, <2>1 DEF FixCalls
<1>6. /\ reviews' = reviews /\ cronReviews' = cronReviews /\ other' = other /\ fixDone' \in FixCounts
      /\ fixDone'.lostReviews = fixDone.lostReviews /\ fixDone'.lostDeploys = fixDone.lostDeploys
      /\ fixDone'.spawned = fixDone.spawned
      /\ fixDone'.young[r] = 0 /\ \A q \in Runs : q # r => fixDone'.young[q] = fixDone.young[q]
  <2>1. /\ fixDone' = [fixDone EXCEPT !.young[r] = 0] /\ reviews' = reviews
        /\ cronReviews' = cronReviews /\ other' = other
    BY DEF Fix!AttemptsAge, Fix!othersVars
  <2>2. fixDone \in FixCounts  BY <1>1 DEF FixType
  <2> QED  BY <2>1, <2>2 DEF FixCounts
<1>7. handlers' \in [Handlers -> FixCalls]
  <2>1. handlers' = [h \in Handlers |-> [handlers[h] EXCEPT !.runs = Fix!Aged(handlers[h].runs, r)]]
    BY DEF Fix!AttemptsAge
  <2>2. \A h \in Handlers : [handlers[h] EXCEPT !.runs = Fix!Aged(handlers[h].runs, r)] \in FixCalls
    BY <1>4, <1>5
  <2> QED  BY <2>1, <2>2
<1>8. FixType'  BY <1>1, <1>3, <1>5, <1>6, <1>7 DEF FixType
<1>9. ASSUME NEW f, NEW g, Older(f, g)
      PROVE  /\ RunsCapped(f) => RunsCapped(g)
             /\ Fix!YoungAttempts(g) \subseteq Fix!YoungAttempts(f)
             /\ Cardinality(Fix!YoungAttempts(g)) <= Cardinality(Fix!YoungAttempts(f))
             /\ Cardinality(Fix!YoungAttempts(g)) \in Nat /\ Cardinality(Fix!YoungAttempts(f)) \in Nat
  <2>1. Fix!YoungAttempts(g) \subseteq Fix!YoungAttempts(f)  BY <1>9 DEF Fix!YoungAttempts
  <2>2. Fix!YoungAttempts(f) \subseteq Runs \X (1 .. MaxDeployFixAttempts)
        /\ Fix!YoungAttempts(g) \subseteq Runs \X (1 .. MaxDeployFixAttempts)
    BY DEF Fix!YoungAttempts
  <2>3. RunsCapped(f) => RunsCapped(g)  BY <1>9 DEF RunsCapped
  <2> QED  BY <2>1, <2>2, <2>3, YoungFinite
<1>10. Capped'
  <2>1. PullsCapped(reviews') /\ RunsCapped(deploys')
    BY <1>1, <1>3, <1>6, <1>9 DEF Capped
  <2>2. ASSUME NEW h \in Handlers PROVE CallFits(handlers'[h])
    <3>1. CallFits(handlers[h])  BY <1>1 DEF Capped
    <3>2. /\ RunsCapped(handlers'[h].runs)
          /\ Cardinality(Fix!YoungAttempts(handlers'[h].runs)) <= Cardinality(Fix!YoungAttempts(handlers[h].runs))
          /\ Cardinality(Fix!YoungAttempts(handlers'[h].runs)) \in Nat
          /\ Cardinality(Fix!YoungAttempts(handlers[h].runs)) \in Nat
      BY <1>5, <1>9, <3>1 DEF CallFits
    <3>3. \A a, b, v \in Nat : a <= b /\ b < v => a < v  OBVIOUS
    <3>4. \A q \in Runs : handlers'[h].runs[q].tries = handlers[h].runs[q].tries  BY <1>5
    <3>5. handlers[h].pc = "token" /\ handlers[h].key \in Runs =>
            Cardinality(Fix!YoungAttempts(handlers'[h].runs)) < SafetyValve
      BY <3>1, <3>2, <3>3, FixAssumption DEF CallFits
    <3> QED  BY <1>5, <3>1, <3>2, <3>4, <3>5 DEF CallFits
  <2> QED  BY <1>1, <1>6, <2>1, <2>2 DEF Capped, PullsCapped, RunsCapped
<1>11. \A k : Spawning(k)' = Spawning(k)
  BY <1>5 DEF Spawning
<1>12. Spawning(r) = {}  BY <1>4 DEF Spawning
<1>13. /\ \A k : Promised(k)' = Promised(k)
       /\ \A q \in Runs : q # r => YoungPromised(q)' = YoungPromised(q)
       /\ YoungPromised(r)' = 0
  BY <1>6, <1>11, <1>12, FS_EmptySet DEF Promised, YoungPromised
<1>14. Granted'  BY <1>1, <1>3, <1>6, <1>13 DEF Granted
<1>15. ValveHolds'
  <2>1. \A n \in 1 .. MaxDeployFixAttempts : ~(n <= 0)  OBVIOUS
  <2>2. YoungSessions' \subseteq YoungSessions  BY <1>13, <2>1 DEF YoungSessions
  <2>3. YoungSessions \subseteq Runs \X (1 .. MaxDeployFixAttempts)
        /\ YoungSessions' \subseteq Runs \X (1 .. MaxDeployFixAttempts)
    BY DEF YoungSessions
  <2>4. /\ Cardinality(YoungSessions') <= Cardinality(YoungSessions)
        /\ Cardinality(YoungSessions') \in Nat /\ Cardinality(YoungSessions) \in Nat
    BY <2>2, <2>3, YoungFinite
  <2>5. ASSUME fixDone.lostDeploys = 0
        PROVE  /\ \A q \in Runs : YoungPromised(q)' <= deploys'[q].tries
                                  /\ (YoungPromised(q)' = 0 \/ deploys'[q].young)
               /\ Cardinality(YoungSessions') <= SafetyValve
    <3>1. /\ \A q \in Runs : YoungPromised(q) <= deploys[q].tries
                             /\ (YoungPromised(q) = 0 \/ deploys[q].young)
          /\ Cardinality(YoungSessions) <= SafetyValve
      BY <1>1, <2>5 DEF ValveHolds
    <3>2. \A a, b, v \in Nat : (a <= b /\ b <= v => a <= v) /\ 0 <= a  OBVIOUS
    <3>3. Cardinality(YoungSessions') <= SafetyValve  BY <2>4, <3>1, <3>2, FixAssumption
    <3>4. 0 <= deploys'[r].tries  BY <1>3, <3>2 DEF RunFiles
    <3> QED  BY <1>3, <1>13, <3>1, <3>3, <3>4
  <2> QED  BY <1>6, <2>5 DEF ValveHolds
<1> QED  BY <1>8, <1>10, <1>14, <1>15 DEF FixInv

LEMMA FixSavesCi == ASSUME FixInv, NEW h \in Handlers, Fix!CiAttemptSaved(h) PROVE FixInv'
<1>1. FixType /\ Capped  BY DEF FixInv
<1>2. PICK p \in Pulls, prs \in PullFiles : p = handlers[h].key /\ prs = handlers[h].prs
  BY <1>1 DEF Fix!CiAttemptSaved, FixType, FixCalls
<1>3. PICK new : new = [prs EXCEPT ![p] = @ + 1]  OBVIOUS
<1>4. PICK over \in BOOLEAN : over = Fix!TakesBack(prs, new)  BY DEF Fix!TakesBack
<1>5. /\ Fix!Saves(h) /\ Fix!ReviewsSaved(prs, new, fixDone)
      /\ deploys' = deploys /\ UNCHANGED <<cronReviews, other>>
  BY <1>2, <1>3 DEF Fix!CiAttemptSaved, Fix!othersVars
<1>6. /\ reviews' = new /\ fixDone' \in FixCounts
      /\ fixDone'.spawned = fixDone.spawned /\ fixDone'.young = fixDone.young
      /\ fixDone'.lostReviews = IF over THEN fixDone.lostReviews + 1 ELSE fixDone.lostReviews
      /\ fixDone'.lostDeploys = fixDone.lostDeploys
  <2>1. fixDone \in FixCounts  BY <1>1 DEF FixType
  <2> QED  BY <1>1, <1>4, <1>5, <2>1, ReviewsCounted
<1>7. PullsCapped(prs) /\ prs[p] < MaxCiFixAttempts /\ RunsCapped(deploys)
  BY <1>1, <1>2, <1>5 DEF Capped, CallFits, Fix!Saves
<1>8. new \in PullFiles /\ new[p] = prs[p] + 1 /\ \A q \in Pulls : q # p => new[q] = prs[q]
  BY <1>3 DEF PullFiles
<1>9. PullsCapped(reviews') /\ RunsCapped(deploys')
  BY <1>5, <1>6, <1>7, <1>8, FixAssumption DEF PullsCapped, PullFiles, RunsCapped
<1>10. \A q \in Pulls : /\ q = p => 1 <= reviews'[q]
                        /\ ~over => reviews[q] <= reviews'[q]
                        /\ ~over /\ q = p => reviews[q] + 1 <= reviews'[q]
  <2>1. \A q \in Pulls : prs[q] \in Nat /\ new[q] \in Nat  BY <1>8 DEF PullFiles
  <2>2. ~over => prs = reviews  BY <1>4 DEF Fix!TakesBack
  <2> QED  BY <1>6, <1>8, <2>1, <2>2
<1>11. PICK no \in BOOLEAN : ~no  OBVIOUS
<1>12. \A r \in Runs : deploys'[r].tries = deploys[r].tries /\ deploys[r].tries \in Nat
                       /\ deploys'[r].young = deploys[r].young /\ r # p
  BY <1>1, <1>5, FixAssumption DEF FixType, RunFiles
<1>13. \A r \in Runs : /\ r = p => 1 <= deploys'[r].tries
                       /\ ~no => deploys[r].tries <= deploys'[r].tries
                       /\ ~no => (deploys[r].young => deploys'[r].young)
                       /\ ~no /\ r = p => /\ deploys[r].tries + 1 <= deploys'[r].tries
                                          /\ deploys'[r].young
                                          /\ Cardinality(Fix!YoungAttempts(deploys)) < SafetyValve
  BY <1>12
<1>14. /\ p \in Fix!Keys /\ handlers[h].key = p /\ deploys' \in RunFiles /\ reviews' \in PullFiles
       /\ fixDone'.lostDeploys = IF no THEN fixDone.lostDeploys + 1 ELSE fixDone.lostDeploys
  BY <1>1, <1>2, <1>5, <1>6, <1>8, <1>11 DEF Fix!Keys, FixType
<1> QED  BY <1>5, <1>6, <1>9, <1>10, <1>13, <1>14, AttemptSaved

LEMMA FixSavesDeploy == ASSUME FixInv, NEW h \in Handlers, Fix!DeployAttemptSaved(h) PROVE FixInv'
<1> DEFINE r == handlers[h].key
           runs == handlers[h].runs
<1>1. FixType /\ Capped  BY DEF FixInv
<1>2. /\ handlers[h].pc = "token" /\ r \in Runs
      /\ deploys' = [runs EXCEPT ![r] = [tries |-> runs[r].tries + 1, young |-> TRUE]]
      /\ fixDone' = [fixDone EXCEPT !.lostDeploys = IF runs # deploys THEN @ + 1 ELSE @]
      /\ Fix!Saves(h) /\ reviews' = reviews /\ UNCHANGED <<cronReviews, other>>
  BY DEF Fix!DeployAttemptSaved, Fix!Saves, Fix!othersVars
<1>3. /\ runs \in RunFiles /\ reviews \in PullFiles /\ deploys \in RunFiles
      /\ r \in Fix!Keys /\ r \notin Pulls
  BY <1>1, <1>2, FixAssumption DEF FixType, FixCalls, Fix!Keys
<1>4. /\ RunsCapped(runs) /\ runs[r].tries < MaxDeployFixAttempts /\ PullsCapped(reviews)
      /\ Cardinality(Fix!YoungAttempts(runs)) < SafetyValve
  BY <1>1, <1>2 DEF Capped, CallFits
<1> HIDE DEF r, runs
<1>5. /\ reviews' \in PullFiles /\ deploys' \in RunFiles
      /\ deploys'[r].tries = runs[r].tries + 1 /\ deploys'[r].young
      /\ \A q \in Runs : q # r => deploys'[q] = runs[q]
  BY <1>2, <1>3 DEF RunFiles
<1>6. RunsCapped(deploys')
  BY <1>3, <1>4, <1>5, FixAssumption DEF RunsCapped, RunFiles
<1>7. PullsCapped(reviews')  BY <1>2, <1>4 DEF PullsCapped
<1>8. \A q \in Runs : /\ q = r => 1 <= deploys'[q].tries
                      /\ ~(runs # deploys) => deploys[q].tries <= deploys'[q].tries
                      /\ ~(runs # deploys) => (deploys[q].young => deploys'[q].young)
                      /\ ~(runs # deploys) /\ q = r =>
                           /\ deploys[q].tries + 1 <= deploys'[q].tries
                           /\ deploys'[q].young
                           /\ Cardinality(Fix!YoungAttempts(deploys)) < SafetyValve
  <2>1. \A q \in Runs : runs[q].tries \in Nat /\ deploys[q].tries \in Nat  BY <1>3 DEF RunFiles
  <2>2. \A n \in Nat : n <= n /\ n <= n + 1 /\ n + 1 <= n + 1 /\ 1 <= n + 1  OBVIOUS
  <2> QED  BY <1>4, <1>5, <2>1, <2>2
<1>9. \A p \in Pulls : /\ p = r => 1 <= reviews'[p]
                       /\ ~(runs # deploys) => reviews[p] <= reviews'[p]
                       /\ ~(runs # deploys) /\ p = r => reviews[p] + 1 <= reviews'[p]
  <2>1. \A p \in Pulls : reviews'[p] = reviews[p] /\ reviews[p] \in Nat /\ p # r
    BY <1>2, <1>3 DEF PullFiles
  <2> QED  BY <2>1
<1>10. PICK over \in BOOLEAN : over = (runs # deploys)  OBVIOUS
<1>11. PICK no \in BOOLEAN : ~no  OBVIOUS
<1>12. \A p \in Pulls : /\ p = r => 1 <= reviews'[p]
                        /\ ~no => reviews[p] <= reviews'[p]
                        /\ ~no /\ p = r => reviews[p] + 1 <= reviews'[p]
  <2>1. \A p \in Pulls : reviews'[p] = reviews[p] /\ reviews[p] \in Nat /\ p # r
    BY <1>2, <1>3 DEF PullFiles
  <2>2. \A n \in Nat : n <= n  OBVIOUS
  <2> QED  BY <2>1, <2>2
<1>13. \A q \in Runs : /\ q = r => 1 <= deploys'[q].tries
                       /\ ~over => deploys[q].tries <= deploys'[q].tries
                       /\ ~over => (deploys[q].young => deploys'[q].young)
                       /\ ~over /\ q = r => /\ deploys[q].tries + 1 <= deploys'[q].tries
                                            /\ deploys'[q].young
                                            /\ Cardinality(Fix!YoungAttempts(deploys)) < SafetyValve
  BY <1>8, <1>10
<1>14. /\ fixDone' \in FixCounts /\ fixDone'.spawned = fixDone.spawned /\ fixDone'.young = fixDone.young
       /\ fixDone'.lostReviews = IF no THEN fixDone.lostReviews + 1 ELSE fixDone.lostReviews
       /\ fixDone'.lostDeploys = IF over THEN fixDone.lostDeploys + 1 ELSE fixDone.lostDeploys
  <2>1. fixDone \in FixCounts /\ fixDone' = [fixDone EXCEPT !.lostDeploys = IF over THEN @ + 1 ELSE @]
    BY <1>1, <1>2, <1>10 DEF FixType
  <2> QED  BY <1>11, <2>1 DEF FixCounts
<1>15. handlers[h].key = r /\ Fix!Saves(h) /\ UNCHANGED <<cronReviews, other>>
  BY <1>2 DEF r
<1> QED  BY <1>3, <1>5, <1>6, <1>7, <1>12, <1>13, <1>14, <1>15, AttemptSaved

\* The daemon starts again: no call is left to spawn.
LEMMA FixRestarts == ASSUME FixInv, Fix!Restart PROVE FixInv'
<1>1. FixType /\ Capped  BY DEF FixInv
<1>2. /\ reviews' = reviews /\ deploys' = deploys /\ fixDone' = fixDone /\ other' = Fix!NoOther
      /\ handlers' = [h \in Handlers |-> Fix!Free]
      /\ cronReviews' \in {reviews, Fix!NoTries}
  BY DEF Fix!Restart, Fix!Readings
<1>3. FixType'  BY <1>1, <1>2, FixIdle DEF FixType
<1>4. Capped'
  <2>1. PullsCapped(cronReviews') /\ PullsCapped(other'.base)  BY <1>1, <1>2, FixIdle DEF Capped
  <2>2. \A h \in Handlers : CallFits(handlers'[h])  BY <1>2, FixIdle
  <2> QED  BY <1>1, <1>2, <2>1, <2>2 DEF Capped, PullsCapped, RunsCapped
<1>5. \A k : Spawning(k)' = {}  BY <1>2, FixIdle DEF Spawning
<1>6. \A k : Cardinality(Spawning(k))' = 0 /\ Cardinality(Spawning(k)) \in Nat
  BY <1>1, <1>5, FS_EmptySet, Counted
<1>7. ASSUME NEW k \in Fix!Keys PROVE Promised(k)' <= Promised(k)
  <2>1. fixDone.spawned[k] \in Nat  BY <1>1 DEF FixType, FixCounts
  <2> QED  BY <1>2, <1>6, <2>1 DEF Promised
<1>8. ASSUME NEW r \in Runs PROVE YoungPromised(r)' <= YoungPromised(r)
  <2>1. fixDone.young[r] \in Nat  BY <1>1 DEF FixType, FixCounts
  <2> QED  BY <1>2, <1>6, <2>1 DEF YoungPromised
<1> QED  BY <1>2, <1>3, <1>4, <1>7, <1>8, FixKeeps

\* The files, the calls and the counts stay; what the other writers know changes.
LEMMA OthersLearn ==
  ASSUME FixInv, UNCHANGED <<reviews, deploys, handlers, fixDone>>,
         cronReviews' \in PullFiles, PullsCapped(cronReviews'),
         other' \in [pc: {"idle", "loaded"}, base: PullFiles], PullsCapped(other'.base)
  PROVE  FixInv'
<1>1. FixType /\ Capped  BY DEF FixInv
<1>2. FixType'  BY <1>1 DEF FixType
<1>3. Capped'  BY <1>1 DEF Capped, CallFits, PullsCapped, RunsCapped
<1>4. /\ \A k \in Fix!Keys : Promised(k)' = Promised(k) /\ Promised(k) \in Nat
      /\ \A r \in Runs : YoungPromised(r)' = YoungPromised(r) /\ YoungPromised(r) \in Nat
  BY <1>1, Counted DEF Promised, YoungPromised, Spawning
<1>5. /\ \A k \in Fix!Keys : Promised(k)' <= Promised(k)
      /\ \A r \in Runs : YoungPromised(r)' <= YoungPromised(r)
  BY <1>4
<1> QED  BY <1>2, <1>3, <1>5, FixKeeps

\* A save of what its writer knows, some entries dropped.
LEMMA OthersSave ==
  ASSUME FixInv, NEW base \in PullFiles, NEW new \in PullFiles, PullsCapped(new),
         \/ Fix!ReviewsSaved(base, new, fixDone)
         \/ UNCHANGED <<reviews, fixDone>>,
         UNCHANGED <<deploys, handlers>>,
         cronReviews' \in PullFiles, PullsCapped(cronReviews'),
         other' \in [pc: {"idle", "loaded"}, base: PullFiles], PullsCapped(other'.base)
  PROVE  FixInv'
<1>1. "none" \notin Fix!Keys /\ "none" \notin Pulls /\ "none" \notin Runs
  BY FixAssumption DEF Fix!Keys
<1>2. fixDone \in FixCounts  BY DEF FixInv, FixType
<1>3. \A j \in Fix!Keys : fixDone.spawned[j] = IF j = "none" THEN fixDone.spawned[j] + 1 ELSE fixDone.spawned[j]
  BY <1>1
<1>4. CASE Fix!ReviewsSaved(base, new, fixDone)  BY <1>1, <1>2, <1>3, <1>4, OthersWrite
<1>5. CASE UNCHANGED <<reviews, fixDone>>  BY <1>5, OthersLearn
<1> QED  BY <1>4, <1>5

\* A save with an attempt, spawned for or not.
LEMMA OthersFixes ==
  ASSUME FixInv, NEW p \in Pulls, NEW base \in PullFiles, PullsCapped(base), Fix!OthersFix(p, base),
         UNCHANGED <<deploys, handlers>>,
         cronReviews' \in PullFiles, PullsCapped(cronReviews'),
         other' \in [pc: {"idle", "loaded"}, base: PullFiles], PullsCapped(other'.base)
  PROVE  FixInv'
<1>1. PICK new : new = [base EXCEPT ![p] = @ + 1]  OBVIOUS
<1>2. /\ base[p] < MaxCiFixAttempts
      /\ Fix!ReviewsSaved(base, new, fixDone)
           \/ Fix!ReviewsSaved(base, new, [fixDone EXCEPT !.spawned[p] = @ + 1])
  BY <1>1 DEF Fix!OthersFix
<1>3. new \in PullFiles /\ new[p] = base[p] + 1 /\ \A q \in Pulls : q # p => new[q] = base[q]
  BY <1>1 DEF PullFiles
<1>4. PullsCapped(new)  BY <1>2, <1>3, FixAssumption DEF PullsCapped, PullFiles
<1>5. CASE Fix!ReviewsSaved(base, new, fixDone)  BY <1>3, <1>4, <1>5, OthersSave
<1>6. CASE Fix!ReviewsSaved(base, new, [fixDone EXCEPT !.spawned[p] = @ + 1])
  <2>1. p \in Fix!Keys /\ p \notin Runs /\ fixDone \in FixCounts
    BY FixAssumption DEF Fix!Keys, FixInv, FixType
  <2>2. PICK counts : counts = [fixDone EXCEPT !.spawned[p] = @ + 1]  OBVIOUS
  <2>3. /\ counts \in FixCounts /\ counts.young = fixDone.young
        /\ counts.lostReviews = fixDone.lostReviews /\ counts.lostDeploys = fixDone.lostDeploys
        /\ \A j \in Fix!Keys : counts.spawned[j] = IF j = p THEN fixDone.spawned[j] + 1 ELSE fixDone.spawned[j]
    BY <2>1, <2>2 DEF FixCounts
  <2>4. Fix!ReviewsSaved(base, new, counts)  BY <1>6, <2>2
  <2> QED  BY <1>3, <1>4, <2>1, <2>3, <2>4, OthersWrite
<1> QED  BY <1>2, <1>5, <1>6

LEMMA FixCrons ==
  ASSUME FixInv, Fix!CronSaves \/ \E p \in Pulls : Fix!CronFixes(p)
  PROVE  FixInv'
<1>1. /\ FixType /\ cronReviews \in PullFiles /\ PullsCapped(cronReviews) /\ PullsCapped(other.base)
      /\ other \in [pc: {"idle", "loaded"}, base: PullFiles]
  BY DEF FixInv, FixType, Capped
<1>2. CASE Fix!CronSaves
  <2>1. PICK gone \in SUBSET Pulls : cronReviews' = [p \in Pulls |-> IF p \in gone THEN 0 ELSE cronReviews[p]]
    BY <1>2 DEF Fix!CronSaves
  <2>2. cronReviews' \in PullFiles /\ PullsCapped(cronReviews')
    BY <1>1, <2>1, FixAssumption DEF PullFiles, PullsCapped
  <2>3. PICK base \in PullFiles, new \in PullFiles : base = cronReviews /\ new = cronReviews'
    BY <1>1, <2>2
  <2>4. /\ Fix!ReviewsSaved(base, new, fixDone) \/ UNCHANGED <<reviews, fixDone>>
        /\ UNCHANGED <<deploys, other, handlers>>
    BY <1>2, <2>3 DEF Fix!CronSaves
  <2> QED  BY <1>1, <2>2, <2>3, <2>4, OthersSave
<1>3. ASSUME NEW p \in Pulls, Fix!CronFixes(p) PROVE FixInv'
  <2>1. /\ cronReviews[p] < MaxCiFixAttempts /\ cronReviews' = [cronReviews EXCEPT ![p] = @ + 1]
        /\ UNCHANGED <<deploys, other, handlers>>
    BY <1>3 DEF Fix!CronFixes
  <2>2. cronReviews' \in PullFiles /\ PullsCapped(cronReviews')
    BY <1>1, <2>1, FixAssumption DEF PullFiles, PullsCapped
  <2>3. PICK base \in PullFiles : base = cronReviews  BY <1>1
  <2>4. Fix!OthersFix(p, base) \/ UNCHANGED <<reviews, fixDone>>
    BY <1>3, <2>3 DEF Fix!CronFixes
  <2>5. CASE Fix!OthersFix(p, base)  BY <1>1, <2>1, <2>2, <2>3, <2>5, OthersFixes
  <2>6. CASE UNCHANGED <<reviews, fixDone>>  BY <1>1, <2>1, <2>2, <2>6, OthersLearn
  <2> QED  BY <2>4, <2>5, <2>6
<1> QED  BY <1>2, <1>3

LEMMA FixOthers == ASSUME FixInv, Fix!OtherLoads \/ Fix!OtherSaves PROVE FixInv'
<1>1. /\ FixType /\ cronReviews \in PullFiles /\ PullsCapped(cronReviews) /\ PullsCapped(other.base)
      /\ PullsCapped(reviews) /\ reviews \in PullFiles
      /\ other \in [pc: {"idle", "loaded"}, base: PullFiles]
  BY DEF FixInv, FixType, Capped
<1>2. CASE Fix!OtherLoads
  <2>1. PICK f \in {reviews, Fix!NoTries} : other' = [pc |-> "loaded", base |-> f]
    BY <1>2 DEF Fix!OtherLoads, Fix!Readings
  <2>2. f \in PullFiles /\ PullsCapped(f)  BY <1>1, FixIdle
  <2>3. other' \in [pc: {"idle", "loaded"}, base: PullFiles] /\ PullsCapped(other'.base)
    BY <2>1, <2>2
  <2>4. UNCHANGED <<reviews, deploys, cronReviews, handlers, fixDone>>  BY <1>2 DEF Fix!OtherLoads
  <2>5. cronReviews' \in PullFiles /\ PullsCapped(cronReviews')  BY <1>1, <2>4 DEF PullsCapped
  <2> QED  BY <2>3, <2>4, <2>5, OthersLearn
<1>3. CASE Fix!OtherSaves
  <2>1. other' = Fix!NoOther /\ UNCHANGED <<deploys, cronReviews, handlers>>
    BY <1>3 DEF Fix!OtherSaves
  <2>2. /\ other' \in [pc: {"idle", "loaded"}, base: PullFiles] /\ PullsCapped(other'.base)
        /\ cronReviews' \in PullFiles /\ PullsCapped(cronReviews')
    BY <1>1, <2>1, FixIdle DEF PullsCapped
  <2>3. PICK base \in PullFiles : base = other.base  BY <1>1
  <2>4. \/ Fix!ReviewsSaved(base, base, fixDone)
        \/ \E p \in Pulls : Fix!OthersFix(p, base)
        \/ UNCHANGED <<reviews, fixDone>>
    BY <1>3, <2>3 DEF Fix!OtherSaves
  <2>5. PullsCapped(base)  BY <1>1, <2>3
  <2>6. ASSUME NEW p \in Pulls, Fix!OthersFix(p, base) PROVE FixInv'
    BY <2>1, <2>2, <2>5, <2>6, OthersFixes
  <2>7. CASE Fix!ReviewsSaved(base, base, fixDone)  BY <2>1, <2>2, <2>5, <2>7, OthersSave
  <2>8. CASE UNCHANGED <<reviews, fixDone>>  BY <2>1, <2>2, <2>8, OthersLearn
  <2> QED  BY <2>4, <2>6, <2>7, <2>8
<1> QED  BY <1>2, <1>3

LEMMA FixStep == ASSUME FixInv, [Fix!Next]_(Fix!fixVars) PROVE FixInv'
<1>1. CASE UNCHANGED Fix!fixVars
  <2>1. UNCHANGED <<reviews, deploys, cronReviews, other, handlers, fixDone>>  BY <1>1 DEF Fix!fixVars
  <2>2. FixType' <=> FixType  BY <2>1 DEF FixType
  <2>3. Capped' <=> Capped
    BY <2>1 DEF Capped, CallFits, PullsCapped, RunsCapped
  <2>4. \A k : Promised(k)' = Promised(k) /\ YoungPromised(k)' = YoungPromised(k)
    BY <2>1 DEF Promised, YoungPromised, Spawning
  <2>5. YoungSessions' = YoungSessions  BY <2>4 DEF YoungSessions
  <2>6. Granted' <=> Granted  BY <2>1, <2>4 DEF Granted
  <2>7. ValveHolds' <=> ValveHolds  BY <2>1, <2>4, <2>5 DEF ValveHolds
  <2> QED  BY <2>2, <2>3, <2>6, <2>7 DEF FixInv
<1>2. ASSUME NEW h \in Handlers, NEW p \in Pulls, Fix!CiFails(h, p) PROVE FixInv'
  <2>1. PICK f \in {reviews, Fix!NoTries} :
          IF f[p] >= MaxCiFixAttempts THEN UNCHANGED handlers ELSE Fix!Loaded(h, p, f, Fix!None)
    BY <1>2 DEF Fix!CiFails, Fix!Readings
  <2>2. Fix!EventArrives(h) /\ UNCHANGED <<reviews, deploys, cronReviews, other>>
    BY <1>2 DEF Fix!CiFails, Fix!othersVars
  <2>3. p \in Fix!Keys /\ p \notin Runs /\ f \in PullFiles /\ PullsCapped(f)
    BY FixIdle, FixAssumption DEF Fix!Keys, FixInv, FixType, Capped
  <2>4. f[p] \in Nat  BY <2>3 DEF PullFiles
  <2>5. ~(f[p] >= MaxCiFixAttempts) => f[p] < MaxCiFixAttempts  BY <2>4, FixAssumption
  <2> QED  BY <2>1, <2>2, <2>3, <2>5, FixIdle, EventLoads
<1>3. ASSUME NEW h \in Handlers, NEW r \in Runs, Fix!DeployFails(h, r) PROVE FixInv'
  <2>1. PICK f \in {deploys, Fix!None} :
          IF Fix!DeployStops(f, r) THEN UNCHANGED handlers ELSE Fix!Loaded(h, r, Fix!NoTries, f)
    BY <1>3 DEF Fix!DeployFails, Fix!Readings
  <2>2. Fix!EventArrives(h) /\ UNCHANGED <<reviews, deploys, cronReviews, other>>
    BY <1>3 DEF Fix!DeployFails, Fix!othersVars
  <2>3. r \in Fix!Keys /\ r \notin Pulls /\ f \in RunFiles /\ RunsCapped(f)
    BY FixIdle, FixAssumption DEF Fix!Keys, FixInv, FixType, Capped
  <2>4. f[r].tries \in Nat  BY <2>3 DEF RunFiles
  <2>5. Cardinality(Fix!YoungAttempts(f)) \in Nat  BY YoungFinite DEF Fix!YoungAttempts
  <2>6. ~Fix!DeployStops(f, r) => /\ f[r].tries < MaxDeployFixAttempts
                                  /\ Cardinality(Fix!YoungAttempts(f)) < SafetyValve
    BY <2>4, <2>5, FixAssumption, FixCardinality DEF Fix!DeployStops, Fix!Attempts24h
  <2> QED  BY <2>1, <2>2, <2>3, <2>6, FixIdle, EventLoads
<1>4. ASSUME NEW h \in Handlers, Fix!GivesUp(h) \/ Fix!BuilderSpawned(h) \/ Fix!PlannerSpawned(h) PROVE FixInv'
  BY <1>4, CallEnds DEF Fix!GivesUp, Fix!BuilderSpawned, Fix!PlannerSpawned, Fix!othersVars
<1> QED
  BY <1>1, <1>2, <1>3, <1>4, FixSavesCi, FixSavesDeploy, FixAges, FixRestarts, FixCrons, FixOthers DEF Fix!Next

LEMMA FixSafe == FixInv => SpawnsAreBudgeted
<1> SUFFICES ASSUME FixType, Capped, Granted, ValveHolds PROVE SpawnsAreBudgeted
  BY DEF FixInv
<1>1. \A s, c, t, m, l \in Nat : s + c <= t + m * l /\ t <= m => s <= m * (1 + l)
  <2>1. \A m, l \in Nat : m * (1 + l) = m + m * l /\ m * l \in Nat  OBVIOUS
  <2>2. \A s, c, t, m, x \in Nat : s + c <= t + x /\ t <= m => s <= m + x  OBVIOUS
  <2> QED  BY <2>1, <2>2
<1>2. /\ \A k \in Fix!Keys : fixDone.spawned[k] \in Nat
      /\ \A r \in Runs : fixDone.young[r] \in Nat
      /\ Pulls \subseteq Fix!Keys /\ Runs \subseteq Fix!Keys
  BY DEF FixType, FixCounts, Fix!Keys
<1>3. ASSUME NEW p \in Pulls PROVE fixDone.spawned[p] <= MaxCiFixAttempts * (1 + fixDone.lostReviews)
  BY <1>1, <1>2, Counted, FixAssumption DEF Granted, Capped, PullsCapped, Promised
<1>4. ASSUME NEW r \in Runs PROVE fixDone.spawned[r] <= MaxDeployFixAttempts * (1 + fixDone.lostDeploys)
  BY <1>1, <1>2, Counted, FixAssumption DEF Granted, Capped, RunsCapped, Promised
<1>5. ASSUME fixDone.lostDeploys = 0 PROVE Fix!Young <= SafetyValve
  <2> DEFINE Y == {a \in Runs \X (1 .. MaxFailures) : a[2] <= fixDone.young[a[1]]}
  <2>1. ASSUME NEW a \in Y PROVE a \in YoungSessions
    <3>1. /\ a[1] \in Runs /\ a[2] \in 1 .. MaxFailures /\ a[2] <= fixDone.young[a[1]]
          /\ a = <<a[1], a[2]>>
      OBVIOUS
    <3>2. YoungPromised(a[1]) <= deploys[a[1]].tries /\ deploys[a[1]].tries <= MaxDeployFixAttempts
      BY <1>5, <3>1 DEF ValveHolds, Capped, RunsCapped
    <3>3. \A n \in 1 .. MaxFailures : \A y, c, t \in Nat :
            n <= y /\ y + c <= t /\ t <= MaxDeployFixAttempts =>
              n \in 1 .. MaxDeployFixAttempts /\ n <= y + c
      BY FixAssumption
    <3>4. a[2] \in 1 .. MaxDeployFixAttempts /\ a[2] <= YoungPromised(a[1])
      BY <1>2, <3>1, <3>2, <3>3, Counted DEF YoungPromised
    <3> QED  BY <3>1, <3>4 DEF YoungSessions
  <2>2. Y \subseteq YoungSessions  BY <2>1
  <2> HIDE DEF Y
  <2>3. /\ Cardinality(Y) <= Cardinality(YoungSessions)
        /\ Cardinality(Y) \in Nat /\ Cardinality(YoungSessions) \in Nat
    <3>1. YoungSessions \subseteq Runs \X (1 .. MaxDeployFixAttempts)  BY DEF YoungSessions
    <3>2. Y \subseteq Runs \X (1 .. MaxDeployFixAttempts)  BY <2>2, <3>1
    <3> QED  BY <2>2, <3>1, <3>2, YoungFinite
  <2>4. Fix!Young = Cardinality(Y)  BY FixCardinality DEF Fix!Young, Y
  <2>5. Cardinality(YoungSessions) <= SafetyValve  BY <1>5 DEF ValveHolds
  <2>6. \A a, b, c \in Nat : a <= b /\ b <= c => a <= c  OBVIOUS
  <2> QED  BY <2>3, <2>4, <2>5, <2>6, FixAssumption
<1> QED  BY <1>3, <1>4, <1>5 DEF SpawnsAreBudgeted, Fix!SpawnsAreBudgeted

\* However the handlers of failures, the cron and the other writers interleave, fail and restart: a
\* PR and a run get their budget of sessions, one more for each save of their file that takes another
\* writer's change back, and while none takes an attempt of a run back the sessions of an entity
\* within 24 hours stay under the safety valve (webhook-handler.ts, pr-cron.ts).
THEOREM SpawnersKeepTheirBudget == Fix!Spec => []SpawnsAreBudgeted
<1>1. Fix!Spec => []FixInv  BY FixInit, FixStep, PTL DEF Fix!Spec
<1> QED  BY <1>1, FixSafe, PTL
================================================================================
