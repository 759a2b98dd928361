---------------------------- MODULE Services_proofs ----------------------------
(* Proofs about the services that MCServices puts side by side whose state is one of *)
(* processes, sessions and trees. Each theorem is about the specification of one of  *)
(* them and states the property MCServices names; ServiceFiles_proofs has the others.*)
EXTENDS MCServices, Sequences, FiniteSetTheorems, TLAPS

--------------------------------------------------------------------------------
(* The processes of the daemon: Lifecycle.                                           *)

LifeStages == {"unborn", "listen", "pool", "broker", "gateway", "pid", "up", "half", "draining",
               "stopping", "forced", "wedged", "gone"}
LifeCounts == [started: 0..MaxProcs, signals: Nat, died: SUBSET Life!Procs,
               recycling: SUBSET Life!Procs, late: SUBSET Life!Procs]
LifeType ==
  /\ proc \in [Life!Procs -> [at: LifeStages, has: SUBSET Life!Subsystems]]
  /\ launchd \in [loaded: BOOLEAN, main: Life!Procs \cup {0}]
  /\ machine \in LifeCounts

\* Whoever holds anything holds the port, which one process holds at a time.
PortFirst ==
  /\ \A p \in Life!Procs : proc[p].has # {} => "port" \in proc[p].has
  /\ \A p \in Life!Procs : proc[p].at \in {"pool", "broker", "gateway"} => "port" \in proc[p].has
  /\ \A p, q \in Life!Procs : "port" \in proc[p].has /\ "port" \in proc[q].has => p = q

\* A process that is not started yet has never run.
NotBorn == \A p \in Life!Procs : p > machine.started => proc[p].at = "unborn"

\* The PID in the file was written by main and not taken back since.
PidOfOne ==
  pidFile # 0 =>
    /\ pidFile \in Life!Procs
    /\ \/ proc[pidFile].at \in {"up", "draining", "stopping", "forced", "wedged"}
       \/ proc[pidFile].at = "gone" /\ pidFile \in machine.died

LifeInv == LifeType /\ PortFirst /\ NotBorn /\ PidOfOne

LEMMA LifeInit == Life!Init => LifeInv
  BY LifeAssumption DEF Life!Init, LifeInv, LifeType, LifeStages, PortFirst, NotBorn, PidOfOne,
                        Life!Unborn, Life!Procs, LifeCounts

\* One process moves or ends: it keeps the port or takes it when it is free, and it
\* ends among the dead or takes its PID back.
LEMMA LifeProcess ==
  ASSUME LifeInv, NEW p \in Life!Procs, NEW x \in [at: LifeStages, has: SUBSET Life!Subsystems],
         proc' = [proc EXCEPT ![p] = x], "port" \in x.has => "port" \in proc[p].has \/ ~Life!PortTaken,
         x.has # {} => "port" \in x.has,
         x.at \in {"pool", "broker", "gateway"} => "port" \in x.has,
         proc[p].at = "unborn" => p <= machine'.started,
         machine.started <= machine'.started, machine.died \subseteq machine'.died,
         machine' \in LifeCounts,
         launchd' \in [loaded: BOOLEAN, main: Life!Procs \cup {0}],
         \/ pidFile' = 0
         \/ /\ pidFile' = pidFile
            /\ proc[p].at \in {"up", "draining", "stopping", "forced", "wedged", "gone"} =>
                 \/ x.at \in {"up", "draining", "stopping", "forced", "wedged"}
                 \/ x.at = "gone" /\ p \in machine'.died
         \/ pidFile' = p /\ x.at = "up"
  PROVE  LifeInv'
<1>1. proc \in [Life!Procs -> [at: LifeStages, has: SUBSET Life!Subsystems]]
  BY DEF LifeInv, LifeType
<1>2. proc'[p] = x /\ \A q \in Life!Procs : q # p => proc'[q] = proc[q]  BY <1>1
<1>3. LifeType'  BY <1>1 DEF LifeType
<1>4. PortFirst'
  <2>1. \A q \in Life!Procs : q # p => ("port" \in proc'[q].has <=> "port" \in proc[q].has)
    BY <1>2
  <2>2. \A q \in Life!Procs : proc'[q].has # {} => "port" \in proc'[q].has
    BY <1>2 DEF LifeInv, PortFirst
  <2>3. \A q \in Life!Procs : proc'[q].at \in {"pool", "broker", "gateway"} => "port" \in proc'[q].has
    BY <1>2 DEF LifeInv, PortFirst
  <2>4. "port" \in proc'[p].has => \A q \in Life!Procs : "port" \in proc[q].has => q = p
    BY <1>2 DEF LifeInv, PortFirst, Life!PortTaken
  <2>5. \A q, r \in Life!Procs : "port" \in proc'[q].has /\ "port" \in proc'[r].has => q = r
    BY <2>1, <2>4 DEF LifeInv, PortFirst
  <2> QED  BY <2>2, <2>3, <2>5 DEF PortFirst
<1>5. NotBorn'
  <2> SUFFICES ASSUME NEW q \in Life!Procs, q > machine'.started PROVE proc'[q].at = "unborn"
    BY DEF NotBorn
  <2>1. /\ machine.started \in Nat /\ machine'.started \in Nat /\ q \in Nat
        /\ machine.started <= machine'.started
    BY LifeAssumption DEF LifeInv, LifeType, Life!Procs, LifeCounts
  <2>2. q > machine.started  BY <2>1
  <2>3. proc[q].at = "unborn"  BY <2>2 DEF LifeInv, NotBorn
  <2>4. q # p  BY <2>1, <2>3
  <2> QED  BY <1>2, <2>3, <2>4
<1>6. PidOfOne'
  <2>1. CASE pidFile' = 0  BY <2>1 DEF PidOfOne
  <2>2. CASE pidFile' = p /\ x.at = "up"  BY <1>2, <2>2 DEF PidOfOne
  <2>3. CASE /\ pidFile' = pidFile /\ pidFile # 0
             /\ proc[p].at \in {"up", "draining", "stopping", "forced", "wedged", "gone"} =>
                  \/ x.at \in {"up", "draining", "stopping", "forced", "wedged"}
                  \/ x.at = "gone" /\ p \in machine'.died
    <3>1. PidOfOne /\ machine.died \subseteq machine'.died  BY DEF LifeInv
    <3>2. CASE pidFile = p  BY <1>2, <2>3, <3>1, <3>2 DEF PidOfOne
    <3>3. CASE pidFile # p  BY <1>2, <2>3, <3>1, <3>3 DEF PidOfOne
    <3> QED  BY <3>2, <3>3
  <2> QED  BY <2>1, <2>2, <2>3
<1> QED  BY <1>3, <1>4, <1>5, <1>6 DEF LifeInv

\* A process is ended by a crash, a signal or launchd.
LEMMA LifeDies ==
  ASSUME LifeInv, NEW p \in Life!Procs, Life!Running(p), Life!Exits(p),
         machine'.started = machine.started, machine'.died = machine.died \cup {p},
         machine' \in LifeCounts,
         launchd' \in [loaded: BOOLEAN, main: Life!Procs \cup {0}], pidFile' = pidFile
  PROVE  LifeInv'
<1> DEFINE x == [at |-> "gone", has |-> {}]
<1>1. proc' = [proc EXCEPT ![p] = x]  BY DEF Life!Exits, Life!Gone
<1>2. /\ x \in [at: LifeStages, has: SUBSET Life!Subsystems] /\ x.at = "gone" /\ x.has = {}
  BY DEF LifeStages
<1>3. proc[p].at # "unborn"  BY DEF Life!Running
<1>4. machine.started <= machine'.started  BY DEF LifeInv, LifeType, LifeCounts
<1>5. p \in machine'.died /\ machine.died \subseteq machine'.died  OBVIOUS
<1> HIDE DEF x
<1> QED  BY <1>1, <1>2, <1>3, <1>4, <1>5, LifeProcess

\* A signal reaches a running process.
LEMMA LifeSignalled ==
  ASSUME LifeInv, NEW p \in Life!Procs, Life!Running(p), Life!Signalled(p),
         launchd' \in [loaded: BOOLEAN, main: Life!Procs \cup {0}], pidFile' = pidFile
  PROVE  LifeInv'
<1>1. /\ machine \in LifeCounts
      /\ proc \in [Life!Procs -> [at: LifeStages, has: SUBSET Life!Subsystems]]
  BY DEF LifeInv, LifeType
<1>2. machine.signals + 1 \in Nat /\ machine.died \cup {p} \in SUBSET Life!Procs  BY <1>1 DEF LifeCounts
<1>3. CASE proc[p].at = "up"
  <2>1. PICK at \in {"draining", "stopping"} : proc' = [proc EXCEPT ![p].at = at]
    BY <1>3 DEF Life!Signalled, Life!Moves
  <2> DEFINE x == [proc[p] EXCEPT !.at = at]
  <2>2. proc' = [proc EXCEPT ![p] = x]  BY <2>1
  <2>3. /\ x \in [at: LifeStages, has: SUBSET Life!Subsystems] /\ x.at = at
        /\ x.has = proc[p].has
    BY <1>1 DEF LifeStages
  <2>4. /\ machine' = [machine EXCEPT !.signals = machine.signals + 1]
    BY <1>3 DEF Life!Signalled
  <2>5. /\ machine' \in LifeCounts
        /\ machine'.started = machine.started /\ machine'.died = machine.died
    BY <1>1, <1>2, <2>4 DEF LifeCounts
  <2>6. machine.started <= machine'.started  BY <1>1, <2>5 DEF LifeCounts
  <2>7. x.has # {} => "port" \in x.has  BY <2>3 DEF LifeInv, PortFirst
  <2> HIDE DEF x
  <2> QED  BY <1>3, <2>2, <2>3, <2>5, <2>6, <2>7, LifeProcess
<1>4. CASE proc[p].at # "up"
  <2>1. /\ Life!Exits(p)
        /\ machine' = [machine EXCEPT !.signals = machine.signals + 1, !.died = machine.died \cup {p}]
    BY <1>4 DEF Life!Signalled
  <2>2. /\ machine' \in LifeCounts
        /\ machine'.started = machine.started /\ machine'.died = machine.died \cup {p}
    BY <1>1, <1>2, <2>1 DEF LifeCounts
  <2> QED  BY <2>1, <2>2, LifeDies
<1> QED  BY <1>3, <1>4

\* Steps that leave the processes, the PID file and what the file names alone.
LEMMA LifeFrame ==
  ASSUME LifeInv, UNCHANGED <<proc, pidFile>>,
         machine' \in LifeCounts, machine'.started = machine.started, machine'.died = machine.died,
         launchd' \in [loaded: BOOLEAN, main: Life!Procs \cup {0}]
  PROVE  LifeInv'
  BY DEF LifeInv, LifeType, PortFirst, NotBorn, PidOfOne

\* The watchdog takes the gateway down or brings it up again.
LEMMA LifeRecycles ==
  ASSUME LifeInv, NEW p \in Life!Procs, Life!RecycleBegins(p) \/ Life!RecycleEnds(p)
  PROVE  LifeInv'
<1>1. /\ proc \in [Life!Procs -> [at: LifeStages, has: SUBSET Life!Subsystems]]
      /\ proc[p] \in [at: LifeStages, has: SUBSET Life!Subsystems] /\ machine \in LifeCounts
      /\ launchd \in [loaded: BOOLEAN, main: Life!Procs \cup {0}]
  BY DEF LifeInv, LifeType
<1>2. proc[p].at \notin {"unborn", "gone"} /\ UNCHANGED <<pidFile, launchd>>
  BY DEF Life!RecycleBegins, Life!RecycleEnds, Life!Running
<1>3. machine' \in LifeCounts /\ machine'.started = machine.started /\ machine'.died = machine.died
  <2> DEFINE M(R, S) == [machine EXCEPT !.recycling = R, !.late = S]
  <2>1. \A R, S \in SUBSET Life!Procs :
          /\ M(R, S) \in LifeCounts /\ M(R, S).started = machine.started
          /\ M(R, S).died = machine.died
    BY <1>1 DEF LifeCounts
  <2>2. /\ machine.recycling \cup {p} \in SUBSET Life!Procs
        /\ machine.recycling \ {p} \in SUBSET Life!Procs
        /\ machine.late \in SUBSET Life!Procs /\ machine.late \cup {p} \in SUBSET Life!Procs
    BY <1>1 DEF LifeCounts
  <2>3. \E R, S \in SUBSET Life!Procs : machine' = M(R, S)
    <3>1. CASE machine' = [machine EXCEPT !.recycling = @ \cup {p}]
      <4>1. machine' = M(machine.recycling \cup {p}, machine.late)  BY <1>1, <3>1 DEF LifeCounts
      <4> HIDE DEF M
      <4> QED  BY <2>2, <4>1
    <3>2. CASE machine' = [machine EXCEPT !.recycling = @ \ {p}]
      <4>1. machine' = M(machine.recycling \ {p}, machine.late)  BY <1>1, <3>2 DEF LifeCounts
      <4> HIDE DEF M
      <4> QED  BY <2>2, <4>1
    <3>3. CASE machine' = [machine EXCEPT !.recycling = @ \ {p}, !.late = @ \cup {p}]
      BY <1>1, <2>2, <3>3 DEF LifeCounts
    <3> QED  BY <3>1, <3>2, <3>3 DEF Life!RecycleBegins, Life!RecycleEnds
  <2> HIDE DEF M
  <2> QED  BY <2>1, <2>3
<1>4. machine.started <= machine'.started /\ machine.died \subseteq machine'.died
  BY <1>1, <1>3 DEF LifeCounts
<1>5. CASE UNCHANGED proc  BY <1>1, <1>2, <1>3, <1>5, LifeFrame
<1>6. CASE proc' = [proc EXCEPT ![p].has = @ \ {"gateway"}]
  <2> DEFINE x == [proc[p] EXCEPT !.has = proc[p].has \ {"gateway"}]
  <2>1. proc' = [proc EXCEPT ![p] = x]  BY <1>1, <1>6
  <2>2. /\ x \in [at: LifeStages, has: SUBSET Life!Subsystems] /\ x.at = proc[p].at
        /\ x.has = proc[p].has \ {"gateway"}
    BY <1>1
  <2> HIDE DEF x
  <2>3. /\ "port" \in x.has <=> "port" \in proc[p].has
        /\ proc[p].has # {} => "port" \in proc[p].has
        /\ x.at \in {"pool", "broker", "gateway"} => "port" \in x.has
    BY <2>2 DEF LifeInv, PortFirst
  <2>4. x.has # {} => "port" \in x.has  BY <2>2, <2>3
  <2> QED  BY <1>1, <1>2, <1>3, <1>4, <2>1, <2>2, <2>3, <2>4, LifeProcess
<1>7. CASE "port" \in proc[p].has /\ proc' = [proc EXCEPT ![p].has = @ \cup {"gateway"}]
  <2> DEFINE x == [proc[p] EXCEPT !.has = proc[p].has \cup {"gateway"}]
  <2>1. proc' = [proc EXCEPT ![p] = x]  BY <1>1, <1>7
  <2>2. /\ x \in [at: LifeStages, has: SUBSET Life!Subsystems] /\ x.at = proc[p].at
        /\ x.has = proc[p].has \cup {"gateway"}
    BY <1>1 DEF Life!Subsystems
  <2> HIDE DEF x
  <2>3. "port" \in x.has  BY <1>7, <2>2
  <2>4. x.at \notin {"unborn", "gone"} /\ x.at = proc[p].at  BY <1>2, <2>2
  <2>5. /\ "port" \in x.has => "port" \in proc[p].has
        /\ x.at \in {"pool", "broker", "gateway"} => "port" \in x.has
    BY <1>7, <2>3
  <2>6. x.has # {} => "port" \in x.has  BY <2>3
  <2>7. x \in [at: LifeStages, has: SUBSET Life!Subsystems] /\ machine' \in LifeCounts
        /\ launchd' \in [loaded: BOOLEAN, main: Life!Procs \cup {0}]
    BY <1>1, <1>2, <1>3, <2>2
  <2> QED  BY <1>2, <1>4, <2>1, <2>4, <2>5, <2>6, <2>7, LifeProcess
<1> QED  BY <1>5, <1>6, <1>7 DEF Life!RecycleBegins, Life!RecycleEnds

\* What a step of main or shutdown leaves alone.
LEMMA LifeMoves ==
  ASSUME LifeInv, NEW p \in Life!Procs, NEW x \in [at: LifeStages, has: SUBSET Life!Subsystems],
         proc' = [proc EXCEPT ![p] = x],
         "port" \in x.has => "port" \in proc[p].has \/ ~Life!PortTaken,
         x.has # {} => "port" \in x.has,
         x.at \in {"pool", "broker", "gateway"} => "port" \in x.has,
         UNCHANGED <<launchd, machine>>, proc[p].at # "unborn",
         \/ pidFile' = 0
         \/ /\ pidFile' = pidFile
            /\ proc[p].at \in {"up", "draining", "stopping", "forced", "wedged", "gone"} =>
                 x.at \in {"up", "draining", "stopping", "forced", "wedged"}
         \/ pidFile' = p /\ x.at = "up"
  PROVE  LifeInv'
<1>1. /\ machine' \in LifeCounts
      /\ launchd' \in [loaded: BOOLEAN, main: Life!Procs \cup {0}]
      /\ machine.started <= machine'.started /\ machine.died \subseteq machine'.died
  BY DEF LifeInv, LifeType, LifeCounts
<1> QED  BY <1>1, LifeProcess

LEMMA LifeMain ==
  ASSUME LifeInv, NEW p \in Life!Procs,
         Life!AcquirePort(p) \/ Life!SubsystemUp(p) \/ Life!PidWritten(p) \/ Life!MainThrows(p)
  PROVE  LifeInv'
<1>1. /\ proc \in [Life!Procs -> [at: LifeStages, has: SUBSET Life!Subsystems]]
      /\ proc[p] \in [at: LifeStages, has: SUBSET Life!Subsystems]
  BY DEF LifeInv, LifeType
<1>2. proc[p].has # {} => "port" \in proc[p].has  BY DEF LifeInv, PortFirst
<1>3. CASE Life!AcquirePort(p)
  <2>1. proc[p].at = "listen" /\ UNCHANGED <<pidFile, launchd, machine>>
    BY <1>3 DEF Life!AcquirePort
  <2>2. CASE Life!PortTaken
    <3> DEFINE x == [at |-> "gone", has |-> {}]
    <3>1. proc' = [proc EXCEPT ![p] = x]
      BY <1>3, <2>2 DEF Life!AcquirePort, Life!Exits, Life!Gone
    <3>2. x \in [at: LifeStages, has: SUBSET Life!Subsystems] /\ x.at = "gone" /\ x.has = {}
      BY DEF LifeStages
    <3> HIDE DEF x
    <3> QED  BY <2>1, <3>1, <3>2, LifeMoves
  <2>3. CASE ~Life!PortTaken
    <3> DEFINE x == [at |-> "pool", has |-> {"port"}]
    <3>1. proc' = [proc EXCEPT ![p] = x]  BY <1>3, <2>3 DEF Life!AcquirePort
    <3>2. /\ x \in [at: LifeStages, has: SUBSET Life!Subsystems] /\ x.at = "pool"
          /\ x.has = {"port"}
      BY DEF LifeStages, Life!Subsystems
    <3> HIDE DEF x
    <3> QED  BY <2>1, <2>3, <3>1, <3>2, LifeMoves
  <2> QED  BY <2>2, <2>3
<1>4. CASE Life!SubsystemUp(p)
  <2> DEFINE s == proc[p].at
             next == Life!After[s]
  <2>1. /\ s \in {"pool", "broker", "gateway"} /\ next \in {"broker", "gateway", "pid"}
        /\ UNCHANGED <<pidFile, launchd, machine>>
        /\ \/ proc' = [proc EXCEPT ![p] = [at |-> next, has |-> proc[p].has \cup {s}]]
           \/ proc' = [proc EXCEPT ![p] = [proc[p] EXCEPT !.at = next]]
    BY <1>1, <1>4 DEF Life!SubsystemUp, Life!After, Life!Moves
  <2>2. "port" \in proc[p].has  BY <2>1 DEF LifeInv, PortFirst
  <2> HIDE DEF s, next
  <2>3. CASE proc' = [proc EXCEPT ![p] = [at |-> next, has |-> proc[p].has \cup {s}]]
    <3> DEFINE x == [at |-> next, has |-> proc[p].has \cup {s}]
    <3>1. /\ x \in [at: LifeStages, has: SUBSET Life!Subsystems] /\ x.at = next
          /\ x.has = proc[p].has \cup {s}
      BY <1>1, <2>1 DEF LifeStages, Life!Subsystems
    <3> HIDE DEF x
    <3>2. proc' = [proc EXCEPT ![p] = x]  BY <2>3 DEF x
    <3>3. "port" \in x.has /\ x.at \notin {"unborn", "gone"}  BY <2>1, <2>2, <3>1
    <3> QED  BY <2>1, <2>2, <3>1, <3>2, <3>3, LifeMoves DEF s
  <2>4. CASE proc' = [proc EXCEPT ![p] = [proc[p] EXCEPT !.at = next]]
    <3> DEFINE x == [proc[p] EXCEPT !.at = next]
    <3>1. /\ x \in [at: LifeStages, has: SUBSET Life!Subsystems] /\ x.at = next
          /\ x.has = proc[p].has
      BY <1>1, <2>1 DEF LifeStages
    <3> HIDE DEF x
    <3>2. proc' = [proc EXCEPT ![p] = x]  BY <2>4 DEF x
    <3> QED  BY <2>1, <2>2, <3>1, <3>2, LifeMoves DEF s
  <2> QED  BY <2>1, <2>3, <2>4
<1>5. CASE Life!PidWritten(p)
  <2> DEFINE x == [proc[p] EXCEPT !.at = "up"]
  <2>1. /\ proc[p].at = "pid" /\ proc' = [proc EXCEPT ![p] = x] /\ pidFile' = p
        /\ UNCHANGED <<launchd, machine>>
    BY <1>1, <1>5 DEF Life!PidWritten, Life!Moves
  <2>2. /\ x \in [at: LifeStages, has: SUBSET Life!Subsystems] /\ x.at = "up"
        /\ x.has = proc[p].has
    BY <1>1 DEF LifeStages
  <2> HIDE DEF x
  <2> QED  BY <1>2, <2>1, <2>2, LifeMoves
<1>6. CASE Life!MainThrows(p)
  <2> DEFINE x == [proc[p] EXCEPT !.at = "half"]
  <2>1. /\ proc[p].at \in {"pool", "broker", "gateway", "pid"} /\ proc' = [proc EXCEPT ![p] = x]
        /\ UNCHANGED <<pidFile, launchd, machine>>
    BY <1>1, <1>6 DEF Life!MainThrows, Life!Moves
  <2>2. /\ x \in [at: LifeStages, has: SUBSET Life!Subsystems] /\ x.at = "half"
        /\ x.has = proc[p].has
    BY <1>1 DEF LifeStages
  <2> HIDE DEF x
  <2> QED  BY <1>2, <2>1, <2>2, LifeMoves
<1> QED  BY <1>3, <1>4, <1>5, <1>6

LEMMA LifeShutdown ==
  ASSUME LifeInv, NEW p \in Life!Procs,
         \/ Life!DrainEnds(p) \/ Life!SubsystemDown(p) \/ Life!ShutdownThrows(p)
         \/ Life!RemovePid(p)
  PROVE  LifeInv'
<1>1. /\ proc \in [Life!Procs -> [at: LifeStages, has: SUBSET Life!Subsystems]]
      /\ proc[p] \in [at: LifeStages, has: SUBSET Life!Subsystems]
  BY DEF LifeInv, LifeType
<1>2. proc[p].has # {} => "port" \in proc[p].has  BY DEF LifeInv, PortFirst
<1>3. CASE Life!DrainEnds(p) \/ Life!ShutdownThrows(p)
  <2>1. PICK at \in {"stopping", "forced", "wedged"} :
          /\ proc' = [proc EXCEPT ![p].at = at] /\ UNCHANGED <<pidFile, launchd, machine>>
          /\ proc[p].at \in {"draining", "stopping", "forced"}
    BY <1>3 DEF Life!DrainEnds, Life!ShutdownThrows, Life!Moves
  <2> DEFINE x == [proc[p] EXCEPT !.at = at]
  <2>2. proc' = [proc EXCEPT ![p] = x]  BY <2>1
  <2>3. /\ x \in [at: LifeStages, has: SUBSET Life!Subsystems] /\ x.at = at
        /\ x.has = proc[p].has
    BY <1>1 DEF LifeStages
  <2> HIDE DEF x
  <2> QED  BY <1>2, <2>1, <2>2, <2>3, LifeMoves
<1>4. CASE Life!SubsystemDown(p)
  <2> DEFINE d == Life!NextDown(p)
             x == [proc[p] EXCEPT !.has = proc[p].has \ {d}]
  <2>1. proc[p].at \in {"stopping", "forced"} /\ Life!ToStop(p) # {}
    BY <1>4 DEF Life!SubsystemDown, Life!ToStop
  <2>2. proc' = [proc EXCEPT ![p] = x] /\ UNCHANGED <<pidFile, launchd, machine>>
    BY <1>1, <1>4 DEF Life!SubsystemDown
  <2>3. /\ x \in [at: LifeStages, has: SUBSET Life!Subsystems] /\ x.at = proc[p].at
        /\ x.has = proc[p].has \ {d}
    BY <1>1
  <2>4. d = "port" => proc[p].has \subseteq {"port"}
    BY <1>1 DEF Life!NextDown, Life!Subsystems
  <2> HIDE DEF x, d
  <2>5. x.has # {} => "port" \in x.has  BY <1>2, <2>3, <2>4
  <2>6. "port" \in x.has => "port" \in proc[p].has  BY <2>3
  <2> QED  BY <2>1, <2>2, <2>3, <2>5, <2>6, LifeMoves
<1>5. CASE Life!RemovePid(p)
  <2> DEFINE x == [at |-> "gone", has |-> {}]
  <2>1. /\ proc' = [proc EXCEPT ![p] = x] /\ pidFile' = 0 /\ UNCHANGED <<launchd, machine>>
        /\ proc[p].at \in {"stopping", "forced"}
    BY <1>5 DEF Life!RemovePid, Life!Exits, Life!Gone
  <2>2. x \in [at: LifeStages, has: SUBSET Life!Subsystems] /\ x.at = "gone" /\ x.has = {}
    BY DEF LifeStages
  <2> HIDE DEF x
  <2> QED  BY <2>1, <2>2, LifeMoves
<1> QED  BY <1>3, <1>4, <1>5

\* A start, by launchd or by hand.
LEMMA LifeStarts ==
  ASSUME LifeInv, NEW p \in Life!Procs, Life!Started(p),
         launchd' \in [loaded: BOOLEAN, main: Life!Procs \cup {0}], pidFile' = pidFile
  PROVE  LifeInv'
<1> DEFINE x == [proc[p] EXCEPT !.at = "listen"]
<1>1. /\ proc \in [Life!Procs -> [at: LifeStages, has: SUBSET Life!Subsystems]]
      /\ machine \in LifeCounts
  BY DEF LifeInv, LifeType
<1>2. /\ p = machine.started + 1 /\ machine.started < MaxProcs
      /\ proc' = [proc EXCEPT ![p] = x] /\ machine' = [machine EXCEPT !.started = p]
  BY <1>1 DEF Life!Started, Life!Moves
<1>3. proc[p].at = "unborn"  BY <1>1, <1>2, LifeAssumption DEF LifeInv, NotBorn, LifeCounts
<1>4. x \in [at: LifeStages, has: SUBSET Life!Subsystems] /\ x.at = "listen" /\ x.has = proc[p].has
  BY <1>1 DEF LifeStages
<1>5. x.has # {} => "port" \in x.has  BY <1>4 DEF LifeInv, PortFirst
<1>6. /\ machine' \in LifeCounts
      /\ machine'.started = p /\ machine'.died = machine.died
  BY <1>1, <1>2, LifeAssumption DEF Life!Procs, LifeCounts
<1>7. /\ p <= machine'.started /\ machine.started <= machine'.started
  BY <1>1, <1>2, <1>6, LifeAssumption DEF Life!Procs, LifeCounts
<1> HIDE DEF x
<1> QED  BY <1>2, <1>3, <1>4, <1>5, <1>6, <1>7, LifeProcess

LEMMA LifeLaunchd ==
  ASSUME LifeInv, pidFile' = pidFile,
         Life!TermMain \/ UNCHANGED <<proc, machine>>,
         launchd' \in [loaded: BOOLEAN, main: Life!Procs \cup {0}]
  PROVE  LifeInv'
<1>1. CASE UNCHANGED <<proc, machine>>  BY <1>1, LifeFrame DEF LifeInv, LifeType
<1>2. CASE Life!Running(launchd.main) /\ Life!Signalled(launchd.main)
  <2>1. launchd.main \in Life!Procs
    BY <1>2 DEF LifeInv, LifeType, Life!Running
  <2> QED  BY <1>2, <2>1, LifeSignalled
<1> QED  BY <1>1, <1>2 DEF Life!TermMain

\* A process is killed by launchd or by the restart.
LEMMA LifeKilled ==
  ASSUME LifeInv, NEW p \in Life!Procs, Life!Running(p), Life!Exits(p),
         machine' = [machine EXCEPT !.signals = @ + 1, !.died = @ \cup {p}],
         UNCHANGED <<pidFile, launchd>>
  PROVE  LifeInv'
<1>1. machine \in LifeCounts
  BY DEF LifeInv, LifeType
<1>2. machine.signals + 1 \in Nat /\ machine.died \cup {p} \in SUBSET Life!Procs  BY <1>1 DEF LifeCounts
<1>3. /\ machine' \in LifeCounts
      /\ machine'.started = machine.started /\ machine'.died = machine.died \cup {p}
  BY <1>1, <1>2 DEF LifeCounts
<1>4. launchd' \in [loaded: BOOLEAN, main: Life!Procs \cup {0}]
  BY DEF LifeInv, LifeType
<1> QED  BY <1>3, <1>4, LifeDies

LEMMA LifeStep == LifeInv /\ [Life!Next]_(Life!procVars) => LifeInv'
<1> SUFFICES ASSUME LifeInv, [Life!Next]_(Life!procVars) PROVE LifeInv'
  OBVIOUS
<1>1. /\ proc \in [Life!Procs -> [at: LifeStages, has: SUBSET Life!Subsystems]]
      /\ machine \in LifeCounts
      /\ launchd \in [loaded: BOOLEAN, main: Life!Procs \cup {0}]
  BY DEF LifeInv, LifeType
<1>2. ASSUME NEW p \in Life!Procs, Life!Crashes(p)  PROVE LifeInv'
  <2>1. machine.died \cup {p} \in SUBSET Life!Procs  BY <1>1 DEF LifeCounts
  <2>2. /\ machine' \in LifeCounts
        /\ machine'.started = machine.started /\ machine'.died = machine.died \cup {p}
    BY <1>1, <1>2, <2>1 DEF Life!Crashes, Life!Dies, LifeCounts
  <2> QED  BY <1>1, <1>2, <2>2, LifeDies DEF Life!Crashes, Life!Dies
<1>3. ASSUME NEW p \in Life!Procs, Life!KeepAlive(p) \/ Life!Untracked(p)  PROVE LifeInv'
  <2>1. launchd' \in [loaded: BOOLEAN, main: Life!Procs \cup {0}]
    BY <1>1, <1>3 DEF Life!KeepAlive, Life!Untracked
  <2>2. Life!Started(p) /\ pidFile' = pidFile
    BY <1>3 DEF Life!KeepAlive, Life!Untracked
  <2> QED  BY <2>1, <2>2, LifeStarts
<1>4. ASSUME NEW p \in Life!Procs,
             Life!Running(p) /\ Life!Signalled(p) /\ UNCHANGED <<pidFile, launchd, cli>>
      PROVE  LifeInv'
  BY <1>1, <1>4, LifeSignalled
<1>5. ASSUME NEW upgrade \in BOOLEAN, Life!LfStart(upgrade)  PROVE LifeInv'
  <2>1. /\ launchd' \in [loaded: BOOLEAN, main: Life!Procs \cup {0}] /\ pidFile' = pidFile
        /\ Life!TermMain \/ UNCHANGED <<proc, machine>>
    BY <1>1, <1>5 DEF Life!LfStart
  <2> QED  BY <2>1, LifeLaunchd
<1>6. CASE Life!LfStop \/ Life!RestartBegins
  <2>1. /\ launchd' \in [loaded: BOOLEAN, main: Life!Procs \cup {0}] /\ pidFile' = pidFile
        /\ Life!TermMain \/ UNCHANGED <<proc, machine>>
    BY <1>1, <1>6 DEF Life!LfStop, Life!RestartBegins
  <2> QED  BY <2>1, LifeLaunchd
<1>7. CASE Life!ExitTimeout
  <2>1. launchd.main \in Life!Procs  BY <1>1, <1>7 DEF Life!ExitTimeout, Life!Running
  <2>2. /\ Life!Running(launchd.main) /\ Life!Exits(launchd.main)
        /\ machine' = [machine EXCEPT !.signals = @ + 1, !.died = @ \cup {launchd.main}]
        /\ UNCHANGED <<pidFile, launchd>>
    BY <1>7 DEF Life!ExitTimeout
  <2> QED  BY <2>1, <2>2, LifeKilled
<1>8. CASE Life!RestartKills
  <2>1. UNCHANGED <<pidFile, launchd>>  BY <1>8 DEF Life!RestartKills
  <2>2. CASE Life!Wedged
    <3>1. cli.old \in Life!Procs  BY <2>2 DEF Life!Wedged, LifeInv, PidOfOne
    <3>2. /\ Life!Running(cli.old) /\ Life!Exits(cli.old)
          /\ machine' = [machine EXCEPT !.signals = @ + 1, !.died = @ \cup {cli.old}]
      BY <1>8, <2>2 DEF Life!RestartKills, Life!Wedged
    <3> QED  BY <2>1, <3>1, <3>2, LifeKilled
  <2>3. CASE ~Life!Wedged
    BY <1>1, <1>8, <2>1, <2>3, LifeFrame DEF Life!RestartKills
  <2> QED  BY <2>2, <2>3
<1>9. CASE Life!KickReturns \/ Life!RestartEnds \/ UNCHANGED Life!procVars
  <2>1. UNCHANGED <<proc, pidFile, launchd, machine>>
    BY <1>9 DEF Life!KickReturns, Life!RestartEnds, Life!procVars
  <2> QED  BY <1>1, <2>1, LifeFrame
<1> QED
  BY <1>2, <1>3, <1>4, <1>5, <1>6, <1>7, <1>8, <1>9, LifeMain, LifeShutdown, LifeRecycles
  DEF Life!Next

LEMMA LifeSafe == LifeInv => OneDaemonAtWork
<1> SUFFICES ASSUME LifeInv PROVE Life!OneDaemonAtWork  BY DEF OneDaemonAtWork
<1>1. ASSUME NEW s \in Life!Subsystems, NEW p \in Life!Procs, NEW q \in Life!Procs,
             Life!Holds(p, s), Life!Holds(q, s)
      PROVE  p = q \/ (s = "gateway" /\ {p, q} \cap machine.late # {})
  <2>1. CASE s \in proc[p].has /\ s \in proc[q].has
    <3>1. "port" \in proc[p].has /\ "port" \in proc[q].has  BY <2>1 DEF LifeInv, PortFirst
    <3> QED  BY <3>1 DEF LifeInv, PortFirst
  <2>2. CASE s = "gateway" /\ (p \in machine.late \/ q \in machine.late)  BY <2>2
  <2> QED  BY <1>1, <2>1, <2>2 DEF Life!Holds
<1>2. pidFile # 0 => Life!Running(pidFile) \/ pidFile \in machine.died
  BY DEF LifeInv, PidOfOne, Life!Running
<1> QED  BY <1>1, <1>2 DEF Life!OneDaemonAtWork

\* For every number of processes and signals: the port, the pool, the broker socket
\* and the gateway are of one process at a time through restarts, kills, forced exits
\* and duplicates, because acquire_port comes before and server.close after all the
\* others (index.ts), except for a gateway whose recycle logs in after disconnect; and the PID file names a daemon that runs or was cut short.
THEOREM OneDaemon == Life!Spec => []OneDaemonAtWork
  BY LifeInit, LifeStep, LifeSafe, PTL DEF Life!Spec

--------------------------------------------------------------------------------
(* The gateway's clients and the recycles of its watchdog: Gateway.                  *)

ClientStages == {"new", "connecting", "live", "silent", "dead"}
GateType ==
  /\ clients \in [Clients -> ClientStages]
  /\ bot \in [client: Clients, connected: BOOLEAN, overrun: BOOLEAN]
  /\ watchdog \in [on: BOOLEAN, pc: {"idle", "race", "alert"}, was: BOOLEAN, ack: Nat, base: Nat]
  /\ recycles \in [Attempts -> [pc: {"idle", "typing", "destroy", "login"},
                                client: Clients \cup {Gate!None}, late: BOOLEAN]]
  /\ \A a \in Attempts : recycles[a].pc = "login" => recycles[a].client \in Clients

InTime(a) == recycles[a].pc # "idle" /\ ~recycles[a].late

\* One recycle is within its deadline, and the watchdog waits for it.
OneRace == \A a \in Attempts : InTime(a) => watchdog.pc = "race" /\ \A b \in Attempts : InTime(b) => a = b

\* Until a recycle comes out of destroy() overdue, every client but the bot's is
\* dead, and so is the bot's between destroy() and the client that replaces it.
OthersDead ==
  ~bot.overrun =>
    /\ \A c \in Clients : c # bot.client => clients[c] = "dead"
    /\ \A a \in Attempts : recycles[a].pc = "destroy" /\ ~recycles[a].late => clients[bot.client] = "dead"

GateInv == GateType /\ OneRace /\ OthersDead

LEMMA GateInit == Gate!Init => GateInv
  BY GatewayAssumption
  DEF Gate!Init, Gate!NoRecycle, Gate!None, GateInv, GateType, ClientStages, OneRace, InTime, OthersDead

\* A step that starts, ends or times out no recycle and opens no client keeps the
\* invariant when it revives no dead client.
LEMMA GateFrame ==
  ASSUME GateInv, UNCHANGED recycles, clients' \in [Clients -> ClientStages],
         \A c \in Clients : clients[c] = "dead" => clients'[c] = "dead",
         bot' \in [client: Clients, connected: BOOLEAN, overrun: BOOLEAN],
         bot'.client = bot.client, bot'.overrun = bot.overrun,
         watchdog' \in [on: BOOLEAN, pc: {"idle", "race", "alert"}, was: BOOLEAN, ack: Nat, base: Nat],
         watchdog'.pc = watchdog.pc \/ watchdog.pc # "race"
  PROVE  GateInv'
<1>1. GateType'  BY DEF GateInv, GateType
<1>2. OneRace'  BY DEF GateInv, OneRace, InTime
<1>3. OthersDead'  BY DEF GateInv, GateType, OthersDead
<1> QED  BY <1>1, <1>2, <1>3 DEF GateInv

\* A recycle that is started: none is within its deadline, and it is yet to destroy.
LEMMA GateStarts ==
  ASSUME GateInv, NEW a \in Attempts, Gate!RunRecycle(a), watchdog.pc = "idle",
         clients' \in [Clients -> ClientStages], UNCHANGED bot,
         \A c \in Clients : clients[c] = "dead" => clients'[c] = "dead"
  PROVE  GateInv'
<1>1. /\ recycles \in [Attempts -> [pc: {"idle", "typing", "destroy", "login"},
                                    client: Clients \cup {Gate!None}, late: BOOLEAN]]
      /\ watchdog \in [on: BOOLEAN, pc: {"idle", "race", "alert"}, was: BOOLEAN, ack: Nat, base: Nat]
  BY DEF GateInv, GateType
<1> DEFINE r == [Gate!NoRecycle EXCEPT !.pc = "typing"]
<1>2. recycles' = [recycles EXCEPT ![a] = r] /\ watchdog' = [watchdog EXCEPT !.pc = "race"]
  BY DEF Gate!RunRecycle
<1>3. /\ r \in [pc: {"idle", "typing", "destroy", "login"}, client: Clients \cup {Gate!None}, late: BOOLEAN]
      /\ r.pc = "typing" /\ ~r.late
  BY DEF Gate!NoRecycle
<1> HIDE DEF r
<1>4. recycles'[a] = r /\ \A b \in Attempts : b # a => recycles'[b] = recycles[b]  BY <1>1, <1>2
<1>5. GateType'
  <2>1. recycles' \in [Attempts -> [pc: {"idle", "typing", "destroy", "login"},
                                    client: Clients \cup {Gate!None}, late: BOOLEAN]]
    BY <1>1, <1>2, <1>3
  <2>2. watchdog' \in [on: BOOLEAN, pc: {"idle", "race", "alert"}, was: BOOLEAN, ack: Nat, base: Nat]
    BY <1>1, <1>2
  <2>3. \A b \in Attempts : recycles'[b].pc = "login" => recycles'[b].client \in Clients
    BY <1>3, <1>4 DEF GateInv, GateType
  <2> QED  BY <2>1, <2>2, <2>3 DEF GateInv, GateType
<1>6. OneRace'
  <2>1. \A b \in Attempts : b # a => ~InTime(b)'
    BY <1>4 DEF GateInv, OneRace, InTime
  <2>2. watchdog'.pc = "race"  BY <1>1, <1>2
  <2> QED  BY <2>1, <2>2 DEF OneRace, InTime
<1>7. OthersDead'  BY <1>3, <1>4 DEF GateInv, GateType, OthersDead
<1> QED  BY <1>5, <1>6, <1>7 DEF GateInv

LEMMA GateWatchdog ==
  ASSUME GateInv,
         \/ Gate!TimePasses \/ Gate!TickWaits \/ Gate!AlertSent \/ Gate!Disconnect
         \/ \E c \in Clients : Gate!GoesSilent(c) \/ Gate!Reconnects(c)
  PROVE  GateInv'
<1>1. GateType  BY DEF GateInv
<1>2. CASE Gate!TimePasses
  <2>1. \A n \in Nat : Gate!Older(n) \in Nat  BY GatewayAssumption DEF Gate!Older
  <2>2. watchdog.ack \in Nat /\ watchdog.base \in Nat  BY <1>1 DEF GateType
  <2>3. PICK ack \in Nat, base \in Nat : watchdog' = [watchdog EXCEPT !.ack = ack, !.base = base]
    BY <1>2, <2>1, <2>2 DEF Gate!TimePasses
  <2>4. /\ watchdog' \in [on: BOOLEAN, pc: {"idle", "race", "alert"}, was: BOOLEAN, ack: Nat, base: Nat]
        /\ watchdog'.pc = watchdog.pc
    BY <1>1, <2>3 DEF GateType
  <2>5. UNCHANGED <<clients, bot, recycles>>  BY <1>2 DEF Gate!TimePasses
  <2> QED  BY <1>1, <2>4, <2>5, GateFrame DEF GateType
<1>3. CASE Gate!TickWaits \/ Gate!AlertSent
  <2>1. watchdog \in [on: BOOLEAN, pc: {"idle", "race", "alert"}, was: BOOLEAN, ack: Nat, base: Nat]
    BY <1>1 DEF GateType
  <2>2. /\ \/ watchdog' = [watchdog EXCEPT !.was = TRUE]
           \/ watchdog' = [watchdog EXCEPT !.was = FALSE, !.base = 0]
           \/ watchdog' = [watchdog EXCEPT !.pc = "idle", !.base = 0, !.was = FALSE]
        /\ watchdog.pc # "race" /\ UNCHANGED <<clients, bot, recycles>>
    BY <1>3 DEF Gate!TickWaits, Gate!AlertSent
  <2>3. watchdog' \in [on: BOOLEAN, pc: {"idle", "race", "alert"}, was: BOOLEAN, ack: Nat, base: Nat]
    <3>1. [watchdog EXCEPT !.was = TRUE] \in
            [on: BOOLEAN, pc: {"idle", "race", "alert"}, was: BOOLEAN, ack: Nat, base: Nat]
      BY <2>1
    <3>2. [watchdog EXCEPT !.was = FALSE, !.base = 0] \in
            [on: BOOLEAN, pc: {"idle", "race", "alert"}, was: BOOLEAN, ack: Nat, base: Nat]
      BY <2>1
    <3>3. [watchdog EXCEPT !.pc = "idle", !.base = 0, !.was = FALSE] \in
            [on: BOOLEAN, pc: {"idle", "race", "alert"}, was: BOOLEAN, ack: Nat, base: Nat]
      BY <2>1
    <3> QED  BY <2>2, <3>1, <3>2, <3>3, Zenon
  <2> QED  BY <1>1, <2>2, <2>3, GateFrame DEF GateType
<1>4. CASE Gate!Disconnect
  <2>1. /\ watchdog' \in [on: BOOLEAN, pc: {"idle", "race", "alert"}, was: BOOLEAN, ack: Nat, base: Nat]
        /\ watchdog'.pc = watchdog.pc /\ UNCHANGED recycles
    BY <1>1, <1>4 DEF Gate!Disconnect, GateType
  <2>2. /\ bot' \in [client: Clients, connected: BOOLEAN, overrun: BOOLEAN]
        /\ bot'.client = bot.client /\ bot'.overrun = bot.overrun
    BY <1>1, <1>4 DEF Gate!Disconnect, GateType
  <2>3. /\ clients' \in [Clients -> ClientStages]
        /\ \A c \in Clients : clients[c] = "dead" => clients'[c] = "dead"
    BY <1>1, <1>4 DEF Gate!Disconnect, Gate!Destroyed, GateType, ClientStages
  <2> QED  BY <2>1, <2>2, <2>3, GateFrame
<1>5. ASSUME NEW c \in Clients, Gate!GoesSilent(c) \/ Gate!Reconnects(c)  PROVE GateInv'
  <2>1. /\ clients' \in [Clients -> ClientStages] /\ UNCHANGED <<bot, watchdog, recycles>>
        /\ \A d \in Clients : clients[d] = "dead" => clients'[d] = "dead"
    BY <1>1, <1>5 DEF Gate!GoesSilent, Gate!Reconnects, GateType, ClientStages
  <2> QED  BY <1>1, <2>1, GateFrame DEF GateType
<1> QED  BY <1>2, <1>3, <1>4, <1>5

LEMMA GateRuns ==
  ASSUME GateInv, NEW a \in Attempts,
         \/ Gate!TickRecycles(a) \/ \E c \in Clients : Gate!Invalidated(a, c)
  PROVE  GateInv'
<1>1. GateType  BY DEF GateInv
<1>2. CASE Gate!TickRecycles(a)
  <2>1. watchdog.pc = "idle" /\ Gate!RunRecycle(a) /\ UNCHANGED <<clients, bot>>
    BY <1>2 DEF Gate!TickRecycles
  <2> QED  BY <1>1, <2>1, GateStarts DEF GateType
<1>3. ASSUME NEW c \in Clients, Gate!Invalidated(a, c)  PROVE GateInv'
  <2>1. /\ clients' \in [Clients -> ClientStages] /\ UNCHANGED bot
        /\ \A d \in Clients : clients[d] = "dead" => clients'[d] = "dead"
    BY <1>1, <1>3 DEF Gate!Invalidated, GateType, ClientStages
  <2>2. CASE watchdog.pc = "idle"
    <3>1. Gate!RunRecycle(a)  BY <1>3, <2>2 DEF Gate!Invalidated
    <3> QED  BY <2>1, <2>2, <3>1, GateStarts
  <2>3. CASE watchdog.pc # "idle"
    <3>1. UNCHANGED <<watchdog, recycles>>  BY <1>3, <2>3 DEF Gate!Invalidated
    <3> QED  BY <1>1, <2>1, <3>1, GateFrame DEF GateType
  <2> QED  BY <2>2, <2>3
<1> QED  BY <1>2, <1>3

\* A step of one recycle under way; the clients are left to the step.
LEMMA GateRecycle ==
  ASSUME GateInv, NEW a \in Attempts, recycles[a].pc # "idle",
         NEW r \in [pc: {"idle", "typing", "destroy", "login"}, client: Clients \cup {Gate!None},
                    late: BOOLEAN],
         recycles' = [recycles EXCEPT ![a] = r], r.pc = "login" => r.client \in Clients,
         clients' \in [Clients -> ClientStages],
         bot' \in [client: Clients, connected: BOOLEAN, overrun: BOOLEAN],
         watchdog' \in [on: BOOLEAN, pc: {"idle", "race", "alert"}, was: BOOLEAN, ack: Nat, base: Nat],
         \/ watchdog'.pc = watchdog.pc /\ (r.pc # "idle" /\ ~r.late => ~recycles[a].late)
         \/ ~recycles[a].late /\ (r.late \/ r.pc = "idle"),
         OthersDead'
  PROVE  GateInv'
<1>1. recycles \in [Attempts -> [pc: {"idle", "typing", "destroy", "login"},
                                 client: Clients \cup {Gate!None}, late: BOOLEAN]]
  BY DEF GateInv, GateType
<1>2. recycles'[a] = r /\ \A b \in Attempts : b # a => recycles'[b] = recycles[b]  BY <1>1
<1>3. GateType'
  <2>1. recycles' \in [Attempts -> [pc: {"idle", "typing", "destroy", "login"},
                                    client: Clients \cup {Gate!None}, late: BOOLEAN]]
    BY <1>1
  <2>2. \A b \in Attempts : recycles'[b].pc = "login" => recycles'[b].client \in Clients
    BY <1>2 DEF GateInv, GateType
  <2> QED  BY <2>1, <2>2 DEF GateType
<1>4. OneRace'
  <2>1. CASE watchdog'.pc = watchdog.pc /\ (r.pc # "idle" /\ ~r.late => ~recycles[a].late)
    <3>1. \A b \in Attempts : InTime(b)' => InTime(b)  BY <1>2, <2>1 DEF InTime
    <3> QED  BY <2>1, <3>1 DEF GateInv, OneRace
  <2>2. CASE ~recycles[a].late /\ (r.late \/ r.pc = "idle")
    <3>1. InTime(a)  BY <2>2 DEF InTime
    <3>2. \A b \in Attempts : ~InTime(b)'  BY <1>2, <2>2, <3>1 DEF GateInv, OneRace, InTime
    <3> QED  BY <3>2 DEF OneRace
  <2> QED  BY <2>1, <2>2
<1> QED  BY <1>3, <1>4 DEF GateInv

LEMMA GateDeadline == ASSUME GateInv, NEW a \in Attempts, Gate!DeadlinePasses(a) PROVE GateInv'
<1> DEFINE r == [recycles[a] EXCEPT !.late = TRUE]
<1>1. GateType /\ OthersDead  BY DEF GateInv
<1>2. /\ recycles[a].pc # "idle" /\ ~recycles[a].late /\ UNCHANGED <<clients, bot>>
      /\ recycles' = [recycles EXCEPT ![a] = r] /\ watchdog' = [watchdog EXCEPT !.pc = "alert"]
  BY <1>1 DEF Gate!DeadlinePasses, GateType
<1>3. /\ r \in [pc: {"idle", "typing", "destroy", "login"}, client: Clients \cup {Gate!None},
                late: BOOLEAN]
      /\ r.late /\ r.client = recycles[a].client /\ r.pc = recycles[a].pc
  BY <1>1 DEF GateType
<1>4. watchdog' \in [on: BOOLEAN, pc: {"idle", "race", "alert"}, was: BOOLEAN, ack: Nat, base: Nat]
  BY <1>1, <1>2 DEF GateType
<1> HIDE DEF r
<1>5. OthersDead'
  <2>1. \A b \in Attempts : recycles'[b] = recycles[b] \/ recycles'[b].late
    BY <1>1, <1>2, <1>3 DEF GateType
  <2> QED  BY <1>1, <1>2, <2>1 DEF OthersDead
<1>6. r.pc = "login" => r.client \in Clients  BY <1>1, <1>3 DEF GateType
<1>7. /\ clients' \in [Clients -> ClientStages]
      /\ bot' \in [client: Clients, connected: BOOLEAN, overrun: BOOLEAN]
  BY <1>1, <1>2 DEF GateType
<1> QED  BY <1>2, <1>3, <1>4, <1>5, <1>6, <1>7, GateRecycle

LEMMA GateDestroys == ASSUME GateInv, NEW a \in Attempts, Gate!RecycleDestroys(a) PROVE GateInv'
<1> DEFINE r == [recycles[a] EXCEPT !.pc = "destroy"]
<1>1. GateType /\ OthersDead  BY DEF GateInv
<1>2. /\ recycles[a].pc = "typing" /\ recycles' = [recycles EXCEPT ![a] = r] /\ UNCHANGED watchdog
      /\ clients' = [clients EXCEPT ![bot.client] = "dead"]
      /\ bot' = [bot EXCEPT !.connected = FALSE]
  BY <1>1 DEF Gate!RecycleDestroys, Gate!Destroyed, GateType
<1>3. /\ r \in [pc: {"idle", "typing", "destroy", "login"}, client: Clients \cup {Gate!None},
                late: BOOLEAN]
      /\ r.late = recycles[a].late /\ r.pc = "destroy"
  BY <1>1 DEF GateType
<1>4. /\ bot' \in [client: Clients, connected: BOOLEAN, overrun: BOOLEAN]
      /\ bot'.client = bot.client /\ bot'.overrun = bot.overrun
  BY <1>1, <1>2 DEF GateType
<1>5. /\ clients' \in [Clients -> ClientStages] /\ clients'[bot.client] = "dead"
      /\ \A c \in Clients : clients[c] = "dead" => clients'[c] = "dead"
  BY <1>1, <1>2 DEF GateType, ClientStages
<1> HIDE DEF r
<1>6. OthersDead'  BY <1>1, <1>4, <1>5 DEF OthersDead, GateType
<1>7. watchdog' \in [on: BOOLEAN, pc: {"idle", "race", "alert"}, was: BOOLEAN, ack: Nat, base: Nat]
  BY <1>1, <1>2 DEF GateType
<1> QED  BY <1>2, <1>3, <1>4, <1>5, <1>6, <1>7, GateRecycle

LEMMA GateOpens == ASSUME GateInv, NEW a \in Attempts, Gate!RecycleOpens(a) PROVE GateInv'
<1>1. GateType /\ OthersDead  BY DEF GateInv
<1>2. PICK c \in Clients :
        /\ recycles[a].pc = "destroy" /\ watchdog' = [watchdog EXCEPT !.ack = Threshold]
        /\ clients' = [clients EXCEPT ![c] = "new"]
        /\ recycles' = [recycles EXCEPT ![a].pc = "login", ![a].client = c]
        /\ bot' = [bot EXCEPT !.client = c, !.overrun = @ \/ recycles[a].late]
  BY DEF Gate!RecycleOpens
<1> DEFINE r == [recycles[a] EXCEPT !.pc = "login", !.client = c]
<1>3. recycles' = [recycles EXCEPT ![a] = r]  BY <1>1, <1>2 DEF GateType
<1>4. /\ r \in [pc: {"idle", "typing", "destroy", "login"}, client: Clients \cup {Gate!None},
                late: BOOLEAN]
      /\ r.late = recycles[a].late /\ r.pc = "login" /\ r.client = c
  BY <1>1 DEF GateType
<1>5. /\ bot' \in [client: Clients, connected: BOOLEAN, overrun: BOOLEAN]
      /\ bot'.client = c /\ (~bot'.overrun => ~bot.overrun /\ ~recycles[a].late)
  <2>1. bot \in [client: Clients, connected: BOOLEAN, overrun: BOOLEAN]  BY <1>1 DEF GateType
  <2> DEFINE o == bot.overrun \/ recycles[a].late
  <2>2. o \in BOOLEAN  OBVIOUS
  <2>3. bot' = [bot EXCEPT !.client = c, !.overrun = o]  BY <1>2
  <2>4. ~o => ~bot.overrun /\ ~recycles[a].late  OBVIOUS
  <2> HIDE DEF o
  <2>5. /\ bot' \in [client: Clients, connected: BOOLEAN, overrun: BOOLEAN]
        /\ bot'.client = c /\ bot'.overrun = o
    BY <2>1, <2>2, <2>3
  <2> QED  BY <2>4, <2>5, Zenon
<1>6. /\ clients' \in [Clients -> ClientStages]
      /\ \A d \in Clients : d # c => clients'[d] = clients[d]
  BY <1>1, <1>2 DEF GateType, ClientStages
<1>7. watchdog' \in [on: BOOLEAN, pc: {"idle", "race", "alert"}, was: BOOLEAN, ack: Nat, base: Nat]
      /\ watchdog'.pc = watchdog.pc
  BY <1>1, <1>2, GatewayAssumption DEF GateType
<1> HIDE DEF r
<1>8. OthersDead'
  <2> SUFFICES ASSUME ~bot.overrun, ~recycles[a].late
      PROVE  /\ \A d \in Clients : d # c => clients'[d] = "dead"
             /\ \A b \in Attempts : recycles'[b].pc = "destroy" => recycles'[b].late
    <3>1. CASE bot'.overrun  BY <3>1 DEF OthersDead
    <3>2. CASE ~bot'.overrun
      <4>1. ~bot.overrun /\ ~recycles[a].late  BY <1>5, <3>2
      <4>2. /\ \A d \in Clients : d # c => clients'[d] = "dead"
            /\ \A b \in Attempts : recycles'[b].pc = "destroy" => recycles'[b].late
        BY <4>1
      <4>3. /\ \A d \in Clients : d # bot'.client => clients'[d] = "dead"
            /\ \A b \in Attempts :
                 recycles'[b].pc = "destroy" /\ ~recycles'[b].late => clients'[bot'.client] = "dead"
        BY <1>5, <4>2
      <4> QED  BY <4>3, Zenon DEF OthersDead
    <3> QED  BY <3>1, <3>2
  <2>1. clients[bot.client] = "dead"  BY <1>1, <1>2 DEF OthersDead
  <2>2. \A d \in Clients : d # c => clients'[d] = "dead"
    BY <1>1, <1>6, <2>1 DEF OthersDead
  <2>3. InTime(a)  BY <1>2 DEF InTime
  <2>4. \A b \in Attempts : b # a => ~InTime(b)  BY <2>3 DEF GateInv, OneRace
  <2>5. recycles'[a] = r /\ \A b \in Attempts : b # a => recycles'[b] = recycles[b]
    BY <1>1, <1>3 DEF GateType
  <2>6. \A b \in Attempts : recycles'[b].pc = "destroy" => recycles'[b].late
    BY <1>4, <2>4, <2>5 DEF InTime
  <2> QED  BY <2>2, <2>6
<1>9. /\ recycles[a].pc # "idle" /\ r.client \in Clients
      /\ r.pc # "idle" /\ ~r.late => ~recycles[a].late
  BY <1>2, <1>4
<1> QED  BY <1>3, <1>4, <1>5, <1>6, <1>7, <1>8, <1>9, GateRecycle

LEMMA GateLogin ==
  ASSUME GateInv, NEW a \in Attempts, Gate!LoginConnects(a) \/ Gate!LoginEnds(a)
  PROVE  GateInv'
<1> DEFINE c == recycles[a].client
<1>1. GateType /\ OthersDead  BY DEF GateInv
<1>2. recycles[a].pc = "login" /\ c \in Clients
  BY <1>1 DEF Gate!LoginConnects, Gate!LoginEnds, GateType
<1>3. CASE Gate!LoginConnects(a)
  <2>1. /\ clients' \in [Clients -> ClientStages] /\ UNCHANGED <<bot, watchdog, recycles>>
        /\ \A d \in Clients : clients[d] = "dead" => clients'[d] = "dead"
    BY <1>1, <1>2, <1>3 DEF Gate!LoginConnects, GateType, ClientStages
  <2> QED  BY <1>1, <2>1, GateFrame DEF GateType
<1>4. CASE Gate!LoginEnds(a)
  <2> DEFINE r == Gate!NoRecycle
  <2>1. recycles' = [recycles EXCEPT ![a] = r]  BY <1>4 DEF Gate!LoginEnds, Gate!Settled
  <2>2. /\ r \in [pc: {"idle", "typing", "destroy", "login"}, client: Clients \cup {Gate!None},
                  late: BOOLEAN]
        /\ r.pc = "idle"
    BY DEF Gate!NoRecycle
  <2>3. /\ watchdog' \in [on: BOOLEAN, pc: {"idle", "race", "alert"}, was: BOOLEAN, ack: Nat, base: Nat]
        /\ recycles[a].late => watchdog'.pc = watchdog.pc
    BY <1>1, <1>4 DEF Gate!LoginEnds, Gate!Settled, GateType
  <2>4. /\ bot' \in [client: Clients, connected: BOOLEAN, overrun: BOOLEAN]
        /\ bot'.client = bot.client /\ bot'.overrun = bot.overrun
    BY <1>1, <1>4 DEF Gate!LoginEnds, GateType
  <2>5. /\ clients' \in [Clients -> ClientStages]
        /\ \A d \in Clients : clients[d] = "dead" => clients'[d] = "dead"
    <3>1. CASE clients[c] = "connecting" /\ clients' = [clients EXCEPT ![c] = "live"]
      BY <1>1, <1>2, <3>1 DEF GateType, ClientStages
    <3>2. CASE clients' = [clients EXCEPT ![c] = IF @ = "dead" THEN "dead" ELSE "silent"]
      BY <1>1, <1>2, <3>2 DEF GateType, ClientStages
    <3> QED  BY <1>4, <3>1, <3>2 DEF Gate!LoginEnds
  <2> HIDE DEF r
  <2>6. OthersDead'
    <3>1. \A b \in Attempts : recycles'[b].pc = "idle" \/ recycles'[b] = recycles[b]
      BY <1>1, <2>1, <2>2 DEF GateType
    <3> QED  BY <1>1, <2>4, <2>5, <3>1 DEF OthersDead, GateType
  <2> QED  BY <1>2, <2>1, <2>2, <2>3, <2>4, <2>5, <2>6, GateRecycle
<1> QED  BY <1>3, <1>4

LEMMA GateStep == GateInv /\ [Gate!Next]_(Gate!gatewayVars) => GateInv'
<1> SUFFICES ASSUME GateInv, [Gate!Next]_(Gate!gatewayVars) PROVE GateInv'
  OBVIOUS
<1>1. CASE UNCHANGED Gate!gatewayVars
  <2>1. UNCHANGED <<clients, bot, watchdog, recycles>>  BY <1>1 DEF Gate!gatewayVars
  <2> QED  BY <2>1, GateFrame DEF GateInv, GateType
<1>2. CASE Gate!Next
  BY <1>2, GateWatchdog, GateRuns, GateDeadline, GateDestroys, GateOpens, GateLogin
  DEF Gate!Next, Gate!RecycleStep
<1> QED  BY <1>1, <1>2

LEMMA GateSafe == GateInv => OneLiveClient
  BY DEF GateInv, OthersDead, OneLiveClient, Gate!OneLiveClient, Gate!LiveClients

\* For every number of clients, recycles and threshold: events are handled by one
\* client, until a recycle comes out of destroy() after its deadline (recycle_client,
\* discord.ts; run_recycle, gateway-watchdog.ts).
THEOREM OneGatewayClient == Gate!Spec => []OneLiveClient
  BY GateInit, GateStep, GateSafe, PTL DEF Gate!Spec

--------------------------------------------------------------------------------
(* The commander and what restarts it: Commander.                                    *)

CommandInv ==
  /\ startCalls \in [Starts -> {"idle", "token", "sid", "made", "failed"}]
  /\ cmd \in [state: {"stopped", "starting", "running", "crashed"}, count: Nat, timers: Nat,
              resets: Nat, poll: BOOLEAN, shut: BOOLEAN]
  /\ seen \in [upsets: Nat, gaveUp: BOOLEAN, noToken: BOOLEAN, byStatus: BOOLEAN]
  /\ heal \in [pc: {"idle", "alert", "settle"}, call: Starts]
  /\ NoSilentDarkness

\* Steps of the session, of time and of the probe leave the state, the calls and the
\* timers as they are.
LEMMA CommandFrame ==
  ASSUME CommandInv, UNCHANGED <<cmd, startCalls>>,
         heal' \in [pc: {"idle", "alert", "settle"}, call: Starts], heal.pc = "alert" => heal' = heal,
         seen' \in [upsets: Nat, gaveUp: BOOLEAN, noToken: BOOLEAN, byStatus: BOOLEAN],
         seen'.gaveUp = seen.gaveUp, seen'.noToken = seen.noToken, seen'.byStatus = seen.byStatus
  PROVE  CommandInv'
  BY DEF CommandInv, NoSilentDarkness, Command!NoSilentDarkness

LEMMA CommandInit == Command!Init => CommandInv
<1> SUFFICES ASSUME Command!Init PROVE CommandInv
  OBVIOUS
<1>1. PICK c \in Starts : startCalls = [d \in Starts |-> IF d = c THEN "token" ELSE "idle"]
  BY DEF Command!Init
<1>2. (CHOOSE d \in Starts : TRUE) \in Starts  BY <1>1
<1>3. startCalls[c] = "token"  BY <1>1
<1> QED
  BY <1>1, <1>2, <1>3 DEF Command!Init, CommandInv, NoSilentDarkness, Command!NoSilentDarkness

\* A step that changes the state: the new one is up, or something will bring it up or
\* says why not.
LEMMA CommandMoves ==
  ASSUME CommandInv,
         startCalls' \in [Starts -> {"idle", "token", "sid", "made", "failed"}],
         cmd' \in [state: {"stopped", "starting", "running", "crashed"}, count: Nat, timers: Nat,
                   resets: Nat, poll: BOOLEAN, shut: BOOLEAN],
         seen' \in [upsets: Nat, gaveUp: BOOLEAN, noToken: BOOLEAN, byStatus: BOOLEAN],
         heal' \in [pc: {"idle", "alert", "settle"}, call: Starts],
         \/ cmd'.state \in {"starting", "running"}
         \/ cmd'.timers > 0 \/ (\E c \in Starts : startCalls'[c] # "idle")
         \/ cmd'.shut \/ seen'.gaveUp \/ seen'.noToken \/ seen'.byStatus
  PROVE  CommandInv'
  BY DEF CommandInv, NoSilentDarkness, Command!NoSilentDarkness

LEMMA CommandScheduled ==
  ASSUME CommandInv, NEW c \in [state: {"stopped", "starting", "running", "crashed"}, count: Nat,
                                timers: Nat, resets: Nat, poll: BOOLEAN, shut: BOOLEAN],
         c = Command!Scheduled("crashed"), seen' = [seen EXCEPT !.gaveUp = Command!GaveUp]
  PROVE  /\ c.timers > 0 \/ seen'.gaveUp
         /\ seen' \in [upsets: Nat, gaveUp: BOOLEAN, noToken: BOOLEAN, byStatus: BOOLEAN]
<1>1. /\ seen \in [upsets: Nat, gaveUp: BOOLEAN, noToken: BOOLEAN, byStatus: BOOLEAN]
      /\ cmd \in [state: {"stopped", "starting", "running", "crashed"}, count: Nat, timers: Nat,
                  resets: Nat, poll: BOOLEAN, shut: BOOLEAN]
  BY DEF CommandInv
<1> DEFINE g == Command!GaveUp
<1>2. g \in BOOLEAN /\ (cmd.count + 1 > MaxRestarts => g)  BY DEF Command!GaveUp
<1> HIDE DEF g
<1>3. seen' \in [upsets: Nat, gaveUp: BOOLEAN, noToken: BOOLEAN, byStatus: BOOLEAN] /\ seen'.gaveUp = g
  BY <1>1, <1>2 DEF g
<1>4. ~(cmd.count + 1 > MaxRestarts) => c.timers = cmd.timers + 1
  BY <1>1 DEF Command!Scheduled
<1> QED  BY <1>1, <1>2, <1>3, <1>4

LEMMA ScheduledType ==
  ASSUME CommandInv
  PROVE  Command!Scheduled("crashed") \in
           [state: {"stopped", "starting", "running", "crashed"}, count: Nat, timers: Nat,
            resets: Nat, poll: BOOLEAN, shut: BOOLEAN]
<1>1. cmd \in [state: {"stopped", "starting", "running", "crashed"}, count: Nat, timers: Nat,
               resets: Nat, poll: BOOLEAN, shut: BOOLEAN]
  BY DEF CommandInv
<1>2. PICK t \in Nat : Command!Scheduled("crashed") =
                         [cmd EXCEPT !.state = "crashed", !.count = cmd.count + 1, !.timers = t]
  <2>1. (IF cmd.count + 1 > MaxRestarts THEN cmd.timers ELSE cmd.timers + 1) \in Nat  BY <1>1
  <2> QED  BY <2>1 DEF Command!Scheduled
<1>3. cmd.count + 1 \in Nat  BY <1>1
<1> QED  BY <1>1, <1>2, <1>3

LEMMA CommandQuiet ==
  ASSUME CommandInv,
         \/ Command!SessionDies \/ Command!PluginGoesDeaf \/ Command!MarkInbound \/ Command!GracePasses
         \/ Command!Probe \/ Command!HealEnds \/ UNCHANGED Command!cmdVars
  PROVE  CommandInv'
<1>1. /\ seen \in [upsets: Nat, gaveUp: BOOLEAN, noToken: BOOLEAN, byStatus: BOOLEAN]
      /\ heal \in [pc: {"idle", "alert", "settle"}, call: Starts]
  BY DEF CommandInv
<1>2. UNCHANGED <<cmd, startCalls>>
  BY DEF Command!SessionDies, Command!PluginGoesDeaf, Command!MarkInbound, Command!GracePasses,
         Command!Probe, Command!HealEnds, Command!cmdVars
<1>3. /\ heal' \in [pc: {"idle", "alert", "settle"}, call: Starts]
      /\ heal.pc = "alert" => heal' = heal
  BY <1>1 DEF Command!SessionDies, Command!PluginGoesDeaf, Command!MarkInbound, Command!GracePasses,
              Command!Probe, Command!HealEnds, Command!cmdVars
<1>4. \/ UNCHANGED seen \/ seen' = [seen EXCEPT !.upsets = seen.upsets + 1]
  BY DEF Command!SessionDies, Command!PluginGoesDeaf, Command!MarkInbound, Command!GracePasses,
         Command!Probe, Command!HealEnds, Command!cmdVars, Command!Upset
<1>5. /\ seen' \in [upsets: Nat, gaveUp: BOOLEAN, noToken: BOOLEAN, byStatus: BOOLEAN]
      /\ seen'.gaveUp = seen.gaveUp /\ seen'.noToken = seen.noToken /\ seen'.byStatus = seen.byStatus
  BY <1>1, <1>4
<1> QED  BY <1>2, <1>3, <1>5, CommandFrame

LEMMA CommandStarts ==
  ASSUME CommandInv, NEW c \in Starts, Command!StartStep(c)
  PROVE  CommandInv'
<1>1. /\ seen \in [upsets: Nat, gaveUp: BOOLEAN, noToken: BOOLEAN, byStatus: BOOLEAN]
      /\ cmd \in [state: {"stopped", "starting", "running", "crashed"}, count: Nat, timers: Nat,
                  resets: Nat, poll: BOOLEAN, shut: BOOLEAN]
      /\ startCalls \in [Starts -> {"idle", "token", "sid", "made", "failed"}]
      /\ heal \in [pc: {"idle", "alert", "settle"}, call: Starts]
  BY DEF CommandInv
<1>2. CASE Command!StartGoesOn(c)
  <2>1. heal' = heal  BY <1>2 DEF Command!StartGoesOn
  <2>2. CASE /\ startCalls' = [startCalls EXCEPT ![c] = "idle"] /\ UNCHANGED cmd
             /\ seen' = [seen EXCEPT !.noToken = TRUE]
    <3>1. /\ seen' \in [upsets: Nat, gaveUp: BOOLEAN, noToken: BOOLEAN, byStatus: BOOLEAN]
          /\ seen'.noToken
      BY <1>1, <2>2
    <3> QED  BY <1>1, <2>1, <2>2, <3>1, CommandMoves
  <2>3. CASE /\ startCalls' = [startCalls EXCEPT ![c] = "sid"] /\ UNCHANGED seen
             /\ cmd' = [cmd EXCEPT !.state = "starting"]
    BY <1>1, <2>1, <2>3, CommandMoves
  <2> QED  BY <1>2, <2>2, <2>3 DEF Command!StartGoesOn
<1>3. CASE Command!StartSpawns(c)
  <2>1. PICK s \in {"made", "failed"} : startCalls' = [startCalls EXCEPT ![c] = s]
    BY <1>3 DEF Command!StartSpawns
  <2>2. /\ UNCHANGED <<cmd, heal>>
        /\ \/ UNCHANGED seen \/ seen' = [seen EXCEPT !.upsets = seen.upsets + 1]
    BY <1>3 DEF Command!StartSpawns, Command!Upset
  <2>3. seen' \in [upsets: Nat, gaveUp: BOOLEAN, noToken: BOOLEAN, byStatus: BOOLEAN]
    BY <1>1, <2>2
  <2>4. startCalls'[c] # "idle"  BY <1>1, <2>1
  <2> QED  BY <1>1, <2>1, <2>2, <2>3, <2>4, CommandMoves
<1>4. CASE Command!StartCloses(c)
  <2>1. startCalls' = [startCalls EXCEPT ![c] = "idle"] /\ heal' = heal
    BY <1>4 DEF Command!StartCloses
  <2>2. CASE startCalls[c] = "made" /\ pane # "none"
    <3>1. /\ cmd' = [cmd EXCEPT !.state = "running", !.poll = TRUE, !.resets = cmd.resets + 1]
          /\ UNCHANGED seen
      BY <1>4, <2>2 DEF Command!StartCloses
    <3>2. cmd.resets + 1 \in Nat  BY <1>1
    <3>3. /\ cmd' \in [state: {"stopped", "starting", "running", "crashed"}, count: Nat, timers: Nat,
                       resets: Nat, poll: BOOLEAN, shut: BOOLEAN]
          /\ cmd'.state = "running"
      BY <1>1, <3>1, <3>2
    <3> QED  BY <1>1, <2>1, <3>1, <3>3, CommandMoves
  <2>3. CASE ~(startCalls[c] = "made" /\ pane # "none")
    <3>1. cmd' = Command!Scheduled("crashed") /\ seen' = [seen EXCEPT !.gaveUp = Command!GaveUp]
      BY <1>4, <2>3 DEF Command!StartCloses
    <3>2. cmd' \in [state: {"stopped", "starting", "running", "crashed"}, count: Nat, timers: Nat,
                    resets: Nat, poll: BOOLEAN, shut: BOOLEAN]
      BY <3>1, ScheduledType
    <3>3. /\ cmd'.timers > 0 \/ seen'.gaveUp
          /\ seen' \in [upsets: Nat, gaveUp: BOOLEAN, noToken: BOOLEAN, byStatus: BOOLEAN]
      BY <3>1, <3>2, CommandScheduled
    <3> QED  BY <1>1, <2>1, <3>2, <3>3, CommandMoves
  <2> QED  BY <2>2, <2>3
<1> QED  BY <1>2, <1>3, <1>4 DEF Command!StartStep

LEMMA CommandStep == CommandInv /\ [Command!Next]_(Command!cmdVars) => CommandInv'
<1> SUFFICES ASSUME CommandInv, [Command!Next]_(Command!cmdVars) PROVE CommandInv'
  OBVIOUS
<1>1. /\ seen \in [upsets: Nat, gaveUp: BOOLEAN, noToken: BOOLEAN, byStatus: BOOLEAN]
      /\ cmd \in [state: {"stopped", "starting", "running", "crashed"}, count: Nat, timers: Nat,
                  resets: Nat, poll: BOOLEAN, shut: BOOLEAN]
      /\ startCalls \in [Starts -> {"idle", "token", "sid", "made", "failed"}]
      /\ heal \in [pc: {"idle", "alert", "settle"}, call: Starts]
  BY DEF CommandInv
<1>2. ASSUME NEW c \in Starts, Command!RestartTimer(c)  PROVE CommandInv'
  <2>1. /\ cmd.timers > 0 /\ cmd' = [cmd EXCEPT !.timers = cmd.timers - 1] /\ UNCHANGED <<heal, seen>>
        /\ startCalls' = IF Command!Up THEN startCalls ELSE [startCalls EXCEPT ![c] = "token"]
    BY <1>2 DEF Command!RestartTimer, Command!Called
  <2>2. cmd.timers - 1 \in Nat  BY <1>1, <2>1
  <2>3. /\ cmd' \in [state: {"stopped", "starting", "running", "crashed"}, count: Nat, timers: Nat,
                     resets: Nat, poll: BOOLEAN, shut: BOOLEAN]
        /\ cmd'.state = cmd.state
    BY <1>1, <2>1, <2>2
  <2>4. startCalls' \in [Starts -> {"idle", "token", "sid", "made", "failed"}]  BY <1>1, <2>1
  <2>5. CASE Command!Up  BY <1>1, <2>1, <2>3, <2>4, <2>5, CommandMoves DEF Command!Up
  <2>6. CASE ~Command!Up
    <3>1. startCalls'[c] # "idle"  BY <1>1, <2>1, <2>6
    <3> QED  BY <1>1, <2>1, <2>3, <2>4, <3>1, CommandMoves
  <2> QED  BY <2>5, <2>6
<1>3. ASSUME NEW c \in Starts, Command!HealKills(c)  PROVE CommandInv'
  <2>1. /\ cmd' = [cmd EXCEPT !.state = "stopped"] /\ UNCHANGED seen
        /\ startCalls' = [startCalls EXCEPT ![c] = "token"] /\ heal' = [pc |-> "settle", call |-> c]
    BY <1>3 DEF Command!HealKills
  <2>2. startCalls'[c] # "idle"  BY <1>1, <2>1
  <2>3. startCalls' \in [Starts -> {"idle", "token", "sid", "made", "failed"}]  BY <1>1, <2>1
  <2>4. heal' \in [pc: {"idle", "alert", "settle"}, call: Starts]  BY <2>1
  <2>5. cmd' \in [state: {"stopped", "starting", "running", "crashed"}, count: Nat, timers: Nat,
                  resets: Nat, poll: BOOLEAN, shut: BOOLEAN]
    BY <1>1, <2>1
  <2> QED  BY <1>1, <2>1, <2>2, <2>3, <2>4, <2>5, CommandMoves
<1>4. CASE Command!BackoffReset
  <2>1. PICK n \in Nat : cmd' = [cmd EXCEPT !.resets = cmd.resets - 1, !.count = n]
    <3>1. (IF cmd.state = "running" THEN 0 ELSE cmd.count) \in Nat  BY <1>1
    <3> QED  BY <1>4, <3>1 DEF Command!BackoffReset
  <2>2. cmd.resets - 1 \in Nat  BY <1>1, <1>4 DEF Command!BackoffReset
  <2>3. /\ cmd' \in [state: {"stopped", "starting", "running", "crashed"}, count: Nat, timers: Nat,
                     resets: Nat, poll: BOOLEAN, shut: BOOLEAN]
        /\ cmd'.state = cmd.state /\ cmd'.timers = cmd.timers /\ cmd'.shut = cmd.shut
    BY <1>1, <2>1, <2>2
  <2>4. UNCHANGED <<startCalls, heal, seen>>  BY <1>4 DEF Command!BackoffReset
  <2> QED  BY <2>3, <2>4 DEF CommandInv, NoSilentDarkness, Command!NoSilentDarkness
<1>5. CASE Command!PollSeesDeath
  <2> DEFINE s == Command!Scheduled("crashed")
  <2>1. s \in [state: {"stopped", "starting", "running", "crashed"}, count: Nat, timers: Nat,
               resets: Nat, poll: BOOLEAN, shut: BOOLEAN]
    BY ScheduledType
  <2>2. seen' = [seen EXCEPT !.gaveUp = Command!GaveUp] /\ UNCHANGED <<startCalls, heal>>
    BY <1>5 DEF Command!PollSeesDeath
  <2>3. /\ s.timers > 0 \/ seen'.gaveUp
        /\ seen' \in [upsets: Nat, gaveUp: BOOLEAN, noToken: BOOLEAN, byStatus: BOOLEAN]
    BY <2>1, <2>2, CommandScheduled
  <2>4. PICK n \in Nat : cmd' = [s EXCEPT !.poll = FALSE, !.resets = n]
    <3>1. (IF s.resets = 0 THEN 0 ELSE s.resets - 1) \in Nat  BY <2>1
    <3> QED  BY <1>5, <3>1 DEF Command!PollSeesDeath
  <2> HIDE DEF s
  <2>5. /\ cmd' \in [state: {"stopped", "starting", "running", "crashed"}, count: Nat, timers: Nat,
                     resets: Nat, poll: BOOLEAN, shut: BOOLEAN]
        /\ cmd'.timers = s.timers
    BY <2>1, <2>4
  <2> QED  BY <1>1, <2>2, <2>3, <2>5, CommandMoves
<1>6. CASE Command!StatusRequest
  <2>1. /\ cmd' = [cmd EXCEPT !.state = "crashed"] /\ seen' = [seen EXCEPT !.byStatus = TRUE]
        /\ UNCHANGED <<startCalls, heal>>
    BY <1>6 DEF Command!StatusRequest
  <2>2. cmd' \in [state: {"stopped", "starting", "running", "crashed"}, count: Nat, timers: Nat,
                  resets: Nat, poll: BOOLEAN, shut: BOOLEAN]
    BY <1>1, <2>1
  <2>3. /\ seen' \in [upsets: Nat, gaveUp: BOOLEAN, noToken: BOOLEAN, byStatus: BOOLEAN]
        /\ seen'.byStatus
    BY <1>1, <2>1
  <2> QED  BY <1>1, <2>1, <2>2, <2>3, CommandMoves
<1>7. CASE Command!Stop
  <2>1. UNCHANGED <<startCalls, heal, seen>>  BY <1>7 DEF Command!Stop
  <2>2. PICK t \in Nat, r \in Nat :
          cmd' = [cmd EXCEPT !.state = "stopped", !.poll = FALSE, !.shut = TRUE, !.timers = t, !.resets = r]
    <3>1. /\ (IF cmd.timers = 0 THEN 0 ELSE cmd.timers - 1) \in Nat
          /\ (IF cmd.resets = 0 THEN 0 ELSE cmd.resets - 1) \in Nat
      BY <1>1
    <3> QED  BY <1>7, <3>1 DEF Command!Stop
  <2>3. /\ cmd' \in [state: {"stopped", "starting", "running", "crashed"}, count: Nat, timers: Nat,
                     resets: Nat, poll: BOOLEAN, shut: BOOLEAN]
        /\ cmd'.shut
    BY <1>1, <2>2
  <2> QED  BY <1>1, <2>1, <2>3, CommandMoves
<1> QED
  BY <1>2, <1>3, <1>4, <1>5, <1>6, <1>7, CommandQuiet, CommandStarts DEF Command!Next

\* For every number of starts and restarts: a commander that is down with no start, timer
\* or recovery under way was stopped, gave up, has no token, or was first found dead by a
\* status request (commander-process.ts).
THEOREM CommanderIsNotLost == Command!Spec => []NoSilentDarkness
<1>1. CommandInv => NoSilentDarkness  BY DEF CommandInv
<1> QED  BY <1>1, CommandInit, CommandStep, PTL DEF Command!Spec

--------------------------------------------------------------------------------
(* The removal of worktrees: WorktreeCleanup.                                        *)

HeadsOf == Branches \cup {Trees!Detached}
TreeRecords == [there: BOOLEAN, at: HeadsOf, dirt: {"none", "modified", "untracked"}, marked: BOOLEAN,
                loose: BOOLEAN]
RefRecords == [exists: BOOLEAN, tip: {"trunk", "newer", "local", "pushed", "merged", "squashed"},
               remote: BOOLEAN, gone: BOOLEAN]
CleanerStages == {"idle", "find", "load"} \cup Trees!Loaded
LateKinds == {"edits", "commits", "marker", "unworked", "none"}
CleanerRecords == [pc: CleanerStages, branch: HeadsOf, merged: SUBSET Branches,
                   targets: SUBSET Branches, late: SUBSET LateKinds, last: BOOLEAN]
TakenKinds == {"edits", "commits", "marker", "unworked"}
OfMerge(c, x) == c = "merge" /\ x.pc # "idle" => x.branch \in Branches
TreesType ==
  /\ tree \in TreeRecords /\ refs \in [Branches -> RefRecords]
  /\ cleaners \in [Trees!Kinds -> CleanerRecords]
  /\ wcDone \in [work: Nat, wrong: SUBSET TakenKinds]
  /\ \A c \in Trees!Kinds : OfMerge(c, cleaners[c])

\* A tree that is gone is like none, and loose commits are of a detached HEAD.
TreeShape ==
  /\ ~tree.there => tree.at = Trees!Detached /\ tree.dirt = "none" /\ ~tree.marked /\ ~tree.loose
  /\ tree.loose => tree.at = Trees!Detached

\* The history that a sweep has loaded tells the branches without work, and the branches it
\* has picked, and that of the directory, are not among them.
HistoryHolds(x) == x.pc \in Trees!Loaded => \A b \in Branches : refs[b].tip # "newer"
PickIsWorked(x) ==
  x.pc \in Trees!Removing \cup {"gone"} /\ x.branch \in Branches => refs[x.branch].tip # "trunk"
TargetsAreWorked(x) == x.pc \in {"claude", "match"} => \A b \in x.targets : refs[b].tip # "trunk"
TreeIsWorked(x) ==
  x.pc \in Trees!Verified /\ tree.at \in Branches /\ tree.at # x.branch => refs[tree.at].tip # "trunk"
Judgement(x) == HistoryHolds(x) /\ PickIsWorked(x) /\ TargetsAreWorked(x) /\ TreeIsWorked(x)

\* What a cleaner's checks would refuse has come into being after the check, and is noted.
Noted(c, x) ==
  /\ x.pc \in Trees!Removing \cup {"gone"} /\ tree.loose => "commits" \in x.late
  /\ x.pc \in {"identity", "status", "revlist", "remove"} /\ tree.marked => "marker" \in x.late
  /\ x.pc \in {"revlist", "remove"} /\ tree.dirt # "none" => "edits" \in x.late
  /\ c = "sweep" => Judgement(x) \/ "unworked" \in x.late

TreesInv ==
  TreesType /\ TreeShape /\ (\A c \in Trees!Kinds : Noted(c, cleaners[c])) /\ OnlySafeTreesRemoved

\* A cleaner at rest, or one that has still to look, has nothing to have noted.
LEMMA NotRemoving ==
  ASSUME NEW c, NEW x, x.pc \notin Trees!Removing \cup {"gone", "claude", "match"},
         c = "sweep" => HistoryHolds(x) \/ "unworked" \in x.late
  PROVE  Noted(c, x)
<1>1. c = "sweep" => Judgement(x) \/ "unworked" \in x.late
  BY DEF Judgement, PickIsWorked, TargetsAreWorked, TreeIsWorked, Trees!Removing, Trees!Verified
<1> QED  BY <1>1 DEF Noted, Trees!Removing

LEMMA AtRest ==
  /\ Trees!NoCleaner \in CleanerRecords /\ Trees!NoCleaner.pc = "idle"
  /\ \A c \in Trees!Kinds : Noted(c, Trees!NoCleaner) /\ OfMerge(c, Trees!NoCleaner)
<1>1. Trees!NoCleaner \in CleanerRecords /\ Trees!NoCleaner.pc = "idle"
  BY DEF Trees!NoCleaner, CleanerRecords, CleanerStages, HeadsOf
<1>2. HistoryHolds(Trees!NoCleaner)
  BY <1>1 DEF HistoryHolds, Trees!Loaded, Trees!Judged, Trees!Removing
<1>3. Trees!NoCleaner.pc \notin Trees!Removing \cup {"gone", "claude", "match"}
  BY <1>1 DEF Trees!Removing
<1> QED  BY <1>1, <1>2, <1>3, NotRemoving DEF OfMerge

\* The judgement stays while the directory is on the same branch and no branch comes to be
\* without work of its own.
LEMMA JudgementKept ==
  ASSUME TreesType, refs' \in [Branches -> RefRecords], tree'.at = tree.at,
         \A b \in Branches : refs'[b].tip = refs[b].tip \/ refs'[b].tip \notin {"trunk", "newer"},
         NEW x \in CleanerRecords, Judgement(x)
  PROVE  Judgement(x)'
<1>1. HistoryHolds(x)'  BY DEF Judgement, HistoryHolds
<1>2. PickIsWorked(x)'  BY DEF Judgement, PickIsWorked
<1>3. TargetsAreWorked(x)'
  <2>1. x.targets \subseteq Branches  BY DEF CleanerRecords
  <2> QED  BY <2>1 DEF Judgement, TargetsAreWorked
<1>4. TreeIsWorked(x)'  BY DEF Judgement, TreeIsWorked
<1> QED  BY <1>1, <1>2, <1>3, <1>4 DEF Judgement

LEMMA TreesInit == Trees!Init => TreesInv
<1> SUFFICES ASSUME Trees!Init PROVE TreesInv
  OBVIOUS
<1>1. PICK b \in Branches, r \in {Trees!Fresh, [Trees!Fresh EXCEPT !.tip = "pushed", !.remote = TRUE]} :
        /\ refs = [x \in Branches |-> IF x = b THEN r ELSE Trees!Fresh]
        /\ tree = [Trees!NoTree EXCEPT !.there = TRUE, !.at = b]
  BY DEF Trees!Init
<1>2. Trees!Fresh \in RefRecords /\ r \in RefRecords
  <2>1. Trees!Fresh \in RefRecords  BY DEF Trees!Fresh, RefRecords
  <2>2. [Trees!Fresh EXCEPT !.tip = "pushed", !.remote = TRUE] \in RefRecords
    BY <2>1 DEF RefRecords
  <2> QED  BY <1>1, <2>1, <2>2, Zenon
<1>3. refs \in [Branches -> RefRecords]  BY <1>1, <1>2
<1>4. /\ tree \in TreeRecords /\ tree.there /\ ~tree.loose
  BY <1>1 DEF Trees!NoTree, TreeRecords, HeadsOf
<1>5. cleaners = [c \in Trees!Kinds |-> Trees!NoCleaner] /\ OnlySafeTreesRemoved
  BY DEF Trees!Init, OnlySafeTreesRemoved, Trees!OnlySafeTreesRemoved
<1>6. TreesType /\ TreeShape
  <2>1. wcDone \in [work: Nat, wrong: SUBSET TakenKinds]  BY DEF Trees!Init
  <2>2. \A c \in Trees!Kinds : cleaners[c] \in CleanerRecords /\ OfMerge(c, cleaners[c])
    BY <1>5, AtRest
  <2> QED  BY <1>3, <1>4, <1>5, <2>1, <2>2 DEF TreesType, TreeShape
<1>7. \A c \in Trees!Kinds : Noted(c, cleaners[c])  BY <1>5, AtRest
<1> QED  BY <1>5, <1>6, <1>7 DEF TreesInv

\* What agents do to the tree and its branches is noted with the cleaners whose check
\* would have seen it.
LEMMA TreesWorked ==
  ASSUME TreesInv, NEW kind \in LateKinds, NEW checked,
         Trees!Works(kind, checked), tree' \in TreeRecords, refs' \in [Branches -> RefRecords], TreeShape',
         tree'.loose => tree.loose \/ (kind = "commits" /\ checked = Trees!Removing \cup {"gone"}),
         tree'.marked =>
           tree.marked \/ (kind = "marker" /\ checked = {"identity", "status", "revlist", "remove"}),
         tree'.dirt # "none" => tree.dirt # "none" \/ (kind = "edits" /\ checked = {"revlist", "remove"}),
         \A x \in CleanerRecords :
           Judgement(x) => Judgement(x)' \/ (kind = "unworked" /\ x.pc \in checked)
  PROVE  TreesInv'
<1>1. TreesType /\ OnlySafeTreesRemoved /\ \A c \in Trees!Kinds : Noted(c, cleaners[c])
  BY DEF TreesInv
<1>2. /\ cleaners' = [c \in Trees!Kinds |->
                        IF cleaners[c].pc \in checked
                        THEN [cleaners[c] EXCEPT !.late = @ \cup {kind}] ELSE cleaners[c]]
      /\ wcDone' = [wcDone EXCEPT !.work = wcDone.work + 1]
  BY DEF Trees!Works
<1>3. ASSUME NEW c \in Trees!Kinds
      PROVE  /\ cleaners'[c] \in CleanerRecords /\ cleaners'[c].pc = cleaners[c].pc
             /\ cleaners'[c].branch = cleaners[c].branch /\ cleaners[c].late \subseteq cleaners'[c].late
             /\ cleaners'[c].targets = cleaners[c].targets
             /\ cleaners[c].pc \in checked => kind \in cleaners'[c].late
  <2>1. cleaners[c] \in CleanerRecords  BY <1>1 DEF TreesType
  <2>2. CASE cleaners[c].pc \in checked
    <3> DEFINE l == cleaners[c].late \cup {kind}
    <3>1. l \in SUBSET LateKinds  BY <2>1 DEF CleanerRecords
    <3>2. cleaners'[c] = [cleaners[c] EXCEPT !.late = l]  BY <1>2, <2>2
    <3>3. kind \in l /\ cleaners[c].late \subseteq l  OBVIOUS
    <3> HIDE DEF l
    <3> QED  BY <2>1, <3>1, <3>2, <3>3 DEF CleanerRecords
  <2>3. CASE cleaners[c].pc \notin checked
    <3>1. cleaners'[c] = cleaners[c]  BY <1>2, <2>3
    <3> QED  BY <2>1, <2>3, <3>1
  <2> QED  BY <2>2, <2>3
<1>4. /\ wcDone' \in [work: Nat, wrong: SUBSET TakenKinds]
      /\ wcDone'.wrong = wcDone.wrong
  <2>1. wcDone.work + 1 \in Nat  BY <1>1 DEF TreesType
  <2> QED  BY <1>1, <1>2, <2>1 DEF TreesType
<1>5. TreesType'
  <2>1. \A c \in Trees!Kinds : OfMerge(c, cleaners'[c])  BY <1>1, <1>3 DEF TreesType, OfMerge
  <2> QED  BY <1>1, <1>2, <1>3, <1>4, <2>1 DEF TreesType, OfMerge
<1>6. \A c \in Trees!Kinds : Noted(c, cleaners[c])'
  <2> SUFFICES ASSUME NEW c \in Trees!Kinds PROVE Noted(c, cleaners[c])'
    OBVIOUS
  <2>1. Noted(c, cleaners[c])  BY <1>1
  <2>2. tree'.loose /\ cleaners'[c].pc \in Trees!Removing \cup {"gone"} => "commits" \in cleaners'[c].late
    BY <1>3, <2>1 DEF Noted
  <2>3. tree'.marked /\ cleaners'[c].pc \in {"identity", "status", "revlist", "remove"} =>
          "marker" \in cleaners'[c].late
    BY <1>3, <2>1 DEF Noted
  <2>4. tree'.dirt # "none" /\ cleaners'[c].pc \in {"revlist", "remove"} => "edits" \in cleaners'[c].late
    BY <1>3, <2>1 DEF Noted
  <2>5. c = "sweep" => Judgement(cleaners[c])' \/ "unworked" \in cleaners'[c].late
    <3> SUFFICES ASSUME c = "sweep", "unworked" \notin cleaners'[c].late
        PROVE  Judgement(cleaners[c])'
      OBVIOUS
    <3>1. PICK x \in CleanerRecords : x = cleaners'[c]  BY <1>3
    <3>2. PICK y \in CleanerRecords : y = cleaners[c]  BY <1>1 DEF TreesType
    <3>3. Judgement(y)  BY <1>3, <2>1, <3>2 DEF Noted
    <3>4. x.pc = y.pc /\ x.branch = y.branch /\ x.targets = y.targets  BY <1>3, <3>1, <3>2
    <3>5. Judgement(x)
      BY <3>3, <3>4 DEF Judgement, HistoryHolds, PickIsWorked, TargetsAreWorked, TreeIsWorked
    <3>6. ~(kind = "unworked" /\ x.pc \in checked)  BY <1>3, <3>1
    <3>7. Judgement(x)'  BY <3>5, <3>6
    <3> QED
      BY <3>1, <3>7 DEF Judgement, HistoryHolds, PickIsWorked, TargetsAreWorked, TreeIsWorked
  <2> QED  BY <2>2, <2>3, <2>4, <2>5 DEF Noted
<1>7. OnlySafeTreesRemoved'  BY <1>1, <1>4 DEF OnlySafeTreesRemoved, Trees!OnlySafeTreesRemoved
<1> QED  BY <1>5, <1>6, <1>7 DEF TreesInv

LEMMA TreesAgents ==
  ASSUME TreesInv,
         \/ Trees!Edit \/ Trees!Commit \/ Trees!Checkout \/ Trees!MarkAgent \/ Trees!CatchUp
         \/ \E b \in Branches : Trees!PushBranch(b) \/ Trees!CreateTree(b) \/ Trees!MergePr(b)
  PROVE  TreesInv'
<1>1. /\ tree \in TreeRecords /\ refs \in [Branches -> RefRecords] /\ TreeShape /\ TreesType
      /\ Trees!Detached \notin Branches
      /\ {"edits", "commits", "marker", "unworked", "none"} = LateKinds
  BY TreesAssumption DEF TreesInv, TreesType, LateKinds
\* The judgement fails only of a cleaner that has made it.
<1>2. ASSUME tree'.at = tree.at, refs' \in [Branches -> RefRecords],
             \A b \in Branches : refs'[b].tip = refs[b].tip \/ refs'[b].tip \notin {"trunk", "newer"}
      PROVE  \A x \in CleanerRecords : Judgement(x) => Judgement(x)'
  BY <1>1, <1>2, JudgementKept
<1>3. ASSUME refs' = refs
      PROVE  \A x \in CleanerRecords : Judgement(x) => Judgement(x)' \/ x.pc \in Trees!Verified
  BY <1>3 DEF Judgement, HistoryHolds, PickIsWorked, TargetsAreWorked, TreeIsWorked
<1>4. \A x \in CleanerRecords : Judgement(x)' \/ x.pc \in Trees!Loaded
  BY DEF Judgement, HistoryHolds, PickIsWorked, TargetsAreWorked, TreeIsWorked,
         Trees!Loaded, Trees!Judged, Trees!Verified, Trees!Removing
<1>5. CASE Trees!Edit
  <2>1. PICK d \in {"modified", "untracked"} : tree' = [tree EXCEPT !.dirt = d]
    BY <1>5 DEF Trees!Edit
  <2>2. /\ tree.there /\ Trees!Works("edits", {"revlist", "remove"}) /\ UNCHANGED refs
    BY <1>5 DEF Trees!Edit
  <2>3. /\ tree' \in TreeRecords /\ tree'.there /\ tree'.at = tree.at /\ tree'.marked = tree.marked
        /\ tree'.loose = tree.loose
    BY <1>1, <2>1, <2>2 DEF TreeRecords
  <2>4. TreeShape'  BY <1>1, <2>3 DEF TreeShape
  <2>5. \A x \in CleanerRecords : Judgement(x) => Judgement(x)'  BY <1>1, <1>2, <2>2, <2>3
  <2> QED  BY <1>1, <2>2, <2>3, <2>4, <2>5, TreesWorked
<1>6. CASE Trees!Commit
  <2> DEFINE l == tree.loose \/ tree.at = Trees!Detached
  <2>1. /\ tree.there /\ Trees!Works("commits", Trees!Removing \cup {"gone"})
        /\ tree' = [tree EXCEPT !.dirt = "none", !.loose = l]
        /\ refs' = IF tree.at = Trees!Detached THEN refs ELSE [refs EXCEPT ![tree.at].tip = "local"]
    BY <1>6 DEF Trees!Commit
  <2>2. l \in BOOLEAN /\ (l => tree.at = Trees!Detached)  BY <1>1 DEF TreeShape
  <2> HIDE DEF l
  <2>3. /\ tree' \in TreeRecords /\ tree'.there /\ tree'.at = tree.at /\ tree'.marked = tree.marked
        /\ tree'.loose = l /\ tree'.dirt = "none"
    BY <1>1, <2>1, <2>2 DEF TreeRecords
  <2>4. TreeShape'  BY <1>1, <2>2, <2>3 DEF TreeShape
  <2>5. /\ refs' \in [Branches -> RefRecords]
        /\ \A b \in Branches : refs'[b].tip = refs[b].tip \/ refs'[b].tip = "local"
    BY <1>1, <2>1 DEF RefRecords
  <2>6. \A x \in CleanerRecords : Judgement(x) => Judgement(x)'  BY <1>2, <2>3, <2>5
  <2> QED  BY <1>1, <2>1, <2>3, <2>4, <2>5, <2>6, TreesWorked
<1>7. CASE Trees!Checkout
  <2>1. PICK b \in Branches \cup {Trees!Detached} : tree' = [tree EXCEPT !.at = b]
    BY <1>7 DEF Trees!Checkout
  <2>2. /\ tree.there /\ ~tree.loose /\ Trees!Works("unworked", Trees!Verified) /\ UNCHANGED refs
    BY <1>7 DEF Trees!Checkout
  <2>3. /\ tree' \in TreeRecords /\ tree'.there /\ tree'.marked = tree.marked
        /\ ~tree'.loose /\ tree'.dirt = tree.dirt
    BY <1>1, <2>1, <2>2 DEF TreeRecords, HeadsOf
  <2>4. TreeShape'  BY <2>3 DEF TreeShape
  <2> QED  BY <1>1, <1>3, <2>2, <2>3, <2>4, TreesWorked
<1>8. CASE Trees!MarkAgent
  <2>1. /\ tree.there /\ tree' = [tree EXCEPT !.marked = ~tree.marked] /\ UNCHANGED refs
        /\ Trees!Works("marker", {"identity", "status", "revlist", "remove"})
    BY <1>8 DEF Trees!MarkAgent
  <2>2. /\ tree' \in TreeRecords /\ tree'.there /\ tree'.at = tree.at /\ tree'.dirt = tree.dirt
        /\ tree'.loose = tree.loose
    BY <1>1, <2>1 DEF TreeRecords
  <2>3. TreeShape'  BY <1>1, <2>2 DEF TreeShape
  <2>4. \A x \in CleanerRecords : Judgement(x) => Judgement(x)'  BY <1>1, <1>2, <2>1, <2>2
  <2> QED  BY <1>1, <2>1, <2>2, <2>3, <2>4, TreesWorked
<1>9. CASE Trees!CatchUp
  <2>1. /\ tree.there /\ UNCHANGED tree /\ Trees!Works("unworked", Trees!Loaded)
        /\ refs' = [refs EXCEPT ![tree.at].tip = "newer"]
    BY <1>9 DEF Trees!CatchUp
  <2>2. refs' \in [Branches -> RefRecords]
    <3>1. tree.at \in Branches  BY <1>1, <1>9 DEF Trees!CatchUp, TreeRecords, HeadsOf
    <3> DEFINE r == [refs[tree.at] EXCEPT !.tip = "newer"]
    <3>2. r \in RefRecords /\ refs' = [refs EXCEPT ![tree.at] = r]  BY <1>1, <2>1, <3>1 DEF RefRecords
    <3> HIDE DEF r
    <3> QED  BY <1>1, <3>2
  <2>3. TreeShape'  BY <1>1, <2>1 DEF TreeShape
  <2> QED  BY <1>1, <1>4, <2>1, <2>2, <2>3, TreesWorked
<1>10. ASSUME NEW b \in Branches, Trees!PushBranch(b) \/ Trees!MergePr(b)  PROVE TreesInv'
  <2>1. Trees!Works("none", {}) /\ UNCHANGED tree  BY <1>10 DEF Trees!PushBranch, Trees!MergePr
  <2>2. PICK r \in RefRecords : refs' = [refs EXCEPT ![b] = r] /\ r.tip \notin {"trunk", "newer"}
    <3>1. CASE Trees!PushBranch(b)
      <4> DEFINE r == [exists |-> TRUE, tip |-> "pushed", remote |-> TRUE, gone |-> FALSE]
      <4>1. r \in RefRecords /\ r.tip \notin {"trunk", "newer"}  BY DEF RefRecords
      <4>2. refs' = [refs EXCEPT ![b] = r]  BY <3>1 DEF Trees!PushBranch
      <4> HIDE DEF r
      <4> QED  BY <4>1, <4>2
    <3>2. CASE Trees!MergePr(b)
      <4>1. PICK t \in {"merged", "squashed"} : refs' = [refs EXCEPT ![b].tip = t, ![b].gone = TRUE]
        BY <3>2 DEF Trees!MergePr
      <4> DEFINE r == [refs[b] EXCEPT !.tip = t, !.gone = TRUE]
      <4>2. r \in RefRecords /\ r.tip \notin {"trunk", "newer"}  BY <1>1 DEF RefRecords
      <4>3. refs' = [refs EXCEPT ![b] = r]  BY <1>1, <4>1
      <4> HIDE DEF r
      <4> QED  BY <4>2, <4>3
    <3> QED  BY <1>10, <3>1, <3>2
  <2>3. /\ refs' \in [Branches -> RefRecords]
        /\ \A d \in Branches : refs'[d].tip = refs[d].tip \/ refs'[d].tip \notin {"trunk", "newer"}
    BY <1>1, <2>2
  <2>4. TreeShape'  BY <1>1, <2>1 DEF TreeShape
  <2>5. \A x \in CleanerRecords : Judgement(x) => Judgement(x)'  BY <1>2, <2>1, <2>3
  <2> QED  BY <1>1, <2>1, <2>3, <2>4, <2>5, TreesWorked
<1>11. ASSUME NEW b \in Branches, Trees!CreateTree(b)  PROVE TreesInv'
  <2>1. tree' = [Trees!NoTree EXCEPT !.there = TRUE, !.at = b]  BY <1>11 DEF Trees!CreateTree
  <2>2. /\ tree' \in TreeRecords /\ tree'.there /\ ~tree'.loose /\ ~tree'.marked /\ tree'.dirt = "none"
    BY <2>1 DEF TreeRecords, HeadsOf, Trees!NoTree
  <2>3. TreeShape'  BY <2>2 DEF TreeShape
  <2>4. Trees!Fresh \in RefRecords /\ [Trees!Fresh EXCEPT !.tip = "newer"] \in RefRecords
    BY DEF Trees!Fresh, RefRecords
  <2>5. CASE Trees!Works("unworked", Trees!Verified) /\ UNCHANGED refs
    BY <1>1, <1>3, <2>2, <2>3, <2>5, TreesWorked
  <2>6. CASE Trees!Works("unworked", Trees!Judged) /\ refs' = [refs EXCEPT ![b] = Trees!Fresh]
    <3>1. /\ refs' \in [Branches -> RefRecords]
          /\ \A d \in Branches : refs'[d].tip = refs[d].tip \/ refs'[d].tip = "trunk"
      BY <1>1, <2>4, <2>6 DEF Trees!Fresh
    <3>2. \A x \in CleanerRecords : Judgement(x) => Judgement(x)' \/ x.pc \in Trees!Judged
      BY <3>1 DEF Judgement, HistoryHolds, PickIsWorked, TargetsAreWorked, TreeIsWorked,
                  Trees!Judged, Trees!Verified, Trees!Removing
    <3> QED  BY <1>1, <2>2, <2>3, <2>6, <3>1, <3>2, TreesWorked
  <2>7. CASE /\ Trees!Works("unworked", Trees!Loaded)
             /\ refs' = [refs EXCEPT ![b] = [Trees!Fresh EXCEPT !.tip = "newer"]]
    <3>1. refs' \in [Branches -> RefRecords]  BY <1>1, <2>4, <2>7
    <3> QED  BY <1>1, <1>4, <2>2, <2>3, <2>7, <3>1, TreesWorked
  <2> QED  BY <1>11, <2>5, <2>6, <2>7 DEF Trees!CreateTree
<1> QED  BY <1>5, <1>6, <1>7, <1>8, <1>9, <1>10, <1>11

\* A step of a cleaner that removes nothing: the tips stay, and the cleaner goes on only
\* past what its check found safe.
LEMMA TreesCleaner ==
  ASSUME TreesInv, NEW c \in Trees!Kinds, NEW x \in CleanerRecords,
         cleaners' = [cleaners EXCEPT ![c] = x], UNCHANGED <<tree, wcDone>>,
         refs' \in [Branches -> RefRecords], \A b \in Branches : refs'[b].tip = refs[b].tip,
         Noted(c, x), OfMerge(c, x)
  PROVE  TreesInv'
<1>1. TreesType /\ TreeShape /\ OnlySafeTreesRemoved /\ \A d \in Trees!Kinds : Noted(d, cleaners[d])
  BY DEF TreesInv
<1>2. cleaners'[c] = x /\ \A d \in Trees!Kinds : d # c => cleaners'[d] = cleaners[d]
  BY <1>1 DEF TreesType
<1>3. TreesType'
  <2>1. \A d \in Trees!Kinds : OfMerge(d, cleaners'[d])  BY <1>1, <1>2 DEF TreesType
  <2> QED  BY <1>1, <1>2, <2>1 DEF TreesType, OfMerge
<1>4. TreeShape'  BY <1>1 DEF TreeShape
<1>5. \A d \in Trees!Kinds : Noted(d, cleaners[d])'
  <2> SUFFICES ASSUME NEW d \in Trees!Kinds PROVE Noted(d, cleaners[d])'
    OBVIOUS
  <2>1. PICK y \in CleanerRecords : y = cleaners'[d] /\ Noted(d, y)  BY <1>1, <1>2 DEF TreesType
  <2>2. d = "sweep" => Judgement(y)' \/ "unworked" \in y.late  BY <1>1, <2>1, JudgementKept DEF Noted
  <2>3. Noted(d, y)'  BY <2>1, <2>2 DEF Noted
  <2> QED
    BY <2>1, <2>3 DEF Noted, Judgement, HistoryHolds, PickIsWorked, TargetsAreWorked, TreeIsWorked
<1>6. OnlySafeTreesRemoved'  BY <1>1 DEF OnlySafeTreesRemoved, Trees!OnlySafeTreesRemoved
<1> QED  BY <1>3, <1>4, <1>5, <1>6 DEF TreesInv

\* To a stage that no check is needed for, or for which what has to be noted is shown.
LEMMA TreesTo ==
  ASSUME TreesInv, NEW c \in Trees!Kinds, NEW pc \in CleanerStages, Trees!To(c, pc),
         UNCHANGED <<tree, wcDone>>, refs' \in [Branches -> RefRecords],
         \A b \in Branches : refs'[b].tip = refs[b].tip,
         NEW x, x = [cleaners[c] EXCEPT !.pc = pc], Noted(c, x), OfMerge(c, x)
  PROVE  TreesInv'
<1>1. cleaners \in [Trees!Kinds -> CleanerRecords]  BY DEF TreesInv, TreesType
<1>2. x \in CleanerRecords /\ cleaners' = [cleaners EXCEPT ![c] = x]
  BY <1>1 DEF CleanerRecords, Trees!To
<1> QED  BY <1>2, TreesCleaner

\* The steps of a merge's cleaner are on its branch; those of a sweep that has loaded the
\* trunk keep its history.
LEMMA TreesMoves ==
  ASSUME TreesInv, NEW c \in Trees!Kinds, NEW pc \in CleanerStages,
         NEW x, x = [cleaners[c] EXCEPT !.pc = pc]
  PROVE  /\ x \in CleanerRecords /\ x.pc = pc /\ x.branch = cleaners[c].branch
         /\ x.targets = cleaners[c].targets /\ x.late = cleaners[c].late
         /\ cleaners[c].pc # "idle" => OfMerge(c, x)
         /\ c = "sweep" /\ (cleaners[c].pc \in Trees!Loaded \/ pc \notin Trees!Loaded) =>
              HistoryHolds(x) \/ "unworked" \in x.late
<1>1. cleaners[c] \in CleanerRecords /\ Noted(c, cleaners[c]) /\ OfMerge(c, cleaners[c])
  BY DEF TreesInv, TreesType
<1>2. /\ x \in CleanerRecords /\ x.pc = pc /\ x.branch = cleaners[c].branch
      /\ x.targets = cleaners[c].targets /\ x.late = cleaners[c].late
  BY <1>1 DEF CleanerRecords
<1> QED  BY <1>1, <1>2 DEF OfMerge, Noted, Judgement, HistoryHolds

LEMMA TreesLeave ==
  ASSUME TreesInv, NEW c \in Trees!Kinds, Trees!Leave(c),
         c = "merge" => cleaners[c].pc # "idle", c = "sweep" => cleaners[c].pc \in Trees!Loaded,
         UNCHANGED <<tree, wcDone>>, refs' \in [Branches -> RefRecords],
         \A b \in Branches : refs'[b].tip = refs[b].tip
  PROVE  TreesInv'
<1>1. cleaners \in [Trees!Kinds -> CleanerRecords] /\ OfMerge(c, cleaners[c])
  BY DEF TreesInv, TreesType
<1>2. CASE cleaners' = [cleaners EXCEPT ![c] = Trees!NoCleaner]
  BY <1>2, AtRest, TreesCleaner
<1>3. CASE cleaners' = [cleaners EXCEPT ![c] =
             [cleaners[c] EXCEPT !.pc = "claude",
                !.targets = IF c = "merge" THEN {cleaners[c].branch} ELSE {}]]
  <2> DEFINE y == [cleaners[c] EXCEPT !.pc = "claude"]
             t == IF c = "merge" THEN {cleaners[c].branch} ELSE {}
             x == [y EXCEPT !.targets = t]
  <2>1. "claude" \in CleanerStages  BY DEF CleanerStages, Trees!Loaded, Trees!Judged
  <2>2. /\ y \in CleanerRecords /\ y.pc = "claude" /\ y.branch = cleaners[c].branch /\ y.late = cleaners[c].late
        /\ OfMerge(c, y) /\ (c = "sweep" => HistoryHolds(y) \/ "unworked" \in y.late)
    <3>1. cleaners[c].pc # "idle"
      BY DEF Trees!Kinds, Trees!Loaded, Trees!Judged, Trees!Removing
    <3> HIDE DEF y
    <3> QED  BY <2>1, <3>1, TreesMoves DEF y
  <2>3. t \subseteq Branches  BY <1>1, <2>2 DEF OfMerge, Trees!Kinds
  <2>4. cleaners' = [cleaners EXCEPT ![c] = x]  BY <1>3
  <2> HIDE DEF y, t
  <2>5. /\ x \in CleanerRecords /\ x.pc = "claude" /\ x.branch = y.branch /\ x.late = y.late
        /\ x.targets = t
    BY <2>2, <2>3 DEF CleanerRecords
  <2> HIDE DEF x
  <2>6. c = "sweep" => Judgement(x) \/ "unworked" \in x.late
    <3>1. c = "sweep" => t = {}  BY DEF t
    <3> QED
      BY <2>2, <2>5, <3>1 DEF Judgement, HistoryHolds, PickIsWorked, TargetsAreWorked, TreeIsWorked,
                              Trees!Loaded, Trees!Judged, Trees!Removing, Trees!Verified
  <2>7. Noted(c, x)  BY <2>5, <2>6 DEF Noted, Trees!Removing
  <2>8. OfMerge(c, x)  BY <2>2, <2>5 DEF OfMerge
  <2> QED  BY <2>4, <2>5, <2>7, <2>8, TreesCleaner
<1> QED
  <2>1. cleaners' = [cleaners EXCEPT ![c] =
          IF cleaners[c].last THEN Trees!NoCleaner
          ELSE [cleaners[c] EXCEPT !.pc = "claude",
                  !.targets = IF c = "merge" THEN {cleaners[c].branch} ELSE {}]]
    BY <1>1 DEF Trees!Leave
  <2> QED  BY <1>2, <1>3, <2>1

LEMMA TreesBegin ==
  ASSUME TreesInv,
         \/ \E b \in Branches : Trees!CleanupAfterMerge(b)
         \/ Trees!FindWorktree \/ Trees!SweepFetches \/ Trees!SweepLoadsMerged
  PROVE  TreesInv'
<1>1. /\ tree \in TreeRecords /\ refs \in [Branches -> RefRecords] /\ TreeShape
      /\ cleaners \in [Trees!Kinds -> CleanerRecords]
      /\ OfMerge("merge", cleaners["merge"])
      /\ Trees!Detached \notin Branches /\ "merge" \in Trees!Kinds /\ "sweep" \in Trees!Kinds
  BY TreesAssumption DEF TreesInv, TreesType, Trees!Kinds
<1>2. cleaners["merge"] \in CleanerRecords /\ cleaners["sweep"] \in CleanerRecords  BY <1>1
<1>3. {"find", "load", "merged", "list", "mark", "delete"} \subseteq CleanerStages
  BY DEF CleanerStages, Trees!Loaded, Trees!Judged, Trees!Removing
<1>4. ASSUME NEW b \in Branches, Trees!CleanupAfterMerge(b)  PROVE TreesInv'
  <2> DEFINE x == [Trees!NoCleaner EXCEPT !.pc = "find", !.branch = b]
  <2>1. x \in CleanerRecords /\ x.pc = "find" /\ x.branch = b
    BY DEF Trees!NoCleaner, CleanerRecords, CleanerStages, HeadsOf
  <2>2. cleaners' = [cleaners EXCEPT !["merge"] = x] /\ UNCHANGED <<tree, refs, wcDone>>
    BY <1>4 DEF Trees!CleanupAfterMerge
  <2> HIDE DEF x
  <2>3. Noted("merge", x)  BY <2>1, NotRemoving DEF Trees!Removing
  <2>4. OfMerge("merge", x)  BY <2>1 DEF OfMerge
  <2> QED  BY <1>1, <2>1, <2>2, <2>3, <2>4, TreesCleaner
<1>5. CASE Trees!FindWorktree
  <2>1. UNCHANGED <<tree, refs, wcDone>> /\ cleaners["merge"].pc = "find"
    BY <1>5 DEF Trees!FindWorktree, Trees!Step
  <2>2. CASE Trees!OwnBranch = cleaners["merge"].branch /\ Trees!To("merge", "mark")
    <3> DEFINE x == [cleaners["merge"] EXCEPT !.pc = "mark"]
    <3>1. cleaners["merge"].branch \in Branches  BY <1>1, <2>1 DEF OfMerge
    <3>2. ~tree.loose  BY <1>1, <2>2, <3>1 DEF Trees!OwnBranch, TreeShape
    <3>3. x.pc = "mark" /\ OfMerge("merge", x)
      <4> HIDE DEF x
      <4> QED  BY <1>1, <1>3, <2>1, TreesMoves DEF x
    <3> HIDE DEF x
    <3>4. Noted("merge", x)  BY <3>2, <3>3 DEF Noted
    <3> QED  BY <1>1, <1>3, <2>1, <2>2, <3>3, <3>4, TreesTo DEF x
  <2>3. CASE Trees!To("merge", "delete")
    <3> DEFINE x == [cleaners["merge"] EXCEPT !.pc = "delete"]
    <3>1. x.pc = "delete" /\ OfMerge("merge", x)
      <4> HIDE DEF x
      <4> QED  BY <1>1, <1>3, <2>1, TreesMoves DEF x
    <3> HIDE DEF x
    <3>2. Noted("merge", x)  BY <3>1, NotRemoving DEF Trees!Removing
    <3> QED  BY <1>1, <1>3, <2>1, <2>3, <3>1, <3>2, TreesTo DEF x
  <2>4. CASE Trees!Leave("merge")  BY <1>1, <2>1, <2>4, TreesLeave
  <2> QED  BY <1>5, <2>2, <2>3, <2>4 DEF Trees!FindWorktree
<1>6. CASE Trees!SweepFetches
  <2>1. Trees!To("sweep", "load") /\ UNCHANGED <<tree, wcDone>>  BY <1>6 DEF Trees!SweepFetches
  <2>2. /\ refs' \in [Branches -> RefRecords] /\ \A b \in Branches : refs'[b].tip = refs[b].tip
    <3>1. CASE refs' = refs  BY <1>1, <3>1
    <3>2. CASE refs' = [b \in Branches |-> [refs[b] EXCEPT !.remote = @ /\ ~refs[b].gone]]
      <4> SUFFICES ASSUME NEW b \in Branches
          PROVE  refs'[b] \in RefRecords /\ refs'[b].tip = refs[b].tip
        BY <3>2
      <4> DEFINE m == refs[b].remote /\ ~refs[b].gone
      <4>1. m \in BOOLEAN /\ refs[b] \in RefRecords  BY <1>1
      <4>2. refs'[b] = [refs[b] EXCEPT !.remote = m]  BY <3>2
      <4> HIDE DEF m
      <4> QED  BY <4>1, <4>2 DEF RefRecords
    <3> QED  BY <1>6, <3>1, <3>2 DEF Trees!SweepFetches
  <2> DEFINE x == [cleaners["sweep"] EXCEPT !.pc = "load"]
  <2>3. x.pc = "load"  BY <1>2 DEF CleanerRecords
  <2> HIDE DEF x
  <2>4. HistoryHolds(x)  BY <2>3 DEF HistoryHolds, Trees!Loaded, Trees!Judged, Trees!Removing
  <2>5. Noted("sweep", x) /\ OfMerge("sweep", x)
    BY <2>3, <2>4, NotRemoving DEF Trees!Removing, OfMerge
  <2> QED  BY <1>1, <1>3, <2>1, <2>2, <2>5, TreesTo DEF x
<1>7. CASE Trees!SweepLoadsMerged
  <2> DEFINE y == [cleaners["sweep"] EXCEPT !.pc = "list"]
             x == [y EXCEPT !.merged = Trees!MergedBranches]
  <2>1. Trees!MergedBranches \subseteq Branches  BY DEF Trees!MergedBranches
  <2>2. /\ UNCHANGED <<tree, refs, wcDone>> /\ cleaners["sweep"].pc = "merged"
        /\ \/ cleaners' = [cleaners EXCEPT !["sweep"] = Trees!NoCleaner]
           \/ cleaners' = [cleaners EXCEPT !["sweep"] = x]
    BY <1>1, <1>7 DEF Trees!SweepLoadsMerged, Trees!Step
  <2>3. /\ y \in CleanerRecords /\ y.pc = "list" /\ (HistoryHolds(y) \/ "unworked" \in y.late)
    <3>1. cleaners["sweep"].pc \in Trees!Loaded  BY <2>2 DEF Trees!Loaded
    <3> HIDE DEF y
    <3> QED  BY <1>1, <1>3, <3>1, TreesMoves DEF y
  <2> HIDE DEF y
  <2>4. x \in CleanerRecords /\ x.pc = "list" /\ x.late = y.late
    BY <2>1, <2>3 DEF CleanerRecords
  <2> HIDE DEF x
  <2>5. Noted("sweep", x) /\ OfMerge("sweep", x)
    <3>1. HistoryHolds(x) \/ "unworked" \in x.late  BY <2>3, <2>4 DEF HistoryHolds
    <3> QED  BY <2>4, <3>1, NotRemoving DEF Trees!Removing, OfMerge
  <2>6. CASE cleaners' = [cleaners EXCEPT !["sweep"] = Trees!NoCleaner]
    BY <1>1, <2>2, <2>6, AtRest, TreesCleaner
  <2>7. CASE cleaners' = [cleaners EXCEPT !["sweep"] = x]
    BY <1>1, <2>2, <2>4, <2>5, <2>7, TreesCleaner
  <2> QED  BY <2>2, <2>6, <2>7
<1> QED  BY <1>4, <1>5, <1>6, <1>7

\* load_trunk_history settles which branches are without work of their own.
LEMMA TreesLoadsTrunk ==
  ASSUME TreesInv, Trees!SweepLoadsTrunk
  PROVE  TreesInv'
<1>1. /\ TreesType /\ TreeShape /\ OnlySafeTreesRemoved /\ \A d \in Trees!Kinds : Noted(d, cleaners[d])
      /\ cleaners \in [Trees!Kinds -> CleanerRecords] /\ refs \in [Branches -> RefRecords]
      /\ "sweep" \in Trees!Kinds
  BY DEF TreesInv, TreesType, Trees!Kinds
<1>2. /\ UNCHANGED <<tree, wcDone>> /\ cleaners["sweep"].pc = "load" /\ cleaners["sweep"] \in CleanerRecords
  BY <1>1 DEF Trees!SweepLoadsTrunk, Trees!Step
<1>3. ASSUME NEW x \in CleanerRecords, cleaners' = [cleaners EXCEPT !["sweep"] = x], x.pc = "merged",
             refs' \in [Branches -> RefRecords],
             (\A b \in Branches : refs'[b].tip # "newer") \/ "unworked" \in x.late
      PROVE  TreesInv'
  <2>1. cleaners'["sweep"] = x /\ \A d \in Trees!Kinds : d # "sweep" => cleaners'[d] = cleaners[d]
    BY <1>1, <1>3
  <2>2. TreesType'
    <3>1. \A d \in Trees!Kinds : OfMerge(d, cleaners'[d])  BY <1>1, <2>1 DEF TreesType, OfMerge
    <3> QED  BY <1>1, <1>2, <1>3, <2>1, <3>1 DEF TreesType, OfMerge
  <2>3. TreeShape'  BY <1>1, <1>2 DEF TreeShape
  <2>4. ASSUME NEW d \in Trees!Kinds PROVE Noted(d, cleaners[d])'
    <3>1. CASE d = "sweep"
      <4>1. cleaners'[d] = x  BY <2>1, <3>1
      <4>2. HistoryHolds(cleaners[d])' \/ "unworked" \in cleaners'[d].late
        BY <1>3, <4>1 DEF HistoryHolds
      <4>3. Judgement(cleaners[d])' \/ "unworked" \in cleaners'[d].late
        BY <1>3, <4>1, <4>2 DEF Judgement, PickIsWorked, TargetsAreWorked, TreeIsWorked, Trees!Removing,
                                Trees!Verified
      <4> QED  BY <1>3, <4>1, <4>3 DEF Noted, Trees!Removing
    <3>2. CASE d # "sweep"
      <4>1. Noted(d, cleaners[d]) /\ cleaners'[d] = cleaners[d]  BY <1>1, <2>1, <3>2
      <4> QED  BY <1>2, <3>2, <4>1 DEF Noted
    <3> QED  BY <3>1, <3>2
  <2>5. OnlySafeTreesRemoved'  BY <1>1, <1>2 DEF OnlySafeTreesRemoved, Trees!OnlySafeTreesRemoved
  <2> QED  BY <2>2, <2>3, <2>4, <2>5 DEF TreesInv
\* Each branch without work is in the history or not.
<1>4. ASSUME NEW r \in RefRecords, NEW t \in {"trunk", "newer"}  PROVE [r EXCEPT !.tip = t] \in RefRecords
  BY DEF RefRecords
<1>5. "merged" \in CleanerStages  BY DEF CleanerStages, Trees!Loaded
<1>6. CASE cleaners' = [cleaners EXCEPT !["sweep"] = Trees!NoCleaner] /\ UNCHANGED refs
  BY <1>1, <1>2, <1>6, AtRest, TreesCleaner
<1>7. CASE /\ Trees!To("sweep", "merged")
           /\ refs' = [b \in Branches |->
                         IF refs[b].tip = "newer" THEN [refs[b] EXCEPT !.tip = "trunk"] ELSE refs[b]]
  <2> DEFINE x == [cleaners["sweep"] EXCEPT !.pc = "merged"]
  <2>1. x \in CleanerRecords /\ x.pc = "merged"  BY <1>2, <1>5 DEF CleanerRecords
  <2>2. cleaners' = [cleaners EXCEPT !["sweep"] = x]  BY <1>7 DEF Trees!To
  <2>3. ASSUME NEW b \in Branches PROVE refs'[b] \in RefRecords /\ refs'[b].tip # "newer"
    <3>1. refs[b] \in RefRecords /\ [refs[b] EXCEPT !.tip = "trunk"].tip = "trunk"  BY <1>1 DEF RefRecords
    <3> QED  BY <1>4, <1>7, <3>1
  <2>4. refs' \in [Branches -> RefRecords]  BY <1>7, <2>3
  <2> HIDE DEF x
  <2> QED  BY <1>3, <2>1, <2>2, <2>3, <2>4
<1>8. ASSUME NEW S \in SUBSET Branches,
             cleaners' = [cleaners EXCEPT !["sweep"].pc = "merged", !["sweep"].late = {"unworked"}],
             refs' = [b \in Branches |-> IF refs[b].tip \in {"trunk", "newer"}
                                         THEN [refs[b] EXCEPT !.tip = IF b \in S THEN "newer" ELSE "trunk"]
                                         ELSE refs[b]]
      PROVE  TreesInv'
  <2> DEFINE x == [cleaners["sweep"] EXCEPT !.pc = "merged", !.late = {"unworked"}]
  <2>1. x \in CleanerRecords /\ x.pc = "merged" /\ x.late = {"unworked"}
    BY <1>2, <1>5 DEF CleanerRecords, LateKinds
  <2>2. cleaners' = [cleaners EXCEPT !["sweep"] = x]  BY <1>1, <1>8
  <2>3. ASSUME NEW b \in Branches PROVE refs'[b] \in RefRecords
    <3>1. PICK t \in {"trunk", "newer"} : t = IF b \in S THEN "newer" ELSE "trunk"  OBVIOUS
    <3>2. refs[b] \in RefRecords /\ [refs[b] EXCEPT !.tip = t] \in RefRecords  BY <1>1, <1>4
    <3> QED  BY <1>8, <3>1, <3>2
  <2>4. refs' \in [Branches -> RefRecords]  BY <1>8, <2>3
  <2> HIDE DEF x
  <2> QED  BY <1>3, <2>1, <2>2, <2>4
<1> QED  BY <1>6, <1>7, <1>8 DEF Trees!SweepLoadsTrunk

LEMMA TreesSweeps ==
  ASSUME TreesInv,
         Trees!SweepLists \/ Trees!IsRemoteBranchGone \/ \E b \in Branches : Trees!ResolveTip(b)
  PROVE  TreesInv'
<1>1. /\ tree \in TreeRecords /\ refs \in [Branches -> RefRecords] /\ TreeShape
      /\ cleaners \in [Trees!Kinds -> CleanerRecords] /\ cleaners["sweep"] \in CleanerRecords
      /\ Noted("sweep", cleaners["sweep"])
      /\ Trees!Detached \notin Branches /\ "sweep" \in Trees!Kinds
  BY TreesAssumption DEF TreesInv, TreesType, Trees!Kinds
<1>2. UNCHANGED <<tree, refs, wcDone>>
  BY DEF Trees!SweepLists, Trees!IsRemoteBranchGone, Trees!ResolveTip
<1>3. {"mark", "gone", "claude"} \subseteq CleanerStages
  BY DEF CleanerStages, Trees!Loaded, Trees!Judged, Trees!Removing
<1>4. ASSUME NEW x  PROVE OfMerge("sweep", x)  BY DEF OfMerge
<1>5. CASE Trees!SweepLists
  <2>1. cleaners["sweep"].pc = "list" /\ cleaners["sweep"].pc \in Trees!Loaded
    BY <1>5 DEF Trees!SweepLists, Trees!Step, Trees!Loaded
  <2>2. CASE cleaners' = [cleaners EXCEPT !["sweep"] = Trees!NoCleaner]
    BY <1>1, <1>2, <2>2, AtRest, TreesCleaner
  <2>3. CASE Trees!Leave("sweep")  BY <1>1, <1>2, <2>1, <2>3, TreesLeave
  <2>4. ASSUME NEW b, b = Trees!OwnBranch, b # Trees!Detached, ~Trees!IsUnstarted(b),
               NEW pc \in {"mark", "gone"},
               cleaners' = [cleaners EXCEPT !["sweep"].branch = b, !["sweep"].pc = pc]
        PROVE  TreesInv'
    <3>1. tree.there /\ tree.at = b /\ b \in Branches
      BY <1>1, <2>4 DEF Trees!OwnBranch, TreeRecords, HeadsOf
    <3>2. ~tree.loose /\ refs[b].tip # "trunk"
      BY <1>1, <2>4, <3>1 DEF TreeShape, Trees!IsUnstarted
    <3>3. b \in HeadsOf  BY <3>1 DEF HeadsOf
    <3> DEFINE x == [cleaners["sweep"] EXCEPT !.branch = b, !.pc = pc]
    <3>4. cleaners' = [cleaners EXCEPT !["sweep"] = x]  BY <1>1, <2>4
    <3>5. /\ x \in CleanerRecords /\ x.pc = pc /\ x.branch = b /\ x.late = cleaners["sweep"].late
      BY <1>1, <1>3, <3>3 DEF CleanerRecords
    <3> HIDE DEF x
    <3>6. Judgement(x) \/ "unworked" \in x.late
      BY <1>1, <2>1, <3>1, <3>2, <3>5 DEF Noted, Judgement, HistoryHolds, PickIsWorked, TargetsAreWorked,
         TreeIsWorked, Trees!Verified
    <3>7. Noted("sweep", x)  BY <3>2, <3>5, <3>6 DEF Noted
    <3> QED  BY <1>1, <1>2, <1>4, <3>4, <3>5, <3>7, TreesCleaner
  <2> QED  BY <1>5, <2>2, <2>3, <2>4 DEF Trees!SweepLists
<1>6. CASE Trees!IsRemoteBranchGone
  <2>1. cleaners["sweep"].pc = "gone" /\ cleaners["sweep"].pc \in Trees!Loaded
    BY <1>6 DEF Trees!IsRemoteBranchGone, Trees!Step, Trees!Loaded, Trees!Judged
  <2>2. CASE Trees!To("sweep", "mark")
    <3> DEFINE x == [cleaners["sweep"] EXCEPT !.pc = "mark"]
    <3>1. /\ x.pc = "mark" /\ x.branch = cleaners["sweep"].branch /\ x.late = cleaners["sweep"].late
      BY <1>1 DEF CleanerRecords
    <3> HIDE DEF x
    <3>2. Judgement(x) \/ "unworked" \in x.late
      BY <1>1, <2>1, <3>1 DEF Noted, Judgement, HistoryHolds, PickIsWorked, TargetsAreWorked,
         TreeIsWorked, Trees!Verified, Trees!Removing
    <3>3. Noted("sweep", x)  BY <1>1, <2>1, <3>1, <3>2 DEF Noted
    <3> QED  BY <1>1, <1>2, <1>3, <1>4, <2>2, <3>3, TreesTo DEF x
  <2> QED  BY <1>1, <1>2, <1>6, <2>1, <2>2, TreesLeave DEF Trees!IsRemoteBranchGone
<1>7. ASSUME NEW b \in Branches, Trees!ResolveTip(b)  PROVE TreesInv'
  <2>1. cleaners["sweep"].pc = "claude"  BY <1>7 DEF Trees!ResolveTip, Trees!Step
  <2>2. PICK found \in BOOLEAN :
          cleaners' = [cleaners EXCEPT !["sweep"].merged = @ \ {b},
                         !["sweep"].targets = IF found /\ refs[b].exists /\ ~Trees!IsUnstarted(b)
                                              THEN @ \cup {b} ELSE @]
    BY <1>7 DEF Trees!ResolveTip
  <2> DEFINE old == cleaners["sweep"].targets
             m == cleaners["sweep"].merged \ {b}
             t == IF found /\ refs[b].exists /\ ~Trees!IsUnstarted(b) THEN old \cup {b} ELSE old
             x == [cleaners["sweep"] EXCEPT !.merged = m, !.targets = t]
  <2>3. /\ m \subseteq Branches /\ t \subseteq Branches /\ old \subseteq Branches
        /\ \A d \in t : d \in old \/ refs[d].tip # "trunk"
    BY <1>1 DEF CleanerRecords, Trees!IsUnstarted
  <2>4. cleaners' = [cleaners EXCEPT !["sweep"] = x]  BY <1>1, <2>2
  <2> HIDE DEF m, t
  <2>5. /\ x \in CleanerRecords /\ x.pc = "claude" /\ x.targets = t /\ x.late = cleaners["sweep"].late
    BY <1>1, <2>1, <2>3 DEF CleanerRecords
  <2> HIDE DEF x
  <2>6. Judgement(x) \/ "unworked" \in x.late
    BY <1>1, <2>1, <2>3, <2>5 DEF Noted, Judgement, HistoryHolds, PickIsWorked, TargetsAreWorked,
       TreeIsWorked, Trees!Verified, Trees!Removing, Trees!Loaded, Trees!Judged
  <2>7. Noted("sweep", x)  BY <2>5, <2>6 DEF Noted, Trees!Removing
  <2> QED  BY <1>1, <1>2, <1>4, <2>4, <2>5, <2>7, TreesCleaner
<1> QED  BY <1>5, <1>6, <1>7

LEMMA TreesCheck ==
  ASSUME TreesInv, NEW c \in Trees!Kinds,
         \/ Trees!TargetsKnown(c) \/ Trees!CleanupClaudeWorktrees(c) \/ Trees!Shield(c)
         \/ Trees!BranchIdentity(c) \/ Trees!StatusIsClean(c) \/ Trees!NothingUnpushed(c)
  PROVE  TreesInv'
<1>1. /\ tree \in TreeRecords /\ refs \in [Branches -> RefRecords] /\ TreeShape
      /\ cleaners \in [Trees!Kinds -> CleanerRecords] /\ cleaners[c] \in CleanerRecords
      /\ Trees!Detached \notin Branches /\ Noted(c, cleaners[c]) /\ OfMerge(c, cleaners[c])
  BY TreesAssumption DEF TreesInv, TreesType
<1>2. UNCHANGED <<tree, refs, wcDone>>
  BY DEF Trees!TargetsKnown, Trees!CleanupClaudeWorktrees, Trees!Shield, Trees!BranchIdentity,
         Trees!StatusIsClean, Trees!NothingUnpushed
<1>3. CASE Trees!TargetsKnown(c)
  <2> DEFINE x == [cleaners[c] EXCEPT !.pc = "match"]
  <2>1. cleaners[c].pc = "claude" /\ Trees!To(c, "match")
    BY <1>3 DEF Trees!TargetsKnown, Trees!Step
  <2>2. "match" \in CleanerStages  BY DEF CleanerStages, Trees!Loaded, Trees!Judged
  <2>3. x.pc = "match" /\ x.targets = cleaners[c].targets /\ x.late = cleaners[c].late /\ OfMerge(c, x)
    <3> HIDE DEF x
    <3> QED  BY <2>1, <2>2, TreesMoves DEF x
  <2> HIDE DEF x
  <2>4. c = "sweep" => Judgement(x) \/ "unworked" \in x.late
    BY <1>1, <2>1, <2>3 DEF Noted, Judgement, HistoryHolds, PickIsWorked, TargetsAreWorked,
       TreeIsWorked, Trees!Verified, Trees!Removing, Trees!Loaded, Trees!Judged
  <2>5. Noted(c, x)  BY <2>3, <2>4 DEF Noted, Trees!Removing
  <2> QED  BY <1>1, <1>2, <2>1, <2>2, <2>3, <2>5, TreesTo DEF x
<1>4. CASE Trees!CleanupClaudeWorktrees(c)
  <2>1. cleaners[c].pc = "match"  BY <1>4 DEF Trees!CleanupClaudeWorktrees, Trees!Step
  <2>2. CASE cleaners' = [cleaners EXCEPT ![c] = Trees!NoCleaner]
    BY <1>1, <1>2, <2>2, AtRest, TreesCleaner
  <2>3. ASSUME NEW b \in Branches, b = Trees!OwnBranch, b \in cleaners[c].targets,
               cleaners' = [cleaners EXCEPT ![c].pc = "mark", ![c].branch = b, ![c].last = TRUE,
                                            ![c].late = @ \cap {"unworked"}]
        PROVE  TreesInv'
    <3> DEFINE l == cleaners[c].late \cap {"unworked"}
               x == [cleaners[c] EXCEPT !.pc = "mark", !.branch = b, !.last = TRUE, !.late = l]
    <3>1. tree.at = b /\ ~tree.loose  BY <1>1, <2>3 DEF Trees!OwnBranch, TreeShape
    <3>2. l \subseteq LateKinds /\ ("unworked" \in cleaners[c].late => "unworked" \in l)
      BY DEF LateKinds
    <3>3. cleaners' = [cleaners EXCEPT ![c] = x]  BY <1>1, <2>3
    <3> HIDE DEF l
    <3>4. x \in CleanerRecords /\ x.pc = "mark" /\ x.branch = b /\ x.late = l
      BY <1>1, <2>3, <3>2 DEF CleanerRecords, CleanerStages, HeadsOf, Trees!Loaded, Trees!Judged, Trees!Removing
    <3> HIDE DEF x
    <3>5. c = "sweep" => Judgement(x) \/ "unworked" \in x.late
      BY <1>1, <2>1, <2>3, <3>2, <3>4 DEF Noted, Judgement, HistoryHolds, PickIsWorked, TargetsAreWorked,
         TreeIsWorked, Trees!Verified, Trees!Loaded, Trees!Judged
    <3>6. Noted(c, x) /\ OfMerge(c, x)  BY <2>3, <3>1, <3>4, <3>5 DEF Noted, OfMerge
    <3> QED  BY <1>1, <1>2, <3>3, <3>4, <3>6, TreesCleaner
  <2>4. cleaners[c].targets \subseteq Branches  BY <1>1 DEF CleanerRecords
  <2> QED  BY <1>4, <2>2, <2>3, <2>4 DEF Trees!CleanupClaudeWorktrees
<1>5. CASE Trees!Leave(c) /\ cleaners[c].pc \in Trees!Removing
  BY <1>1, <1>2, <1>5, TreesLeave DEF Trees!Removing, Trees!Loaded, Trees!Judged
\* What the check has seen to be absent, and with it what was noted before, covers what
\* the next stage has to have noted.
<1>6. ASSUME NEW x \in CleanerRecords, NEW pc \in {"shield", "identity", "status", "revlist", "remove"},
             cleaners' = [cleaners EXCEPT ![c] = x], x.pc = pc, x.branch = cleaners[c].branch,
             cleaners[c].late \subseteq x.late, cleaners[c].pc \in Trees!Removing,
             pc \in {"identity", "status", "revlist", "remove"} =>
               ~tree.marked \/ cleaners[c].pc \in {"identity", "status", "revlist", "remove"},
             pc \in {"revlist", "remove"} => tree.dirt = "none" \/ cleaners[c].pc \in {"revlist", "remove"},
             pc \in Trees!Verified =>
               \/ cleaners[c].pc \in Trees!Verified \/ tree.at \in {x.branch, Trees!Detached}
               \/ "unworked" \in x.late
      PROVE  TreesInv'
  <2>1. c = "sweep" => Judgement(x) \/ "unworked" \in x.late
    BY <1>1, <1>6 DEF Noted, Judgement, HistoryHolds, PickIsWorked, TargetsAreWorked, TreeIsWorked,
                      Trees!Verified, Trees!Removing, Trees!Loaded, Trees!Judged
  <2>2. Noted(c, x)  BY <1>1, <1>6, <2>1 DEF Noted
  <2>3. OfMerge(c, x)  BY <1>1, <1>6 DEF OfMerge, Trees!Removing
  <2> QED  BY <1>1, <1>2, <1>6, <2>2, <2>3, TreesCleaner
<1>7. ASSUME NEW pc \in {"shield", "identity", "status", "revlist", "remove"}, Trees!To(c, pc),
             cleaners[c].pc \in Trees!Removing,
             pc \in {"identity", "status", "revlist", "remove"} =>
               ~tree.marked \/ cleaners[c].pc \in {"identity", "status", "revlist", "remove"},
             pc \in {"revlist", "remove"} => tree.dirt = "none" \/ cleaners[c].pc \in {"revlist", "remove"},
             pc \in Trees!Verified =>
               cleaners[c].pc \in Trees!Verified \/ tree.at \in {cleaners[c].branch, Trees!Detached}
      PROVE  TreesInv'
  <2> DEFINE x == [cleaners[c] EXCEPT !.pc = pc]
  <2>1. pc \in CleanerStages  BY DEF CleanerStages, Trees!Loaded, Trees!Judged, Trees!Removing
  <2>2. x \in CleanerRecords /\ x.pc = pc /\ x.branch = cleaners[c].branch /\ x.late = cleaners[c].late
    BY <1>1, <2>1 DEF CleanerRecords
  <2>3. cleaners' = [cleaners EXCEPT ![c] = x]  BY <1>7 DEF Trees!To
  <2> HIDE DEF x
  <2> QED  BY <1>6, <1>7, <2>2, <2>3
<1>8. CASE Trees!Shield(c)
  <2>1. CASE tree.there /\ tree.marked  BY <1>5, <1>8, <2>1 DEF Trees!Shield, Trees!Removing
  <2>2. CASE ~(tree.there /\ tree.marked)
    <3>1. ~tree.marked  BY <1>1, <2>2 DEF TreeShape
    <3>2. CASE Trees!To(c, "shield") /\ cleaners[c].pc = "mark"
      BY <1>7, <3>2 DEF Trees!Removing, Trees!Verified
    <3>3. CASE Trees!To(c, "identity") /\ cleaners[c].pc = "shield"
      BY <1>7, <3>1, <3>3 DEF Trees!Removing, Trees!Verified
    <3> QED  BY <1>8, <2>2, <3>2, <3>3 DEF Trees!Shield
  <2> QED  BY <2>1, <2>2
<1>9. CASE Trees!BranchIdentity(c)
  <2>1. cleaners[c].pc = "identity" /\ cleaners[c].pc \in Trees!Removing
    BY <1>9 DEF Trees!BranchIdentity, Trees!Step, Trees!Removing
  <2>2. CASE Trees!OwnBranch \in {cleaners[c].branch, Trees!Detached} /\ Trees!To(c, "status")
    <3>1. tree.at \in {cleaners[c].branch, Trees!Detached}
      BY <1>1, <2>2 DEF Trees!OwnBranch, TreeShape
    <3> QED  BY <1>7, <2>1, <2>2, <3>1
  <2>3. CASE cleaners' = [cleaners EXCEPT ![c].pc = "status", ![c].late = @ \cup {"unworked"}]
    <3> DEFINE l == cleaners[c].late \cup {"unworked"}
               x == [cleaners[c] EXCEPT !.pc = "status", !.late = l]
    <3>1. l \in SUBSET LateKinds  BY <1>1 DEF CleanerRecords, LateKinds
    <3>2. "unworked" \in l /\ cleaners[c].late \subseteq l /\ cleaners' = [cleaners EXCEPT ![c] = x]
      BY <1>1, <2>3
    <3> HIDE DEF l
    <3>3. x \in CleanerRecords /\ x.pc = "status" /\ x.branch = cleaners[c].branch /\ x.late = l
      BY <1>1, <3>1 DEF CleanerRecords, CleanerStages, Trees!Loaded, Trees!Judged, Trees!Removing
    <3> HIDE DEF x
    <3> QED  BY <1>6, <2>1, <3>2, <3>3
  <2> QED  BY <1>5, <1>9, <2>1, <2>2, <2>3 DEF Trees!BranchIdentity
<1>10. CASE Trees!StatusIsClean(c)
  <2>1. cleaners[c].pc = "status" /\ cleaners[c].pc \in Trees!Removing /\ cleaners[c].pc \in Trees!Verified
    BY <1>10 DEF Trees!StatusIsClean, Trees!Step, Trees!Removing, Trees!Verified
  <2>2. CASE Trees!To(c, "remove") /\ ~tree.there
    <3>1. tree.dirt = "none"  BY <1>1, <2>2 DEF TreeShape
    <3> QED  BY <1>7, <2>1, <2>2, <3>1
  <2>3. CASE Trees!To(c, "revlist") /\ tree.dirt = "none"
    BY <1>7, <2>1, <2>3
  <2> QED  BY <1>5, <1>10, <2>1, <2>2, <2>3 DEF Trees!StatusIsClean
<1>11. CASE Trees!NothingUnpushed(c)
  <2>1. cleaners[c].pc = "revlist" /\ cleaners[c].pc \in Trees!Removing /\ cleaners[c].pc \in Trees!Verified
    BY <1>11 DEF Trees!NothingUnpushed, Trees!Step, Trees!Removing, Trees!Verified
  <2>2. CASE Trees!To(c, "remove")  BY <1>7, <2>1, <2>2
  <2> QED  BY <1>5, <1>11, <2>1, <2>2 DEF Trees!NothingUnpushed
<1> QED  BY <1>3, <1>4, <1>8, <1>9, <1>10, <1>11

LEMMA TreesRemove ==
  ASSUME TreesInv, NEW c \in Trees!Kinds, Trees!RemoveWorktree(c)
  PROVE  TreesInv'
<1>1. /\ tree \in TreeRecords /\ refs \in [Branches -> RefRecords] /\ TreeShape /\ TreesType
      /\ cleaners \in [Trees!Kinds -> CleanerRecords] /\ cleaners[c] \in CleanerRecords
      /\ \A d \in Trees!Kinds : Noted(d, cleaners[d])
      /\ wcDone \in [work: Nat, wrong: SUBSET TakenKinds] /\ wcDone.wrong = {}
  BY DEF TreesInv, TreesType, OnlySafeTreesRemoved, Trees!OnlySafeTreesRemoved
<1>2. Trees!To(c, "delete") /\ UNCHANGED refs /\ cleaners[c].pc = "remove"
  BY DEF Trees!RemoveWorktree, Trees!Step
<1>3. cleaners[c].pc \in Trees!Removing /\ cleaners[c].pc \in Trees!Verified /\ cleaners[c].pc \in Trees!Loaded
  BY <1>2 DEF Trees!Removing, Trees!Verified, Trees!Loaded, Trees!Judged
<1> DEFINE x == [cleaners[c] EXCEPT !.pc = "delete"]
<1>4. "delete" \in CleanerStages  BY DEF CleanerStages, Trees!Loaded
<1>5. /\ x \in CleanerRecords /\ x.pc = "delete" /\ OfMerge(c, x)
      /\ c = "sweep" => HistoryHolds(x) \/ "unworked" \in x.late
  <2> HIDE DEF x
  <2> QED  BY <1>2, <1>3, <1>4, TreesMoves DEF x
<1>6. cleaners' = [cleaners EXCEPT ![c] = x]  BY <1>2 DEF Trees!To
<1> HIDE DEF x
<1>7. Noted(c, x)  BY <1>5, NotRemoving DEF Trees!Removing
<1>8. CASE UNCHANGED <<tree, wcDone>>  BY <1>1, <1>2, <1>5, <1>6, <1>7, <1>8, TreesCleaner
<1>9. CASE /\ tree' = Trees!NoTree
           /\ wcDone' = IF tree.there
                        THEN [wcDone EXCEPT !.wrong = @ \cup (Trees!Taken(c) \ cleaners[c].late)]
                        ELSE wcDone
  <2>1. Trees!Taken(c) \subseteq cleaners[c].late
    <3>1. Noted(c, cleaners[c])  BY <1>1
    <3>2. tree.dirt # "none" => "edits" \in cleaners[c].late  BY <1>2, <3>1 DEF Noted
    <3>3. tree.marked => "marker" \in cleaners[c].late  BY <1>2, <3>1 DEF Noted
    <3>4. tree.loose => "commits" \in cleaners[c].late  BY <1>3, <3>1 DEF Noted
    <3>5. c = "sweep" /\ tree.at \in Branches /\ refs[tree.at].tip \in {"trunk", "newer"} =>
            "unworked" \in cleaners[c].late
      BY <1>3, <3>1 DEF Noted, Judgement, HistoryHolds, PickIsWorked, TreeIsWorked
    <3> QED  BY <3>2, <3>3, <3>4, <3>5 DEF Trees!Taken
  <2>2. wcDone' = wcDone
    <3>1. wcDone.wrong \cup (Trees!Taken(c) \ cleaners[c].late) = {}  BY <1>1, <2>1
    <3>2. [wcDone EXCEPT !.wrong = @ \cup (Trees!Taken(c) \ cleaners[c].late)] =
            [wcDone EXCEPT !.wrong = {}]
      BY <3>1
    <3>3. [wcDone EXCEPT !.wrong = {}] = wcDone  BY <1>1
    <3> QED  BY <1>9, <3>2, <3>3
  <2>3. /\ tree' \in TreeRecords /\ ~tree'.loose /\ ~tree'.marked /\ tree'.dirt = "none"
        /\ tree'.at = Trees!Detached /\ tree'.at \notin Branches
    BY <1>9, TreesAssumption DEF Trees!NoTree, TreeRecords, HeadsOf
  <2>4. cleaners'[c] = x /\ \A d \in Trees!Kinds : d # c => cleaners'[d] = cleaners[d]
    BY <1>1, <1>6
  <2>5. TreesType'
    <3>1. \A d \in Trees!Kinds : OfMerge(d, cleaners'[d])  BY <1>1, <1>5, <2>4 DEF TreesType
    <3> QED  BY <1>1, <1>2, <1>5, <1>6, <2>2, <2>3, <2>4, <3>1 DEF TreesType, OfMerge
  <2>6. TreeShape'  BY <2>3 DEF TreeShape
  <2>7. ASSUME NEW d \in Trees!Kinds PROVE Noted(d, cleaners[d])'
    <3>1. Noted(d, cleaners'[d])  BY <1>1, <1>7, <2>4
    <3>2. d = "sweep" => Judgement(cleaners[d])' \/ "unworked" \in cleaners'[d].late
      BY <1>2, <2>3, <3>1 DEF Noted, Judgement, HistoryHolds, PickIsWorked, TargetsAreWorked, TreeIsWorked
    <3> QED  BY <2>3, <3>2 DEF Noted
  <2>8. OnlySafeTreesRemoved'
    BY <1>1, <2>2 DEF OnlySafeTreesRemoved, Trees!OnlySafeTreesRemoved
  <2> QED  BY <2>5, <2>6, <2>7, <2>8 DEF TreesInv
<1> QED  BY <1>8, <1>9 DEF Trees!RemoveWorktree

LEMMA TreesDelete ==
  ASSUME TreesInv, NEW c \in Trees!Kinds, Trees!DeleteBranch(c)
  PROVE  TreesInv'
<1>1. /\ refs \in [Branches -> RefRecords] /\ cleaners[c].pc = "delete"
      /\ cleaners[c].pc # "idle" /\ cleaners[c].pc \in Trees!Loaded
  BY DEF TreesInv, TreesType, Trees!DeleteBranch, Trees!Step, Trees!Loaded
<1>2. /\ Trees!Leave(c) /\ UNCHANGED <<tree, wcDone>>
      /\ refs' = refs \/ refs' = [refs EXCEPT ![cleaners[c].branch].exists = FALSE]
  BY DEF Trees!DeleteBranch, Trees!BranchDeleted
<1>3. refs' \in [Branches -> RefRecords] /\ \A b \in Branches : refs'[b].tip = refs[b].tip
  <2>1. CASE cleaners[c].branch \in Branches
    <3> DEFINE r == [refs[cleaners[c].branch] EXCEPT !.exists = FALSE]
    <3>1. PICK q \in RefRecords : q = refs[cleaners[c].branch]  BY <1>1, <2>1
    <3>1a. r \in RefRecords /\ r.tip = refs[cleaners[c].branch].tip  BY <3>1 DEF RefRecords
    <3>2. refs' = refs \/ refs' = [refs EXCEPT ![cleaners[c].branch] = r]  BY <1>1, <1>2, <2>1
    <3> HIDE DEF r
    <3> QED  BY <1>1, <2>1, <3>1a, <3>2
  <2>2. CASE cleaners[c].branch \notin Branches
    <3>1. refs' = refs  BY <1>1, <1>2, <2>2
    <3> QED  BY <1>1, <3>1
  <2> QED  BY <2>1, <2>2
<1> QED  BY <1>1, <1>2, <1>3, TreesLeave

LEMMA TreesStep == TreesInv /\ [Trees!Next]_(Trees!treeVars) => TreesInv'
<1> SUFFICES ASSUME TreesInv, [Trees!Next]_(Trees!treeVars) PROVE TreesInv'
  OBVIOUS
<1>1. CASE UNCHANGED Trees!treeVars
  <2>1. UNCHANGED <<tree, refs, cleaners, wcDone>>  BY <1>1 DEF Trees!treeVars
  <2> QED
    BY <2>1 DEF TreesInv, TreesType, OfMerge, TreeShape, Noted, Judgement, HistoryHolds, PickIsWorked,
                TargetsAreWorked, TreeIsWorked, OnlySafeTreesRemoved, Trees!OnlySafeTreesRemoved
<1> QED
  BY <1>1, TreesAgents, TreesBegin, TreesLoadsTrunk, TreesSweeps, TreesCheck, TreesRemove, TreesDelete DEF Trees!Next

\* For every set of branches and any amount of work by agents: a removal after a merge or
\* by the sweep takes no edit, no marked tree, no detached commit and, in a sweep, no tree
\* without work yet, unless it came into being after the check for it - a tree without work
\* after the sweep loaded the trunk it is judged by - or the git command of that check
\* failed (worktree-cleanup.ts).
THEOREM RemovalsAreSafe == Trees!Spec => []OnlySafeTreesRemoved
<1>1. TreesInv => OnlySafeTreesRemoved  BY DEF TreesInv
<1> QED  BY <1>1, TreesInit, TreesStep, PTL DEF Trees!Spec

--------------------------------------------------------------------------------
(* The triages of Sentry issues and their queue: SentryTriage.                       *)

CallStages == {"idle", "fetch", "openStart", "openQueue", "state", "spawn", "listen", "queue"}
CallRecords == [pc: CallStages, issue: Issues, queued: BOOLEAN, ray: Sentry!Sessions \cup {0}]
RayRecords == [kind: {"none", "triage", "unheard", "verdict", "fix"}, issue: Issues, old: BOOLEAN,
               heard: BOOLEAN]
DoneRecords == [started: Sentry!Sessions \cup {0}, events: Nat, missed: BOOLEAN, merged: SUBSET Issues]
SentryType ==
  /\ active \in [Issues -> Sentry!Sessions \cup {0}]
  /\ triageQueue \in Seq(Issues)
  /\ triageCalls \in [Calls -> CallRecords]
  /\ rays \in [Sentry!Sessions -> RayRecords]
  /\ sentryDone \in DoneRecords

\* An active issue has the triage session it names, which runs or has ended unheard.
ActiveRuns ==
  \A i \in Issues : active[i] # 0 =>
    /\ active[i] <= sentryDone.started /\ rays[active[i]].issue = i
    /\ rays[active[i]].kind \in {"triage", "unheard"}

\* A call of process_queue is marked as one for as long as it goes round, and one that is to
\* listen has its session.
Round(c) ==
  /\ c.queued => c.pc \in {"queue", "state", "spawn", "listen"}
  /\ c.pc = "queue" => c.queued
  /\ c.pc = "listen" => c.ray \in Sentry!Sessions
RoundsMarked == \A k \in Calls : Round(triageCalls[k])

\* Stronger than QueuedTriageIsDriven: a call that merely opens another incident will not
\* look at the queue.
TriageRuns == \E s \in Sentry!Sessions : rays[s].kind = "triage"
Driven == triageQueue # <<>> => TriageRuns \/ (\E k \in Calls : triageCalls[k].queued) \/ sentryDone.missed

SentryInv == SentryType /\ ActiveRuns /\ RoundsMarked /\ Driven

\* The cardinality SentryTriage uses is the one the theorems on finite sets are about.
LEMMA SentryCardinality == ASSUME NEW S PROVE Sentry!Cardinality(S) = Cardinality(S)
  BY DEF Sentry!Cardinality, Cardinality

\* Capacity is not taken by no one.
LEMMA SentryCounts ==
  Sentry!IsAtCapacity(active) => \E i \in Issues : active[i] # 0
<1> SUFFICES ASSUME \A i \in Issues : active[i] = 0
             PROVE  ~Sentry!IsAtCapacity(active)
  OBVIOUS
<1>1. {i \in Issues : active[i] # 0} = {}  OBVIOUS
<1>2. Cardinality({i \in Issues : active[i] # 0}) = 0  BY <1>1, FS_EmptySet
<1>3. Sentry!ActiveCount(active) = 0  BY <1>2, SentryCardinality DEF Sentry!ActiveCount
<1> QED  BY <1>3, SentryAssumption DEF Sentry!IsAtCapacity

LEMMA SentryInit == Sentry!Init => SentryInv
<1> SUFFICES ASSUME Sentry!Init PROVE SentryInv
  OBVIOUS
<1>1. (CHOOSE i \in Issues : TRUE) \in Issues  BY SentryAssumption
<1>2. Sentry!NoCall \in CallRecords /\ Round(Sentry!NoCall)
  BY <1>1 DEF Sentry!NoCall, CallRecords, CallStages, Round
<1>3. Sentry!NoRay \in RayRecords  BY <1>1 DEF Sentry!NoRay, RayRecords
<1>4. /\ active = [i \in Issues |-> 0] /\ triageQueue = <<>>
      /\ triageCalls = [k \in Calls |-> Sentry!NoCall] /\ rays = [s \in Sentry!Sessions |-> Sentry!NoRay]
      /\ sentryDone \in DoneRecords
  BY DEF Sentry!Init, DoneRecords
<1>5. SentryType  BY <1>2, <1>3, <1>4 DEF SentryType
<1>6. ActiveRuns /\ RoundsMarked /\ Driven  BY <1>2, <1>4 DEF ActiveRuns, RoundsMarked, Driven
<1> QED  BY <1>5, <1>6 DEF SentryInv

\* A step of a call that starts and ends no session.
LEMMA SentryCall ==
  ASSUME SentryInv, NEW k \in Calls, NEW c \in CallRecords, Round(c),
         triageCalls' = [triageCalls EXCEPT ![k] = c],
         rays' \in [Sentry!Sessions -> RayRecords],
         \A s \in Sentry!Sessions : rays'[s].kind = rays[s].kind /\ rays'[s].issue = rays[s].issue,
         active' \in [Issues -> Sentry!Sessions \cup {0}],
         \A i \in Issues : active'[i] = 0 \/ active'[i] = active[i],
         triageQueue' \in Seq(Issues),
         sentryDone' \in DoneRecords, sentryDone'.started = sentryDone.started,
         sentryDone.missed => sentryDone'.missed \/ triageQueue' = <<>>,
         \/ triageQueue' = <<>> \/ TriageRuns \/ c.queued \/ sentryDone'.missed
         \/ triageQueue # <<>> /\ ~triageCalls[k].queued
  PROVE  SentryInv'
<1>1. SentryType /\ ActiveRuns /\ RoundsMarked /\ Driven  BY DEF SentryInv
<1>2. triageCalls'[k] = c /\ \A j \in Calls : j # k => triageCalls'[j] = triageCalls[j]
  BY <1>1 DEF SentryType
<1>3. SentryType'  BY <1>1 DEF SentryType
<1>4. ActiveRuns'
  <2> SUFFICES ASSUME NEW i \in Issues, active'[i] # 0
      PROVE  /\ active'[i] <= sentryDone'.started /\ rays'[active'[i]].issue = i
             /\ rays'[active'[i]].kind \in {"triage", "unheard"}
    BY DEF ActiveRuns
  <2>1. active'[i] = active[i] /\ active[i] \in Sentry!Sessions  BY <1>1 DEF SentryType
  <2> QED  BY <1>1, <2>1 DEF ActiveRuns
<1>5. RoundsMarked'  BY <1>1, <1>2 DEF RoundsMarked
<1>6. TriageRuns => TriageRuns'  BY DEF TriageRuns
<1>7. Driven'  BY <1>1, <1>2, <1>6 DEF Driven
<1> QED  BY <1>3, <1>4, <1>5, <1>7 DEF SentryInv

\* The triages that are not too old.
LEMMA SentryCurrent ==
  ASSUME SentryInv
  PROVE  /\ Sentry!Current \in [Issues -> Sentry!Sessions \cup {0}]
         /\ \A i \in Issues : Sentry!Current[i] = 0 \/ Sentry!Current[i] = active[i]
  BY DEF SentryInv, SentryType, Sentry!Current

LEMMA SentryEvents ==
  ASSUME SentryInv, NEW k \in Calls,
         (\E i \in Issues : Sentry!TriageEvent(k, i)) \/ Sentry!DetailsFetched(k)
  PROVE  SentryInv'
<1>1. SentryType /\ RoundsMarked /\ Driven /\ triageCalls[k] \in CallRecords /\ sentryDone \in DoneRecords
  BY DEF SentryInv, SentryType
<1>2. Round(triageCalls[k])  BY <1>1 DEF RoundsMarked
<1>3. (CHOOSE i \in Issues : TRUE) \in Issues  BY SentryAssumption
<1>4. ~triageCalls[k].queued
  BY <1>2 DEF Sentry!TriageEvent, Sentry!DetailsFetched, Sentry!At, Round
<1>5. ASSUME NEW i \in Issues, Sentry!TriageEvent(k, i)  PROVE SentryInv'
  <2> DEFINE f == [Sentry!NoCall EXCEPT !.pc = "fetch", !.issue = i]
  <2>1. /\ active' = Sentry!Current /\ UNCHANGED <<triageQueue, rays>>
        /\ sentryDone' = [sentryDone EXCEPT !.events = sentryDone.events + 1]
        /\ triageCalls' = triageCalls \/ triageCalls' = [triageCalls EXCEPT ![k] = f]
    BY <1>5 DEF Sentry!TriageEvent
  <2>2. f \in CallRecords /\ ~f.queued /\ Round(f)
    BY <1>3 DEF Sentry!NoCall, CallRecords, CallStages, Round
  <2> HIDE DEF f
  <2>3. PICK c \in CallRecords : /\ triageCalls' = [triageCalls EXCEPT ![k] = c] /\ ~c.queued /\ Round(c)
    <3>1. CASE triageCalls' = triageCalls
      <4>1. triageCalls' = [triageCalls EXCEPT ![k] = triageCalls[k]]  BY <1>1, <3>1 DEF SentryType
      <4> QED  BY <1>1, <1>2, <1>4, <4>1
    <3> QED  BY <2>1, <2>2, <3>1
  <2>4. sentryDone.events + 1 \in Nat  BY <1>1 DEF DoneRecords
  <2>5. /\ sentryDone' \in DoneRecords /\ sentryDone'.started = sentryDone.started
        /\ sentryDone'.missed = sentryDone.missed
    BY <1>1, <2>1, <2>4 DEF DoneRecords
  <2> QED  BY <1>1, <1>4, <2>1, <2>3, <2>5, SentryCurrent, SentryCall DEF SentryType
<1>6. CASE Sentry!DetailsFetched(k)
  <2>1. UNCHANGED <<triageQueue, rays, sentryDone>>  BY <1>6 DEF Sentry!DetailsFetched
  <2>2. /\ active' \in [Issues -> Sentry!Sessions \cup {0}]
        /\ \A i \in Issues : active'[i] = 0 \/ active'[i] = active[i]
    BY <1>1, <1>6, SentryCurrent DEF Sentry!DetailsFetched, SentryType
  <2>3. PICK c \in CallRecords : /\ triageCalls' = [triageCalls EXCEPT ![k] = c] /\ ~c.queued /\ Round(c)
    <3>1. Sentry!NoCall \in CallRecords /\ ~Sentry!NoCall.queued /\ Round(Sentry!NoCall)
      BY <1>3 DEF Sentry!NoCall, CallRecords, CallStages, Round
    <3>2. CASE Sentry!Returns(k)  BY <3>1, <3>2 DEF Sentry!Returns
    <3>3. ASSUME NEW pc \in {"openStart", "openQueue"}, Sentry!Goes(k, pc)
          PROVE  \E c \in CallRecords :
                   triageCalls' = [triageCalls EXCEPT ![k] = c] /\ ~c.queued /\ Round(c)
      <4> DEFINE c == [triageCalls[k] EXCEPT !.pc = pc]
      <4>1. c \in CallRecords /\ c.pc = pc /\ c.queued = triageCalls[k].queued
        BY <1>1 DEF CallRecords, CallStages
      <4>2. triageCalls' = [triageCalls EXCEPT ![k] = c]  BY <1>1, <3>3 DEF Sentry!Goes, SentryType
      <4> HIDE DEF c
      <4>3. Round(c) /\ ~c.queued  BY <1>4, <4>1 DEF Round
      <4> QED  BY <4>1, <4>2, <4>3
    <3> QED  BY <1>6, <3>2, <3>3 DEF Sentry!DetailsFetched
  <2> QED  BY <1>1, <1>4, <2>1, <2>2, <2>3, SentryCall DEF SentryType
<1> QED  BY <1>5, <1>6

\* After a session has been started, or has not, the round goes on or the call ends.
LEMMA SentryAfterSpawn ==
  ASSUME SentryInv, NEW k \in Calls, Sentry!AfterSpawn(k)
  PROVE  \E c \in CallRecords : /\ triageCalls' = [triageCalls EXCEPT ![k] = c] /\ Round(c)
                                /\ c.queued \/ ~triageCalls[k].queued
<1>1. triageCalls \in [Calls -> CallRecords]  BY DEF SentryInv, SentryType
<1>2. (CHOOSE i \in Issues : TRUE) \in Issues  BY SentryAssumption
<1> DEFINE q == [Sentry!NoCall EXCEPT !.pc = "queue", !.queued = TRUE]
<1>3. Sentry!NoCall \in CallRecords /\ Round(Sentry!NoCall)
  BY <1>2 DEF Sentry!NoCall, CallRecords, CallStages, Round
<1>4. q \in CallRecords /\ q.queued /\ Round(q)
  BY <1>2 DEF Sentry!NoCall, CallRecords, CallStages, Round
<1>5. triageCalls' = [triageCalls EXCEPT ![k] = IF triageCalls[k].queued THEN q ELSE Sentry!NoCall]
  BY <1>1 DEF Sentry!AfterSpawn
<1> HIDE DEF q
<1> QED  BY <1>3, <1>4, <1>5

LEMMA SentryOpens ==
  ASSUME SentryInv, NEW k \in Calls,
         \/ Sentry!IncidentOpened(k) \/ Sentry!Investigate(k) \/ Sentry!ProcessQueue(k)
         \/ Sentry!UpdateThrows(k) \/ Sentry!Listen(k)
  PROVE  SentryInv'
<1>1. /\ SentryType /\ ActiveRuns /\ RoundsMarked /\ Driven
      /\ triageCalls[k] \in CallRecords /\ sentryDone \in DoneRecords
  BY DEF SentryInv, SentryType
<1>2. Round(triageCalls[k])  BY <1>1 DEF RoundsMarked
<1>3. (CHOOSE i \in Issues : TRUE) \in Issues  BY SentryAssumption
<1>4. Sentry!NoCall \in CallRecords /\ ~Sentry!NoCall.queued /\ Round(Sentry!NoCall)
  BY <1>3 DEF Sentry!NoCall, CallRecords, CallStages, Round
<1>5. (\E i \in Issues : active[i] # 0) => TriageRuns \/ Sentry!HeldUnheard
  BY <1>1 DEF ActiveRuns, SentryType, TriageRuns, Sentry!HeldUnheard, Sentry!Underway
<1>6. CASE Sentry!IncidentOpened(k) /\ Sentry!At(k, "openStart")
  <2> DEFINE c == [triageCalls[k] EXCEPT !.pc = "state"]
  <2>1. triageCalls' = [triageCalls EXCEPT ![k] = c] /\ UNCHANGED <<active, rays, triageQueue, sentryDone>>
    BY <1>1, <1>6 DEF Sentry!IncidentOpened, Sentry!Goes, SentryType
  <2>2. c \in CallRecords /\ c.pc = "state" /\ c.queued = triageCalls[k].queued
    BY <1>1 DEF CallRecords, CallStages
  <2> HIDE DEF c
  <2>3. Round(c) /\ ~triageCalls[k].queued  BY <1>2, <1>6, <2>2 DEF Round, Sentry!At
  <2> QED  BY <1>1, <2>1, <2>2, <2>3, SentryCall DEF SentryType
<1>7. CASE Sentry!IncidentOpened(k) /\ ~Sentry!At(k, "openStart")
  <2> DEFINE o == sentryDone.missed \/ \A s \in Sentry!Sessions : ~Sentry!Underway(s)
  <2>1. /\ triageCalls' = [triageCalls EXCEPT ![k] = Sentry!NoCall] /\ UNCHANGED <<active, rays>>
        /\ triageQueue' = Append(triageQueue, triageCalls[k].issue)
        /\ sentryDone' = [sentryDone EXCEPT !.missed = o]
    BY <1>7 DEF Sentry!IncidentOpened, Sentry!Returns
  <2>2. o \in BOOLEAN /\ (o \/ TriageRuns) /\ (sentryDone.missed => o)
    BY DEF TriageRuns, Sentry!Underway
  <2> HIDE DEF o
  <2>3. /\ sentryDone' \in DoneRecords /\ sentryDone'.started = sentryDone.started
        /\ sentryDone'.missed = o
    BY <1>1, <2>1, <2>2 DEF DoneRecords
  <2>4. triageQueue' \in Seq(Issues)  BY <1>1, <2>1 DEF SentryType, CallRecords
  <2>5. sentryDone.missed => sentryDone'.missed  BY <2>2, <2>3
  <2>6. TriageRuns \/ sentryDone'.missed  BY <2>2, <2>3
  <2> QED  BY <1>1, <1>4, <2>1, <2>3, <2>4, <2>5, <2>6, SentryCall DEF SentryType
<1>8. CASE Sentry!Investigate(k)
  <2> DEFINE c == [triageCalls[k] EXCEPT !.pc = "spawn"]
  <2>1. triageCalls' = [triageCalls EXCEPT ![k] = c] /\ UNCHANGED <<active, rays, triageQueue, sentryDone>>
    BY <1>1, <1>8 DEF Sentry!Investigate, Sentry!Goes, SentryType
  <2>2. c \in CallRecords /\ c.pc = "spawn" /\ c.queued = triageCalls[k].queued
    BY <1>1 DEF CallRecords, CallStages
  <2> HIDE DEF c
  <2>3. Round(c)  BY <2>2 DEF Round
  <2>4. c.queued \/ triageQueue' = <<>> \/ (triageQueue # <<>> /\ ~triageCalls[k].queued)
    BY <2>1, <2>2
  <2> QED  BY <1>1, <2>1, <2>2, <2>3, <2>4, SentryCall DEF SentryType
<1>9. CASE Sentry!ProcessQueue(k)
  <2>1. UNCHANGED <<active, rays>> /\ triageCalls[k].pc = "queue" /\ triageCalls[k].queued
    BY <1>2, <1>9 DEF Sentry!ProcessQueue, Sentry!At, Round
  <2>2. CASE triageQueue # <<>> /\ ~Sentry!IsAtCapacity(active)
    <3> DEFINE i == Head(triageQueue)
               c == [triageCalls[k] EXCEPT !.pc = "state", !.issue = i]
               o == sentryDone.missed /\ Tail(triageQueue) # <<>>
    <3>1. /\ triageCalls' = [triageCalls EXCEPT ![k] = c] /\ triageQueue' = Tail(triageQueue)
          /\ sentryDone' = [sentryDone EXCEPT !.missed = o]
      BY <1>1, <1>9, <2>2 DEF Sentry!ProcessQueue, SentryType
    <3>2. i \in Issues /\ triageQueue' \in Seq(Issues)  BY <1>1, <2>2, <3>1 DEF SentryType
    <3>3. o \in BOOLEAN /\ (sentryDone.missed => o \/ triageQueue' = <<>>)  BY <3>1
    <3> HIDE DEF i, o
    <3>4. c \in CallRecords /\ c.queued /\ c.pc = "state"
      BY <1>1, <2>1, <3>2 DEF CallRecords, CallStages
    <3> HIDE DEF c
    <3>5. Round(c)  BY <3>4 DEF Round
    <3>6. /\ sentryDone' \in DoneRecords /\ sentryDone'.started = sentryDone.started
          /\ sentryDone'.missed = o
      BY <1>1, <3>1, <3>3 DEF DoneRecords
    <3> QED  BY <1>1, <2>1, <3>1, <3>2, <3>3, <3>4, <3>5, <3>6, SentryCall DEF SentryType
  <2>3. CASE ~(triageQueue # <<>> /\ ~Sentry!IsAtCapacity(active))
    <3> DEFINE o == sentryDone.missed \/ (triageQueue # <<>> /\ Sentry!HeldUnheard)
    <3>1. /\ triageCalls' = [triageCalls EXCEPT ![k] = Sentry!NoCall] /\ triageQueue' = triageQueue
          /\ sentryDone' = [sentryDone EXCEPT !.missed = o]
      BY <1>9, <2>3 DEF Sentry!ProcessQueue, Sentry!Returns
    <3>2. o \in BOOLEAN /\ (triageQueue' = <<>> \/ TriageRuns \/ o) /\ (sentryDone.missed => o)
      BY <1>5, <2>3, <3>1, SentryCounts
    <3> HIDE DEF o
    <3>3. /\ sentryDone' \in DoneRecords /\ sentryDone'.started = sentryDone.started
          /\ sentryDone'.missed = o
      BY <1>1, <3>1, <3>2 DEF DoneRecords
    <3> QED  BY <1>1, <1>4, <2>1, <3>1, <3>2, <3>3, SentryCall DEF SentryType
  <2> QED  BY <2>2, <2>3
<1>10. CASE Sentry!UpdateThrows(k)
  <2> DEFINE o == sentryDone.missed \/ (triageCalls[k].queued /\ triageQueue # <<>>)
  <2>1. /\ triageCalls' = [triageCalls EXCEPT ![k] = Sentry!NoCall]
        /\ UNCHANGED <<active, rays, triageQueue>>
        /\ sentryDone' = [sentryDone EXCEPT !.missed = o]
    BY <1>10 DEF Sentry!UpdateThrows, Sentry!Returns
  <2>2. o \in BOOLEAN /\ (sentryDone.missed => o)
        /\ (triageQueue' = <<>> \/ o \/ (triageQueue # <<>> /\ ~triageCalls[k].queued))
    BY <2>1
  <2> HIDE DEF o
  <2>3. /\ sentryDone' \in DoneRecords /\ sentryDone'.started = sentryDone.started
        /\ sentryDone'.missed = o
    BY <1>1, <2>1, <2>2 DEF DoneRecords
  <2> QED  BY <1>1, <1>4, <2>1, <2>2, <2>3, SentryCall DEF SentryType
<1>11. CASE Sentry!Listen(k)
  <2>1. /\ UNCHANGED <<active, triageQueue, sentryDone>> /\ triageCalls[k].pc = "listen"
        /\ triageCalls[k].ray \in Sentry!Sessions
    BY <1>2, <1>11 DEF Sentry!Listen, Sentry!At, Round
  <2>2. /\ rays' \in [Sentry!Sessions -> RayRecords]
        /\ \A s \in Sentry!Sessions : rays'[s].kind = rays[s].kind /\ rays'[s].issue = rays[s].issue
    <3> DEFINE s == triageCalls[k].ray
               r == [rays[s] EXCEPT !.heard = TRUE]
    <3>1. r \in RayRecords /\ r.kind = rays[s].kind /\ r.issue = rays[s].issue
      <4>1. rays[s] \in RayRecords  BY <1>1, <2>1 DEF SentryType
      <4> QED  BY <4>1 DEF RayRecords
    <3>2. rays' = rays \/ rays' = [rays EXCEPT ![s] = r]
      BY <1>1, <1>11, <2>1 DEF Sentry!Listen, SentryType
    <3> HIDE DEF r
    <3> QED  BY <1>1, <2>1, <3>1, <3>2 DEF SentryType
  <2>3. PICK c \in CallRecords : /\ triageCalls' = [triageCalls EXCEPT ![k] = c] /\ Round(c)
                                 /\ c.queued \/ ~triageCalls[k].queued
    BY <1>1, <1>11, SentryAfterSpawn DEF Sentry!Listen
  <2> QED  BY <1>1, <2>1, <2>2, <2>3, SentryCall DEF SentryType
<1> QED  BY <1>6, <1>7, <1>8, <1>9, <1>10, <1>11

LEMMA SentrySpawns ==
  ASSUME SentryInv, NEW k \in Calls, Sentry!SpawnTriage(k)
  PROVE  SentryInv'
<1>1. /\ SentryType /\ ActiveRuns /\ RoundsMarked
      /\ triageCalls[k] \in CallRecords /\ sentryDone \in DoneRecords
      /\ sentryDone.started \in Nat
  BY SentryAssumption DEF SentryInv, SentryType, DoneRecords, Sentry!Sessions
<1>2. (CHOOSE i \in Issues : TRUE) \in Issues  BY SentryAssumption
<1>3. Sentry!NoCall \in CallRecords /\ ~Sentry!NoCall.queued /\ Round(Sentry!NoCall)
  BY <1>2 DEF Sentry!NoCall, CallRecords, CallStages, Round
<1> DEFINE i == triageCalls[k].issue
           s == sentryDone.started + 1
<1>5. i \in Issues /\ UNCHANGED triageQueue  BY <1>1 DEF CallRecords, Sentry!SpawnTriage
<1>6. CASE UNCHANGED <<active, rays, sentryDone>> /\ Sentry!AfterSpawn(k)
  <2>1. PICK c \in CallRecords : /\ triageCalls' = [triageCalls EXCEPT ![k] = c] /\ Round(c)
                                 /\ c.queued \/ ~triageCalls[k].queued
    BY <1>6, SentryAfterSpawn
  <2>2. \/ triageQueue' = <<>>
        \/ c.queued
        \/ triageQueue # <<>> /\ ~triageCalls[k].queued
    BY <1>5, <2>1
  <2> QED  BY <1>1, <1>5, <1>6, <2>1, <2>2, SentryCall DEF SentryType
<1>7. CASE /\ s \in Sentry!Sessions
           /\ rays' = [rays EXCEPT ![s] = [Sentry!NoRay EXCEPT !.kind = "triage", !.issue = i]]
           /\ active' = [active EXCEPT ![i] = s]
           /\ sentryDone' = [sentryDone EXCEPT !.started = s]
           /\ triageCalls' = [triageCalls EXCEPT ![k].pc = "listen", ![k].ray = s]
  <2> DEFINE r == [Sentry!NoRay EXCEPT !.kind = "triage", !.issue = i]
             c == [triageCalls[k] EXCEPT !.pc = "listen", !.ray = s]
  <2>1. r \in RayRecords /\ r.kind = "triage" /\ r.issue = i
    BY <1>2, <1>5 DEF Sentry!NoRay, RayRecords
  <2>2. rays' = [rays EXCEPT ![s] = r]  BY <1>7
  <2>2a. /\ c \in CallRecords /\ c.pc = "listen" /\ c.ray = s
         /\ triageCalls' = [triageCalls EXCEPT ![k] = c]
    BY <1>1, <1>7 DEF CallRecords, CallStages, SentryType
  <2> HIDE DEF r, c
  <2>3. s \in Nat /\ s # 0 /\ sentryDone.started < s  BY <1>1
  <2>4. sentryDone' \in DoneRecords /\ sentryDone'.started = s
    BY <1>1, <1>7 DEF DoneRecords
  <2> HIDE DEF i, s
  <2>5. rays' \in [Sentry!Sessions -> RayRecords] /\ rays'[s] = r
        /\ \A t \in Sentry!Sessions : t # s => rays'[t] = rays[t]
    BY <1>1, <1>7, <2>1, <2>2 DEF SentryType
  <2>6. /\ active' \in [Issues -> Sentry!Sessions \cup {0}] /\ active'[i] = s
        /\ \A j \in Issues : j # i => active'[j] = active[j]
    BY <1>1, <1>5, <1>7 DEF SentryType
  <2>7. triageCalls' \in [Calls -> CallRecords] /\ RoundsMarked'
    BY <1>1, <1>7, <2>2a DEF SentryType, RoundsMarked, Round
  <2>8. SentryType'  BY <1>1, <1>5, <2>4, <2>5, <2>6, <2>7 DEF SentryType
  <2>9. ActiveRuns'
    <3> SUFFICES ASSUME NEW j \in Issues, active'[j] # 0
        PROVE  /\ active'[j] <= s /\ rays'[active'[j]].issue = j
               /\ rays'[active'[j]].kind \in {"triage", "unheard"}
      BY <2>4 DEF ActiveRuns
    <3>1. CASE j = i  BY <2>1, <2>3, <2>5, <2>6, <3>1
    <3>2. CASE j # i
      <4>1. /\ active'[j] = active[j] /\ active[j] \in Sentry!Sessions /\ active[j] \in Nat
            /\ active[j] <= sentryDone.started /\ rays[active[j]].issue = j
            /\ rays[active[j]].kind \in {"triage", "unheard"}
        BY <1>1, <2>6, <3>2, SentryAssumption DEF ActiveRuns, SentryType, Sentry!Sessions
      <4>2. active[j] # s /\ active[j] <= s  BY <1>1, <2>3, <4>1
      <4> QED  BY <2>5, <4>1, <4>2
    <3> QED  BY <3>1, <3>2
  <2>10. Driven'  BY <1>7, <2>1, <2>5 DEF Driven, TriageRuns
  <2> QED  BY <2>7, <2>8, <2>9, <2>10 DEF SentryInv
<1> QED  BY <1>6, <1>7 DEF Sentry!SpawnTriage

\* A session other than a triage goes on or ends.
LEMMA SentryRays ==
  ASSUME SentryInv, NEW s \in Sentry!Sessions, NEW r \in RayRecords, rays' = [rays EXCEPT ![s] = r],
         UNCHANGED <<active, triageQueue, triageCalls, sentryDone>>,
         rays[s].kind \in {"triage", "unheard"} => r.kind = rays[s].kind /\ r.issue = rays[s].issue
  PROVE  SentryInv'
<1>1. SentryType /\ ActiveRuns /\ RoundsMarked /\ Driven  BY DEF SentryInv
<1>2. /\ rays' \in [Sentry!Sessions -> RayRecords] /\ rays'[s] = r
      /\ \A t \in Sentry!Sessions : t # s => rays'[t] = rays[t]
  BY <1>1 DEF SentryType
<1>3. SentryType'  BY <1>1, <1>2 DEF SentryType
<1>4. ActiveRuns'
  <2> SUFFICES ASSUME NEW i \in Issues, active[i] # 0
      PROVE  /\ active[i] <= sentryDone.started /\ rays'[active[i]].issue = i
             /\ rays'[active[i]].kind \in {"triage", "unheard"}
    BY DEF ActiveRuns
  <2>1. /\ active[i] \in Sentry!Sessions /\ active[i] <= sentryDone.started
        /\ rays[active[i]].kind \in {"triage", "unheard"} /\ rays[active[i]].issue = i
    BY <1>1 DEF ActiveRuns, SentryType
  <2> QED  BY <1>2, <2>1
<1>5. RoundsMarked'  BY <1>1 DEF RoundsMarked
<1>6. TriageRuns => TriageRuns'  BY <1>2 DEF TriageRuns
<1>7. Driven'  BY <1>1, <1>6 DEF Driven
<1> QED  BY <1>3, <1>4, <1>5, <1>7 DEF SentryInv

\* The end of a triage takes its issue off the active ones and begins a call that looks
\* at the queue.
LEMMA SentryEnds ==
  ASSUME SentryInv, NEW k \in Calls, NEW s \in Sentry!Sessions,
         Sentry!TriageCompletes(k, s) \/ Sentry!TriageFails(k, s)
  PROVE  SentryInv'
<1>1. /\ SentryType /\ ActiveRuns /\ RoundsMarked
      /\ rays[s] \in RayRecords /\ rays[s].issue \in Issues
  BY DEF SentryInv, SentryType, RayRecords
<1>2. (CHOOSE i \in Issues : TRUE) \in Issues  BY SentryAssumption
<1>3. /\ active' = [active EXCEPT ![rays[s].issue] = 0]
      /\ Sentry!QueueProcessed(k)
      /\ UNCHANGED <<triageQueue, sentryDone>>
  BY DEF Sentry!TriageCompletes, Sentry!TriageFails
<1>4. PICK r \in RayRecords : rays' = [rays EXCEPT ![s] = r]
  <2>1. Sentry!NoRay \in RayRecords  BY <1>2 DEF Sentry!NoRay, RayRecords
  <2>2. [rays[s] EXCEPT !.kind = "verdict"] \in RayRecords  BY <1>1 DEF RayRecords
  <2>3. \/ rays' = [rays EXCEPT ![s] = Sentry!NoRay]
        \/ rays' = [rays EXCEPT ![s] = [rays[s] EXCEPT !.kind = "verdict"]]
    BY <1>1 DEF Sentry!TriageCompletes, Sentry!TriageFails, SentryType
  <2> QED  BY <2>1, <2>2, <2>3
<1> DEFINE i == rays[s].issue
           c == [Sentry!NoCall EXCEPT !.pc = "queue", !.queued = TRUE]
<1>5. c \in CallRecords /\ c.queued /\ c.pc = "queue" /\ Round(c)
  BY <1>2 DEF Sentry!NoCall, CallRecords, CallStages, Round
<1>6. triageCalls' = [triageCalls EXCEPT ![k] = c]  BY <1>3 DEF Sentry!QueueProcessed
<1> HIDE DEF c
<1>7. /\ triageCalls' \in [Calls -> CallRecords] /\ triageCalls'[k] = c
      /\ \A j \in Calls : j # k => triageCalls'[j] = triageCalls[j]
  BY <1>1, <1>5, <1>6 DEF SentryType
<1>8. /\ rays' \in [Sentry!Sessions -> RayRecords]
      /\ \A t \in Sentry!Sessions : t # s => rays'[t] = rays[t]
  BY <1>1, <1>4 DEF SentryType
<1>9. /\ active' \in [Issues -> Sentry!Sessions \cup {0}] /\ active'[i] = 0
      /\ \A j \in Issues : j # i => active'[j] = active[j]
  BY <1>1, <1>3 DEF SentryType
<1>10. SentryType'  BY <1>1, <1>3, <1>7, <1>8, <1>9 DEF SentryType
<1>11. ActiveRuns'
  <2> SUFFICES ASSUME NEW j \in Issues, active'[j] # 0
      PROVE  /\ active'[j] <= sentryDone.started /\ rays'[active'[j]].issue = j
             /\ rays'[active'[j]].kind \in {"triage", "unheard"}
    BY <1>3 DEF ActiveRuns
  <2>1. j # i /\ active'[j] = active[j]  BY <1>9
  <2>2. /\ active[j] \in Sentry!Sessions /\ active[j] <= sentryDone.started
        /\ rays[active[j]].kind \in {"triage", "unheard"} /\ rays[active[j]].issue = j
    BY <1>1, <2>1 DEF ActiveRuns, SentryType
  <2>3. active[j] # s  BY <2>1, <2>2
  <2> QED  BY <1>8, <2>1, <2>2, <2>3
<1>12. RoundsMarked'  BY <1>1, <1>5, <1>7 DEF RoundsMarked
<1>13. Driven'  BY <1>5, <1>7 DEF Driven
<1> QED  BY <1>10, <1>11, <1>12, <1>13 DEF SentryInv

LEMMA SentrySessions ==
  ASSUME SentryInv, NEW s \in Sentry!Sessions, Sentry!Ages(s) \/ Sentry!SpawnFix(s) \/ Sentry!FixEnds(s) \/ Sentry!EndsUnheard(s)
  PROVE  SentryInv'
<1>1. SentryType /\ rays[s] \in RayRecords  BY DEF SentryInv, SentryType
<1>2. (CHOOSE i \in Issues : TRUE) \in Issues  BY SentryAssumption
<1>3. Sentry!NoRay \in RayRecords  BY <1>2 DEF Sentry!NoRay, RayRecords
<1>4. CASE Sentry!Ages(s)
  <2> DEFINE r == [rays[s] EXCEPT !.old = TRUE]
  <2>1. r \in RayRecords /\ r.kind = rays[s].kind /\ r.issue = rays[s].issue  BY <1>1 DEF RayRecords
  <2>2. rays' = [rays EXCEPT ![s] = r]  BY <1>1, <1>4 DEF Sentry!Ages, SentryType
  <2>3. UNCHANGED <<active, triageQueue, triageCalls, sentryDone>>  BY <1>4 DEF Sentry!Ages
  <2> HIDE DEF r
  <2> QED  BY <2>1, <2>2, <2>3, SentryRays
<1>5. CASE Sentry!SpawnFix(s) \/ Sentry!FixEnds(s)
  <2>1. PICK h \in BOOLEAN : \/ rays' = [rays EXCEPT ![s] = Sentry!NoRay]
                             \/ rays' = [rays EXCEPT ![s].kind = "fix", ![s].heard = h]
    BY <1>5 DEF Sentry!SpawnFix, Sentry!FixEnds
  <2> DEFINE r == [rays[s] EXCEPT !.kind = "fix", !.heard = h]
  <2>2. r \in RayRecords  BY <1>1 DEF RayRecords
  <2>3. /\ rays[s].kind \notin {"triage", "unheard"}
        /\ rays' = [rays EXCEPT ![s] = Sentry!NoRay] \/ rays' = [rays EXCEPT ![s] = r]
        /\ UNCHANGED <<active, triageQueue, triageCalls, sentryDone>>
    BY <1>1, <1>5, <2>1 DEF Sentry!SpawnFix, Sentry!FixEnds, SentryType
  <2> HIDE DEF r
  <2> QED  BY <1>3, <2>2, <2>3, SentryRays
<1>6. CASE Sentry!EndsUnheard(s)
  <2> DEFINE r == [rays[s] EXCEPT !.kind = "unheard"]
             o == sentryDone.missed \/ triageQueue # <<>>
  <2>1. ActiveRuns /\ RoundsMarked /\ sentryDone \in DoneRecords  BY DEF SentryInv, SentryType
  <2>2. r \in RayRecords /\ r.kind = "unheard" /\ r.issue = rays[s].issue  BY <1>1 DEF RayRecords
  <2>3. /\ rays' = [rays EXCEPT ![s] = r] /\ UNCHANGED <<active, triageQueue, triageCalls>>
        /\ sentryDone' = [sentryDone EXCEPT !.missed = o]
    BY <1>1, <1>6 DEF Sentry!EndsUnheard, SentryType
  <2>4. o \in BOOLEAN /\ (triageQueue # <<>> => o)  OBVIOUS
  <2> HIDE DEF r, o
  <2>5. /\ sentryDone' \in DoneRecords /\ sentryDone'.started = sentryDone.started
        /\ sentryDone'.missed = o
    BY <2>1, <2>3, <2>4 DEF DoneRecords
  <2>6. /\ rays' \in [Sentry!Sessions -> RayRecords] /\ rays'[s] = r
        /\ \A t \in Sentry!Sessions : t # s => rays'[t] = rays[t]
    BY <1>1, <2>2, <2>3 DEF SentryType
  <2>7. SentryType'  BY <1>1, <2>3, <2>5, <2>6 DEF SentryType
  <2>8. ActiveRuns'
    <3> SUFFICES ASSUME NEW i \in Issues, active[i] # 0
        PROVE  /\ active[i] <= sentryDone.started /\ rays'[active[i]].issue = i
               /\ rays'[active[i]].kind \in {"triage", "unheard"}
      BY <2>3, <2>5 DEF ActiveRuns
    <3>1. /\ active[i] \in Sentry!Sessions /\ active[i] <= sentryDone.started
          /\ rays[active[i]].kind \in {"triage", "unheard"} /\ rays[active[i]].issue = i
      BY <1>1, <2>1 DEF ActiveRuns, SentryType
    <3> QED  BY <2>2, <2>6, <3>1
  <2>9. RoundsMarked'  BY <2>1, <2>3 DEF RoundsMarked
  <2>10. Driven'  BY <2>3, <2>4, <2>5 DEF Driven
  <2> QED  BY <2>7, <2>8, <2>9, <2>10 DEF SentryInv
<1> QED  BY <1>4, <1>5, <1>6

LEMMA SentryRecords ==
  ASSUME SentryInv, UNCHANGED <<active, triageQueue, triageCalls, rays>>, sentryDone' \in DoneRecords,
         sentryDone'.started = sentryDone.started, sentryDone'.missed = sentryDone.missed
  PROVE  SentryInv'
<1>1. SentryType'  BY DEF SentryInv, SentryType
<1>2. ActiveRuns' /\ RoundsMarked' /\ Driven'
  BY DEF SentryInv, ActiveRuns, RoundsMarked, Driven, TriageRuns
<1> QED  BY <1>1, <1>2 DEF SentryInv

LEMMA SentryStep == SentryInv /\ [Sentry!Next]_Sentry!sentryVars => SentryInv'
<1> SUFFICES ASSUME SentryInv, [Sentry!Next]_Sentry!sentryVars PROVE SentryInv'
  OBVIOUS
<1>1. sentryDone \in DoneRecords  BY DEF SentryInv, SentryType
<1>2. ASSUME NEW k \in Calls, Sentry!CallStep(k) PROVE SentryInv'
  BY <1>2, SentryEvents, SentryOpens, SentrySpawns, SentryEnds DEF Sentry!CallStep
<1>3. ASSUME NEW s \in Sentry!Sessions,
             Sentry!Ages(s) \/ Sentry!SpawnFix(s) \/ Sentry!FixEnds(s) \/ Sentry!EndsUnheard(s)
      PROVE  SentryInv'
  BY <1>3, SentrySessions
<1>4. ASSUME NEW i \in Issues, Sentry!FixPrMerged(i) \/ Sentry!SentryResolved(i)  PROVE SentryInv'
  <2>1. UNCHANGED <<active, triageQueue, triageCalls, rays>>
    BY <1>4 DEF Sentry!FixPrMerged, Sentry!SentryResolved
  <2>2. /\ sentryDone' \in DoneRecords /\ sentryDone'.started = sentryDone.started
        /\ sentryDone'.missed = sentryDone.missed
    BY <1>1, <1>4 DEF Sentry!FixPrMerged, Sentry!SentryResolved, DoneRecords
  <2> QED  BY <2>1, <2>2, SentryRecords
<1>5. CASE UNCHANGED Sentry!sentryVars
  BY <1>1, <1>5, SentryRecords DEF Sentry!sentryVars
<1> QED  BY <1>2, <1>3, <1>4, <1>5 DEF Sentry!Next

LEMMA SentrySafe == SentryInv => QueuedTriageIsDriven
<1> SUFFICES ASSUME SentryInv, triageQueue # <<>>, ~TriageRuns, ~sentryDone.missed
             PROVE  \E k \in Calls : triageCalls[k].pc # "idle"
  BY DEF QueuedTriageIsDriven, Sentry!QueuedTriageIsDriven, TriageRuns, Sentry!Underway
<1>1. PICK k \in Calls : triageCalls[k].queued  BY DEF SentryInv, Driven
<1> QED  BY <1>1 DEF SentryInv, RoundsMarked, Round

\* For every capacity, queue depth and number of sessions: while the queue is not empty, a
\* triage session is running whose end will look at it, or a call of process_queue is going
\* round, unless the queue was missed: by a push after the triages it waited for had ended,
\* by the end of a session that nobody listened for yet, by a round that found capacity
\* taken by such a session, or by an update that threw in the round (sentry-triage.ts).
THEOREM QueuedTriagesAreDriven == Sentry!Spec => []QueuedTriageIsDriven
  BY SentryInit, SentryStep, SentrySafe, PTL DEF Sentry!Spec
================================================================================
