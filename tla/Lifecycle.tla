------------------------------- MODULE Lifecycle -------------------------------
(* The processes of the daemon on one machine: main() and shutdown() (index.ts),     *)
(* the port that makes a second one stand aside (singleton.ts), the PID file         *)
(* (pid.ts), launchd with KeepAlive, and the CLI's start, stop and restart.          *)
(* Abstracted: what a subsystem does while it is up; PIDs are not used twice.        *)
EXTENDS Naturals, FiniteSets

CONSTANTS
  MaxProcs,    \* processes ever started
  MaxSignals   \* SIGTERMs and SIGKILLs

Procs == 1 .. MaxProcs
Subsystems == {"port", "pool", "broker", "gateway"}

VARIABLES
  proc,        \* per process: where in main or shutdown, what it holds
  pidFile,     \* the PID in the file, 0 for none
  launchd,     \* whether the job is loaded, the process it tracks
  cli,         \* a restart under way: its step and the PID it read
  machine      \* counts; processes that died without taking their PID back, that
               \* have a recycle of the gateway in flight, that logged in after disconnect

procVars == <<proc, pidFile, launchd, cli, machine>>

Unborn == [at |-> "unborn", has |-> {}]
Gone == [at |-> "gone", has |-> {}]
Quiet == [pc |-> "idle", old |-> 0]

Init ==
  /\ proc = [p \in Procs |-> Unborn] /\ pidFile = 0
  /\ launchd = [loaded |-> FALSE, main |-> 0] /\ cli = Quiet
  /\ machine = [started |-> 0, signals |-> 0, died |-> {}, recycling |-> {}, late |-> {}]

Running(p) == p # 0 /\ proc[p].at \notin {"unborn", "gone"}
Moves(p, at) == proc' = [proc EXCEPT ![p].at = at]
Exits(p) == proc' = [proc EXCEPT ![p] = Gone]
Dies(p) == Exits(p) /\ machine' = [machine EXCEPT !.died = @ \cup {p}]

Started(p) ==
  /\ machine.started < MaxProcs /\ p = machine.started + 1
  /\ Moves(p, "listen") /\ machine' = [machine EXCEPT !.started = p]

-----------------------------------------------------------------------------
(* main *)

(* acquire_port, before anything else: on EADDRINUSE the process exits with 0.     *)
PortTaken == \E p \in Procs : "port" \in proc[p].has
AcquirePort(p) ==
  /\ proc[p].at = "listen"
  /\ IF PortTaken THEN Exits(p) ELSE proc' = [proc EXCEPT ![p] = [at |-> "pool", has |-> {"port"}]]
  /\ UNCHANGED <<pidFile, launchd, cli, machine>>

(* The pool, the broker, the gateway come up; the last two may be off or fail.     *)
After == [pool |-> "broker", broker |-> "gateway", gateway |-> "pid"]
SubsystemUp(p) ==
  LET s == proc[p].at IN
  /\ s \in DOMAIN After
  /\ \/ proc' = [proc EXCEPT ![p] = [at |-> After[s], has |-> @.has \cup {s}]]
     \/ s # "pool" /\ Moves(p, After[s])
  /\ UNCHANGED <<pidFile, launchd, cli, machine>>

(* write_pid; then the handlers of the signals are set.                            *)
PidWritten(p) ==
  /\ proc[p].at = "pid" /\ Moves(p, "up") /\ pidFile' = p
  /\ UNCHANGED <<launchd, cli, machine>>

(* main rejects: the handler of rejections logs it, and the process stays with what *)
(* it has, without handlers of signals and without a PID in the file.               *)
MainThrows(p) ==
  /\ proc[p].at \in {"pool", "broker", "gateway", "pid"} /\ Moves(p, "half")
  /\ UNCHANGED <<pidFile, launchd, cli, machine>>

(* An uncaught exception.                                                          *)
Crashes(p) ==
  /\ Running(p) /\ Dies(p)
  /\ UNCHANGED <<pidFile, launchd, cli>>

-----------------------------------------------------------------------------
(* shutdown *)

Stopping == {"draining", "stopping", "forced"}

(* The first signal starts the shutdown, which waits while agents work; a second   *)
(* one ends the process, as any does before the handlers are set.                   *)
Signalled(p) ==
  /\ machine.signals < MaxSignals
  /\ IF proc[p].at = "up"
     THEN /\ \E at \in {"draining", "stopping"} : Moves(p, at)
          /\ machine' = [machine EXCEPT !.signals = @ + 1]
     ELSE /\ Exits(p)
          /\ machine' = [machine EXCEPT !.signals = @ + 1, !.died = @ \cup {p}]

(* The agents come to rest, or the deadline of the drain passes.                   *)
DrainEnds(p) ==
  /\ proc[p].at = "draining"
  /\ \E at \in {"stopping", "forced"} : Moves(p, at)
  /\ UNCHANGED <<pidFile, launchd, cli, machine>>

(* Slip: the HTTP server is closed first.                                          *)
NextDownPortFirst(p) ==
  LET has == proc[p].has IN
  CASE "port" \in has -> "port"
    [] "pool" \in has -> "pool"
    [] "broker" \in has -> "broker"
    [] OTHER -> "gateway"

(* pool.shutdown, broker.stop, discord.disconnect, server.close, in this order.    *)
NextDown(p) ==
  LET has == proc[p].has IN
  CASE "pool" \in has -> "pool"
    [] "broker" \in has -> "broker"
    [] "gateway" \in has -> "gateway"
    [] OTHER -> "port"

(* The forced path leaves the gateway and the port to the exit.                    *)
ToStop(p) ==
  CASE proc[p].at = "stopping" -> proc[p].has
    [] proc[p].at = "forced" -> proc[p].has \cap {"pool", "broker"}
    [] OTHER -> {}

SubsystemDown(p) ==
  /\ ToStop(p) # {}
  /\ proc' = [proc EXCEPT ![p].has = @ \ {NextDown(p)}]
  /\ UNCHANGED <<pidFile, launchd, cli, machine>>

(* The watchdog destroys the client; disconnect leaves one that is not connected    *)
(* alone.                                                                           *)
RecycleBegins(p) ==
  /\ Running(p) /\ "gateway" \in proc[p].has
  /\ proc' = [proc EXCEPT ![p].has = @ \ {"gateway"}]
  /\ machine' = [machine EXCEPT !.recycling = @ \cup {p}]
  /\ UNCHANGED <<pidFile, launchd, cli>>

(* The login ends, well or not, before disconnect has passed or after it.          *)
RecycleEnds(p) ==
  /\ p \in machine.recycling /\ Running(p)
  /\ \/ /\ "port" \in proc[p].has /\ proc' = [proc EXCEPT ![p].has = @ \cup {"gateway"}]
        /\ machine' = [machine EXCEPT !.recycling = @ \ {p}]
     \/ /\ proc[p].at \in {"stopping", "wedged"} /\ proc[p].has \subseteq {"port"}
        /\ machine' = [machine EXCEPT !.recycling = @ \ {p}, !.late = @ \cup {p}]
        /\ UNCHANGED proc
     \/ machine' = [machine EXCEPT !.recycling = @ \ {p}] /\ UNCHANGED proc
  /\ UNCHANGED <<pidFile, launchd, cli>>

(* A step of shutdown throws: the rejection is logged, and nothing goes on.        *)
ShutdownThrows(p) ==
  /\ proc[p].at \in {"stopping", "forced"} /\ Moves(p, "wedged")
  /\ UNCHANGED <<pidFile, launchd, cli, machine>>

(* remove_pid takes the file away whoever it names; the process exits.             *)
RemovePid(p) ==
  /\ proc[p].at \in {"stopping", "forced"} /\ ToStop(p) = {}
  /\ pidFile' = 0 /\ Exits(p)
  /\ UNCHANGED <<launchd, cli, machine>>

-----------------------------------------------------------------------------
(* launchd and the CLI *)

(* KeepAlive: a loaded job whose process is gone is started again.                 *)
KeepAlive(p) ==
  /\ launchd.loaded /\ ~Running(launchd.main) /\ Started(p)
  /\ launchd' = [launchd EXCEPT !.main = p]
  /\ UNCHANGED <<pidFile, cli>>

(* A daemon started by hand, or left behind by a dead supervisor.                  *)
Untracked(p) == Started(p) /\ UNCHANGED <<pidFile, launchd, cli>>

(* launchctl signals the process it tracks, and kills it when it is not gone by    *)
(* ExitTimeout.                                                                     *)
TermMain ==
  IF Running(launchd.main) THEN Signalled(launchd.main) ELSE UNCHANGED <<proc, machine>>
ExitTimeout ==
  /\ Running(launchd.main) /\ proc[launchd.main].at \in Stopping \cup {"wedged"}
  /\ machine.signals < MaxSignals /\ Exits(launchd.main)
  /\ machine' = [machine EXCEPT !.signals = @ + 1, !.died = @ \cup {launchd.main}]
  /\ UNCHANGED <<pidFile, launchd, cli>>

(* lf start: a running daemon is left alone without --upgrade; a loaded job is     *)
(* kicked, another loaded.                                                          *)
LfStart(upgrade) ==
  /\ upgrade \/ ~Running(pidFile)
  /\ IF launchd.loaded THEN TermMain ELSE UNCHANGED <<proc, machine>>
  /\ launchd' = [launchd EXCEPT !.loaded = TRUE]
  /\ UNCHANGED <<pidFile, cli>>

(* lf stop: the service is unloaded.                                               *)
LfStop ==
  /\ launchd.loaded /\ TermMain
  /\ launchd' = [launchd EXCEPT !.loaded = FALSE]
  /\ UNCHANGED <<pidFile, cli>>

(* lf restart: the PID is read, the job kicked; kickstart waits for the exit and   *)
(* fails when it takes too long. It may not come to run at all.                     *)
RestartBegins ==
  /\ cli.pc = "idle" /\ launchd.loaded
  /\ cli' = [pc |-> "kicked", old |-> pidFile]
  /\ \/ TermMain \/ UNCHANGED <<proc, machine>>
  /\ UNCHANGED <<pidFile, launchd>>

KickReturns ==
  /\ cli.pc = "kicked"
  /\ \/ cli' = [cli EXCEPT !.pc = "poll"]
     \/ Running(cli.old) /\ cli' = [cli EXCEPT !.pc = "fallback"]
  /\ UNCHANGED <<proc, pidFile, launchd, machine>>

(* The file is read again: only the process it still names is killed.              *)
Wedged == cli.old # 0 /\ pidFile = cli.old /\ Running(cli.old)
RestartKills ==
  /\ cli.pc = "fallback" /\ cli' = [cli EXCEPT !.pc = "poll"]
  /\ IF Wedged
     THEN /\ machine.signals < MaxSignals /\ Exits(cli.old)
          /\ machine' = [machine EXCEPT !.signals = @ + 1, !.died = @ \cup {cli.old}]
     ELSE UNCHANGED <<proc, machine>>
  /\ UNCHANGED <<pidFile, launchd>>

(* A new PID is seen running, or the wait is over.                                 *)
RestartEnds ==
  /\ cli.pc = "poll" /\ cli' = Quiet
  /\ UNCHANGED <<proc, pidFile, launchd, machine>>

Next ==
  \/ \E p \in Procs :
       \/ AcquirePort(p) \/ SubsystemUp(p) \/ PidWritten(p) \/ MainThrows(p) \/ Crashes(p)
       \/ DrainEnds(p) \/ SubsystemDown(p) \/ ShutdownThrows(p) \/ RemovePid(p)
       \/ RecycleBegins(p) \/ RecycleEnds(p) \/ KeepAlive(p) \/ Untracked(p)
       \/ Running(p) /\ Signalled(p) /\ UNCHANGED <<pidFile, launchd, cli>>
  \/ \E upgrade \in BOOLEAN : LfStart(upgrade)
  \/ ExitTimeout \/ LfStop
  \/ RestartBegins \/ KickReturns \/ RestartKills \/ RestartEnds

Spec == Init /\ [][Next]_procVars

-----------------------------------------------------------------------------
(* Properties *)

Holds(p, s) == s \in proc[p].has \/ (s = "gateway" /\ p \in machine.late /\ Running(p))

(* No two processes hold the port, the pool, the broker socket or the gateway at   *)
(* one time, through restarts, forced exits and duplicates, unless one of two that  *)
(* hold the gateway logged in after its own disconnect; and a PID in the file is of *)
(* a process that runs or was cut short.                                            *)
OneDaemonAtWork ==
  /\ \A s \in Subsystems : \A p, q \in Procs :
       Holds(p, s) /\ Holds(q, s) => p = q \/ (s = "gateway" /\ {p, q} \cap machine.late # {})
  /\ pidFile # 0 => Running(pidFile) \/ pidFile \in machine.died
================================================================================
