---------------------------------- MODULE Rooms --------------------------------
(* Work rooms (discord.ts): /room creates a channel and a session in it, /close    *)
(* archives the session and deletes the channel, /resume brings an archived         *)
(* session back in a new channel. A handler is cut at its awaits; handlers of       *)
(* several commands run at once. The entity file is truncated and then written, and *)
(* the write may throw. The pool (BotPool) is seen through assign, release, evict   *)
(* and get_assignment.                                                              *)
(* Abstracted: names are given (two for two rooms), replies, the context message,   *)
(* other writers of the entity file; an archive is named by the time it was closed. *)
EXTENDS Naturals

CONSTANTS
  Names,        \* purposes of rooms
  Calls,        \* commands in flight
  MaxRooms,     \* channels created
  MaxSessions,  \* sessions started
  MaxClosings   \* rooms closed

VARIABLES
  roomList,     \* entity config: channel -> name, "" for none
  roomFile,     \* the config on disk: its rooms, and whether it is torn
  roomEntity,   \* what the daemon knows: the entity, the channels of the channel map
  home,         \* per channel: its session and whether a bot holds it, or the pool keeps it
  archives,     \* archive files
  roomCalls,    \* commands in flight
  roomsDone     \* counts, sessions given up with the reason, overlaps

roomVars == <<roomList, roomFile, roomEntity, home, archives, roomCalls, roomsDone>>

Rooms == 1 .. MaxRooms
Empty == [r \in Rooms |-> ""]
NoHome == [sess |-> 0, at |-> "none"]
NoArchive == [name |-> "", sess |-> 0, closed |-> 0]
Idle == [pc |-> "idle", cmd |-> "", name |-> "", room |-> 0, arch |-> NoArchive, copy |-> Empty]

Init ==
  /\ roomList = Empty /\ roomFile = [rooms |-> Empty, torn |-> FALSE]
  /\ roomEntity = [known |-> TRUE, map |-> {}]
  /\ home = [r \in Rooms |-> NoHome]
  /\ archives = {} /\ roomCalls = [k \in Calls |-> Idle]
  /\ roomsDone = [rooms |-> 0, sessions |-> 0, closings |-> 0, lost |-> {}, overlap |-> FALSE]

Taken(n) == \E r \in Rooms : roomList[r] = n
Goes(k, pc) == roomCalls' = [roomCalls EXCEPT ![k].pc = pc]
Returns(k) == roomCalls' = [roomCalls EXCEPT ![k] = Idle]

(* Another command for this name is between its check and its last step.          *)
Overlaps(k, n) == \E j \in Calls \ {k} : roomCalls[j].pc # "idle" /\ roomCalls[j].name = n
Begins(k, c) ==
  /\ roomCalls' = [roomCalls EXCEPT ![k] = c]
  /\ roomsDone' = [roomsDone EXCEPT !.overlap = @ \/ Overlaps(k, c.name),
                     !.closings = IF c.cmd = "close" THEN @ + 1 ELSE @]

-----------------------------------------------------------------------------
(* /room and /resume, of an entity that the registry has *)

RoomBegins(k, n) ==
  /\ roomCalls[k].pc = "idle" /\ roomEntity.known /\ ~Taken(n)
  /\ Begins(k, [Idle EXCEPT !.pc = "create", !.cmd = "room", !.name = n])
  /\ UNCHANGED <<roomList, roomFile, roomEntity, home, archives>>

(* load_room_archives sorts by the time of the close.                              *)
Latest(n) ==
  {a \in archives : a.name = n /\ \A b \in archives : b.name = n => b.closed <= a.closed}

(* Slip: the archive is used up when it is read.                                   *)
ResumeTakes(k, n) ==
  /\ roomCalls[k].pc = "idle" /\ roomEntity.known /\ ~Taken(n)
  /\ \E a \in Latest(n) :
       /\ Begins(k, [Idle EXCEPT !.pc = "create", !.cmd = "resume", !.name = n, !.arch = a])
       /\ archives' = archives \ {a}
  /\ UNCHANGED <<roomList, roomFile, roomEntity, home>>

(* The archives are loaded, then the latest of the name is taken.                  *)
ResumeBegins(k, n) ==
  /\ roomCalls[k].pc = "idle" /\ roomEntity.known /\ ~Taken(n)
  /\ \E a \in Latest(n) :
       Begins(k, [Idle EXCEPT !.pc = "create", !.cmd = "resume", !.name = n, !.arch = a])
  /\ UNCHANGED <<roomList, roomFile, roomEntity, home, archives>>

(* Another save of the file is under way: what the two writes leave is not said.   *)
Saves(k) == roomCalls[k].pc \in {"save", "write", "saveclosed", "writeclosed"}
SavesMeet(k) == roomsDone.overlap \/ \E j \in Calls \ {k} : Saves(j)

(* create_channel; the entry goes to the list, the list to the disk.               *)
ChannelCreated(k) ==
  LET r == roomsDone.rooms + 1 IN
  /\ roomCalls[k].pc = "create"
  /\ \/ /\ r \in Rooms
        /\ roomList' = [roomList EXCEPT ![r] = roomCalls[k].name]
        /\ roomCalls' = [roomCalls EXCEPT ![k].pc = "save", ![k].room = r, ![k].copy = roomList']
        /\ roomsDone' = [roomsDone EXCEPT !.rooms = r, !.overlap = SavesMeet(k)]
     \/ Returns(k) /\ UNCHANGED <<roomList, roomsDone>>
  /\ UNCHANGED <<roomFile, roomEntity, home, archives>>

(* write_yaml takes the list of the moment it is called at; it truncates the file  *)
(* ...                                                                              *)
ConfigTruncated(k) ==
  /\ \/ roomCalls[k].pc = "save" /\ Goes(k, "write")
     \/ roomCalls[k].pc = "saveclosed" /\ Goes(k, "writeclosed")
  /\ roomFile' = [rooms |-> Empty, torn |-> TRUE]
  /\ UNCHANGED <<roomList, roomEntity, home, archives, roomsDone>>

(* ... and writes it; then the channel map is rebuilt from the list as it is ...    *)
ConfigSaved(k) ==
  /\ \/ roomCalls[k].pc = "write" /\ Goes(k, "assign")
     \/ roomCalls[k].pc = "writeclosed" /\ Returns(k)
  /\ roomFile' = [rooms |-> roomCalls[k].copy, torn |-> FALSE]
  /\ roomEntity' = [roomEntity EXCEPT !.map = {r \in Rooms : roomList[r] # ""}]
  /\ UNCHANGED <<roomList, home, archives, roomsDone>>

(* ... or throws, which ends the command: the list stays changed, the map is as it *)
(* was and the file is old or torn.                                                *)
ConfigFails(k) ==
  /\ Saves(k) /\ Returns(k)
  /\ UNCHANGED <<roomList, roomFile, roomEntity, home, archives, roomsDone>>

NewSession == roomsDone.sessions + 1

Unlinks(k) == IF roomCalls[k].cmd = "resume" THEN Goes(k, "unlink") ELSE Returns(k)

(* assign: the channel's bot if it has one; else the session the archive names, or *)
(* one the pool keeps for the channel, or a new one; null when no bot is free, the  *)
(* channel is being assigned, or the pool drains.                                   *)
Here(r, s) == home' = [home EXCEPT ![r] = [sess |-> s, at |-> "bot"]]
Loses(S) == roomsDone' = [roomsDone EXCEPT !.lost = @ \cup (S \ {0})]
StartsAnew(r) ==
  /\ NewSession <= MaxSessions /\ Here(r, NewSession)
  /\ roomsDone' = [roomsDone EXCEPT !.sessions = NewSession]

RoomAssigned(k) ==
  LET r == roomCalls[k].room s == roomCalls[k].arch.sess IN
  /\ roomCalls[k].pc = "assign"
  /\ \/ UNCHANGED home /\ Loses({s})
     \/ /\ home[r].at # "bot"
        /\ \/ s # 0 /\ Here(r, s) /\ Loses({home[r].sess})
           \/ s = 0 /\ home[r].sess # 0 /\ Here(r, home[r].sess) /\ UNCHANGED roomsDone
           \/ s = 0 /\ home[r].sess = 0 /\ StartsAnew(r)
  /\ Unlinks(k)
  /\ UNCHANGED <<roomList, roomFile, roomEntity, archives>>

(* delete_room_archive, whether or not a bot was assigned; it may fail.            *)
ArchiveConsumed(k) ==
  /\ roomCalls[k].pc = "unlink"
  /\ archives' \in {archives, archives \ {roomCalls[k].arch}}
  /\ Returns(k)
  /\ UNCHANGED <<roomList, roomFile, roomEntity, home, roomsDone>>

-----------------------------------------------------------------------------
(* /close *)

(* No message and no command reaches a room that the channel map does not have.    *)
Mapped(r) == roomList[r] # "" /\ r \in roomEntity.map

(* The archive names the session of the bot assigned now, or none.                 *)
CloseBegins(k, r) ==
  /\ roomCalls[k].pc = "idle" /\ Mapped(r) /\ roomsDone.closings < MaxClosings
  /\ Begins(k, [Idle EXCEPT !.pc = "archive", !.cmd = "close", !.name = roomList[r], !.room = r,
                  !.arch = [name |-> roomList[r], closed |-> roomsDone.closings + 1,
                            sess |-> IF home[r].at = "bot" THEN home[r].sess ELSE 0]])
  /\ UNCHANGED <<roomList, roomFile, roomEntity, home, archives>>

(* write_room_archive; an error ends the command.                                  *)
ArchiveWritten(k) ==
  /\ roomCalls[k].pc = "archive"
  /\ \/ archives' = archives \cup {roomCalls[k].arch} /\ Goes(k, "release")
     \/ UNCHANGED archives /\ Returns(k)
  /\ UNCHANGED <<roomList, roomFile, roomEntity, home, roomsDone>>

(* release, of an assigned bot only; a session the pool merely keeps is out of     *)
(* reach once the channel is gone, and the archive has no name for it.             *)
RoomReleased(k) ==
  LET r == roomCalls[k].room IN
  /\ roomCalls[k].pc = "release"
  /\ Loses({home[r].sess} \ {roomCalls[k].arch.sess})
  /\ home' = [home EXCEPT ![r] = NoHome]
  /\ Goes(k, "delete")
  /\ UNCHANGED <<roomList, roomFile, roomEntity, archives>>

(* The Discord channel goes; the entry leaves the list.                            *)
ChannelDeleted(k) ==
  LET r == roomCalls[k].room IN
  /\ roomCalls[k].pc = "delete"
  /\ roomList' = [roomList EXCEPT ![r] = ""]
  /\ roomCalls' = [roomCalls EXCEPT ![k].pc = "saveclosed", ![k].copy = roomList']
  /\ roomsDone' = [roomsDone EXCEPT !.lost = @ \cup ({home[r].sess} \ {0}), !.overlap = SavesMeet(k)]
  /\ home' = [home EXCEPT ![r] = NoHome]
  /\ UNCHANGED <<roomFile, roomEntity, archives>>

-----------------------------------------------------------------------------
(* Around the commands. *)

(* The pool evicts the room's bot, or its session ends and is kept in the history. *)
Evicted(r) ==
  /\ home[r].at = "bot" /\ home' = [home EXCEPT ![r].at = "kept"]
  /\ UNCHANGED <<roomList, roomFile, roomEntity, archives, roomCalls, roomsDone>>

(* A message to a room without a bot: its session comes back, or a new one starts. *)
Message(r) ==
  /\ Mapped(r) /\ home[r].at # "bot"
  /\ \/ home[r].at = "kept" /\ home' = [home EXCEPT ![r].at = "bot"] /\ UNCHANGED roomsDone
     \/ home[r].at = "none" /\ StartsAnew(r)
  /\ UNCHANGED <<roomList, roomFile, roomEntity, archives, roomCalls>>

(* The daemon dies: the registry is read back from the disk, the pool parks. An    *)
(* entity whose file is torn is skipped, and with it the sessions of its rooms.    *)
DaemonRestarts ==
  /\ roomCalls' = [k \in Calls |-> Idle]
  /\ roomList' = roomFile.rooms
  /\ roomEntity' = [known |-> ~roomFile.torn, map |-> {r \in Rooms : roomFile.rooms[r] # ""}]
  /\ IF roomFile.torn
     THEN home' = [r \in Rooms |-> NoHome] /\ Loses({home[r].sess : r \in Rooms})
     ELSE /\ home' = [r \in Rooms |-> IF home[r].at = "bot" THEN [home[r] EXCEPT !.at = "kept"] ELSE home[r]]
          /\ UNCHANGED roomsDone
  /\ UNCHANGED <<roomFile, archives>>

Next ==
  \/ \E k \in Calls :
       \/ \E n \in Names : RoomBegins(k, n) \/ ResumeBegins(k, n)
       \/ ChannelCreated(k) \/ ConfigTruncated(k) \/ ConfigSaved(k) \/ ConfigFails(k)
       \/ RoomAssigned(k) \/ ArchiveConsumed(k)
       \/ \E r \in Rooms : CloseBegins(k, r)
       \/ ArchiveWritten(k) \/ RoomReleased(k) \/ ChannelDeleted(k)
  \/ \E r \in Rooms : Evicted(r) \/ Message(r)
  \/ DaemonRestarts

Spec == Init /\ [][Next]_roomVars

-----------------------------------------------------------------------------
(* Properties *)

Reachable(s) ==
  \/ \E a \in archives : a.sess = s
  \/ \E r \in Rooms : home[r].sess = s /\ roomList[r] # ""

(* Commands for one name that do not overlap, while no two saves of the config do,  *)
(* lose no session through failures, failing saves and restarts at their awaits,    *)
(* but for one closed while no bot held it, one whose resume found no bot, and the  *)
(* ones at home when the daemon restarts on a file that a save left torn; and no    *)
(* session is in two rooms.                                                         *)
SessionsKeptOnce ==
  roomsDone.overlap \/
  /\ \A s \in 1 .. roomsDone.sessions : s \in roomsDone.lost \/ Reachable(s)
  /\ \A q, r \in Rooms : home[q].sess # 0 /\ home[q].sess = home[r].sess => q = r
=============================================================================
