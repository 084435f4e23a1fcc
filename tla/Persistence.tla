---------------------------- MODULE Persistence ----------------------------
(***************************************************************************)
(* One JSON document of the server on disk, with its backup: server.json or *)
(* the file of a game (save_json_on_disk, load_json_from_disk and their     *)
(* callers in diplomacy/server/server.py).  The document is abstracted to   *)
(* the number of changes made to it.                                        *)
(*                                                                          *)
(* A save takes several steps, between which the process may crash, or      *)
(* receive SIGINT, whose handler saves everything itself and then ends the  *)
(* process.  No request is handled during a save.                           *)
(***************************************************************************)
EXTENDS Integers, Sequences

CONSTANTS
    RebuiltIfMissing,  \* server.json: if it is missing, new data is created
    MaxVersion,        \* bound of this model: number of changes
    MaxSaves           \* bound of this model: saves interrupted by one another

ASSUME PersistenceAssumption ==
    RebuiltIfMissing \in BOOLEAN /\ MaxVersion \in Nat /\ MaxSaves \in Nat \ {0}

Absent == -1    \* no such file, or nothing in memory
Torn == -2      \* a file that cannot be parsed: empty, or partly written

VARIABLES
    file, backup,   \* the contents of the file and of its backup
    memory,         \* the document in the server, or Absent
    pending,        \* the copy that waits for the next backup (backup_server,
                    \* backup_games), or Absent
    saves,          \* the calls of save_json_on_disk, each interrupts the former
    run,            \* the process: "up", "starting", "stopped" by SIGINT, "down"
    durable,        \* history: the last version whose save was completed
    overlapped      \* history: was there a crash during interrupted saves?

disk == <<file, backup>>
diskVars == <<disk, memory, pending, saves, run, durable, overlapped>>

Readable(contents) == contents >= 0

\* A call that will save version v: the next thing it does, and where the file it
\* has open is now.
Call(v, handler) ==
    [next |-> "rename", version |-> v, open |-> "none", handler |-> handler]

Current == saves[Len(saves)]

Continue(call) == saves' = [saves EXCEPT ![Len(saves)] = call]

----------------------------------------------------------------------------
(* The server at work.                                                      *)

\* A request changes the document; most handlers also call save_data or save_game.
Change ==
    /\ run = "up" /\ saves = << >> /\ memory # Absent
    /\ memory < MaxVersion
    /\ memory' = memory + 1
    /\ pending' \in {pending, memory'}
    /\ UNCHANGED <<disk, saves, run, durable, overlapped>>

\* backup_now, every backup_delay_seconds.
BackupNow ==
    /\ run = "up" /\ saves = << >> /\ pending # Absent
    /\ saves' = <<Call(pending, FALSE)>>
    /\ UNCHANGED <<disk, memory, pending, run, durable, overlapped>>

\* Mutant: the handler saves only what waits for the next backup.
HandlerUnforced ==
    /\ run = "up" /\ Len(saves) < MaxSaves /\ pending # Absent
    /\ saves' = Append(saves, Call(pending, TRUE))
    /\ UNCHANGED <<disk, memory, pending, run, durable, overlapped>>

\* InterruptionHandler.handler: SIGINT comes between any two steps, also of an
\* earlier call of the handler.
Handler ==
    /\ run = "up" /\ Len(saves) < MaxSaves /\ memory # Absent
    /\ pending' = memory
    /\ saves' = Append(saves, Call(memory, TRUE))
    /\ UNCHANGED <<disk, memory, run, durable, overlapped>>

----------------------------------------------------------------------------
(* save_json_on_disk, one action per operation on the disk.                 *)

\* Where a file is after the file was renamed over the backup.
Renamed(place) ==
    CASE place = "file" -> "backup" [] place = "backup" -> "none" [] OTHER -> place

\* Mutant: the previous version is not kept.
RenameDiscards ==
    /\ saves # << >> /\ Current.next = "rename"
    /\ file' = Absent
    /\ Continue([Current EXCEPT !.next = "open"])
    /\ UNCHANGED <<backup, memory, pending, run, durable, overlapped>>

\* os.rename of the file, if it exists.
Rename ==
    /\ saves # << >> /\ Current.next = "rename"
    /\ IF file = Absent
       THEN UNCHANGED disk /\ Continue([Current EXCEPT !.next = "open"])
       ELSE /\ backup' = file /\ file' = Absent
            /\ saves' = [i \in DOMAIN saves |->
                  IF i = Len(saves)
                  THEN [Current EXCEPT !.next = "open"]
                  ELSE [saves[i] EXCEPT !.open = Renamed(@)]]
    /\ UNCHANGED <<memory, pending, run, durable, overlapped>>

\* open(filename, "w")
OpenFile ==
    /\ saves # << >> /\ Current.next = "open"
    /\ file' = Torn
    /\ Continue([Current EXCEPT !.next = "close", !.open = "file"])
    /\ UNCHANGED <<backup, memory, pending, run, durable, overlapped>>

\* The document is written, the file closed and the pending copy dropped.
CloseFile ==
    /\ saves # << >> /\ Current.next = "close"
    /\ file' = Current.version
    /\ durable' = Current.version
    /\ pending' = Absent
    /\ saves' = << >>
    /\ UNCHANGED <<memory, overlapped>>
    /\ IF Current.handler
       THEN \* KeyboardInterrupt ends the saves that were interrupted: their files
            \* are closed, perhaps after the document was written.
            /\ run' = "stopped"
            /\ backup' \in {backup} \cup
                 {saves[i].version : i \in {j \in DOMAIN saves : saves[j].open = "backup"}}
       ELSE run' = "up" /\ UNCHANGED backup

----------------------------------------------------------------------------
(* The end of the process, and the next one.                                *)

\* The process is killed, or receives SIGINT before its handler is installed.
Crash ==
    /\ run \in {"up", "starting"}
    /\ run' = "down"
    /\ memory' = Absent /\ pending' = Absent /\ saves' = << >>
    /\ overlapped' = (overlapped \/ Len(saves) > 1)
    /\ UNCHANGED <<disk, durable>>

\* The document is version v after the file was found or restored.
Loaded(v) ==
    /\ memory' = v /\ run' = "up"
    /\ UNCHANGED saves

\* _load without server.json: new data, saved at once.  A game whose file is
\* missing is unknown.
LoadMissing ==
    /\ run \in {"stopped", "down"} /\ file = Absent
    /\ UNCHANGED <<disk, pending, durable, overlapped>>
    /\ IF RebuiltIfMissing
       THEN memory' = 0 /\ run' = "starting" /\ saves' = <<Call(0, FALSE)>>
       ELSE Loaded(Absent)

LoadFile ==
    /\ run \in {"stopped", "down"} /\ Readable(file)
    /\ Loaded(file)
    /\ UNCHANGED <<disk, pending, durable, overlapped>>

\* load_json_from_disk, if the file cannot be parsed and its backup can.
LoadBackup ==
    /\ run \in {"stopped", "down"} /\ file = Torn /\ Readable(backup)
    /\ Loaded(backup)
    /\ file' = backup /\ backup' = Absent
    /\ UNCHANGED <<pending, durable, overlapped>>

\* Neither can be parsed: the server does not start; load_game removes the file of
\* a game.
LoadNothing ==
    /\ run \in {"stopped", "down"} /\ file = Torn /\ ~Readable(backup)
    /\ ~RebuiltIfMissing
    /\ file' = Absent
    /\ Loaded(Absent)
    /\ UNCHANGED <<backup, pending, durable, overlapped>>

----------------------------------------------------------------------------

\* A server without data, or a game that was just created.
DiskInit ==
    /\ file = Absent /\ backup = Absent
    /\ memory = 0 /\ durable = Absent /\ overlapped = FALSE
    /\ IF RebuiltIfMissing
       THEN run = "starting" /\ pending = Absent /\ saves = <<Call(0, FALSE)>>
       ELSE run = "up" /\ pending = 0 /\ saves = << >>

Serve == Change \/ BackupNow \/ Handler
Save == Rename \/ OpenFile \/ CloseFile
Load == LoadMissing \/ LoadFile \/ LoadBackup \/ LoadNothing

DiskNext == Serve \/ Save \/ Crash \/ Load

DiskSpec == DiskInit /\ [][DiskNext]_diskVars

----------------------------------------------------------------------------
(* Properties.                                                              *)

\* The purpose of the handler of SIGINT: wherever the signal finds the server, in
\* the middle of a save or of the handler itself, and whatever was not yet to be
\* backed up, the file holds the last version when the process has ended.
GracefulStop == run = "stopped" => file = memory

\* A restart goes on from the last version saved, or a later one, if it finds the
\* file; but not if the process was killed while its handler of SIGINT interrupted
\* another save.
RestartsFromLastSave ==
    [][(run \in {"stopped", "down"}) /\ run' = "up" /\ file # Absent /\ ~overlapped
       => memory' >= durable]_diskVars

=============================================================================
