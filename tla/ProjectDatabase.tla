-------------------------- MODULE ProjectDatabase ---------------------------
(***************************************************************************)
(* How a run gets hold of its World.  sqlite.py keeps one database file    *)
(* per project: a process that finds none builds a complete one under a    *)
(* name of its own and links it to the path, which fails if another was    *)
(* faster; then it opens whatever is there.  bootstrap.py inserts the      *)
(* World in one transaction, after world_cli.py did not find it.           *)
(* Any number of processes do this at once, and each may stop anywhere.    *)
(*                                                                         *)
(* A file is known by who built it.  Files of an older release are opened  *)
(* by nobody: migrations run on private files only.                        *)
(***************************************************************************)
EXTENDS Processes, Naturals

CONSTANT HeadRevision   \* the number of migrations of this release

ASSUME HeadAssumption == HeadRevision \in Nat \ {0}
ASSUME FoundAssumption == None # "found"

VARIABLES
  file,     \* the file at the path, or None
  temp,     \* each process's private file, or None
  opened,   \* the builder of the file that each process has opened, or None
  version,  \* worlds.current_version in that file, 0 without a World
  loaded    \* the World version that each process loaded or created, or 0

databaseVars == <<file, temp, opened, version, loaded, pc>>

\* The files that may be there before: none, one of this release without the
\* World, or one of an older release.
Found(revision) == [by |-> "found", revision |-> revision, identified |-> TRUE]

DatabaseInit ==
  /\ file \in {None, Found(HeadRevision), Found(HeadRevision - 1)}
  /\ temp = [r \in Run |-> None]
  /\ opened = [r \in Run |-> None]
  /\ version = 0
  /\ loaded = [r \in Run |-> 0]
  /\ pc = [r \in Run |-> "new"]

\* require_current_schema and _require_project_identity.
Valid(f) == f.revision = HeadRevision /\ f.identified

-----------------------------------------------------------------------------
(* _load_or_create_world.                                                  *)

\* load_world_for_resume finds the World.
LoadWorld(r) ==
  /\ pc[r] = "new"
  /\ file # None /\ Valid(file) /\ version > 0
  /\ opened' = [opened EXCEPT ![r] = file.by]
  /\ loaded' = [loaded EXCEPT ![r] = version]
  /\ Goto(r, "loaded")
  /\ UNCHANGED <<file, temp, version>>

\* WorldNotFoundError: no file, or no World in it.
MissWorld(r) ==
  /\ pc[r] = "new"
  /\ file # None => Valid(file) /\ version = 0
  /\ Goto(r, "creating")
  /\ UNCHANGED <<file, temp, opened, version, loaded>>

\* SchemaRevisionError and its like, at either open.
RefuseFile(r) ==
  /\ pc[r] \in {"new", "creating", "linked"}
  /\ file # None /\ ~Valid(file)
  /\ Goto(r, "stopped")
  /\ UNCHANGED <<file, temp, opened, version, loaded>>

\* open_project_database of create_world, when the path exists.
OpenFile(r) ==
  /\ pc[r] \in {"creating", "linked"}
  /\ temp[r] = None
  /\ file # None /\ Valid(file)
  /\ opened' = [opened EXCEPT ![r] = file.by]
  /\ Goto(r, "opened")
  /\ UNCHANGED <<file, temp, version, loaded>>

\* One transaction for the World, its characters and their memories.
InsertWorld(r) ==
  /\ pc[r] = "opened"
  /\ version = 0
  /\ version' = 1
  /\ loaded' = [loaded EXCEPT ![r] = 1]
  /\ Goto(r, "loaded")
  /\ UNCHANGED <<file, temp, opened>>

\* WorldAlreadyExistsError: another process was faster.
WorldExists(r) ==
  /\ pc[r] = "opened"
  /\ version > 0
  /\ Goto(r, "stopped")
  /\ UNCHANGED <<file, temp, opened, version, loaded>>

-----------------------------------------------------------------------------
(* _publish_new_database.                                                  *)

MakeTemp(r) ==
  /\ pc[r] = "creating"
  /\ file = None
  /\ temp' = [temp EXCEPT ![r] = [by |-> r, revision |-> 0, identified |-> FALSE]]
  /\ Goto(r, "building")
  /\ UNCHANGED <<file, opened, version, loaded>>

\* upgrade_to_head: every migration, in one transaction.
Migrate(r) ==
  /\ pc[r] = "building"
  /\ temp[r].revision = 0
  /\ temp' = [temp EXCEPT ![r].revision = HeadRevision]
  /\ UNCHANGED <<file, opened, version, loaded, pc>>

\* _create_project_identity.
Identify(r) ==
  /\ pc[r] = "building"
  /\ temp[r].revision = HeadRevision /\ ~temp[r].identified
  /\ temp' = [temp EXCEPT ![r].identified = TRUE]
  /\ UNCHANGED <<file, opened, version, loaded, pc>>

\* Faulty: the complete file is moved over the path.
Replace(r) ==
  /\ pc[r] = "building"
  /\ Valid(temp[r])
  /\ file' = temp[r]
  /\ version' = 0
  /\ Goto(r, "linked")
  /\ UNCHANGED <<temp, opened, loaded>>

\* os.link: a faster process keeps its file.
Link(r) ==
  /\ pc[r] = "building"
  /\ Valid(temp[r])
  /\ file' = IF file = None THEN temp[r] ELSE file
  /\ Goto(r, "linked")
  /\ UNCHANGED <<temp, opened, version, loaded>>

RemoveTemp(r) ==
  /\ pc[r] = "linked"
  /\ temp[r] # None
  /\ temp' = [temp EXCEPT ![r] = None]
  /\ UNCHANGED <<file, opened, version, loaded, pc>>

\* What a process leaves when it stops, by an error or a crash: nothing that
\* another process reads, even if its private file remains.
Forget(r) ==
  /\ temp' = [temp EXCEPT ![r] = None]
  /\ opened' = [opened EXCEPT ![r] = None]
  /\ loaded' = [loaded EXCEPT ![r] = 0]

OpenWorld(r) ==
  \/ LoadWorld(r) \/ MissWorld(r) \/ RefuseFile(r) \/ OpenFile(r)
  \/ InsertWorld(r) \/ WorldExists(r)
  \/ MakeTemp(r) \/ Migrate(r) \/ Identify(r) \/ Link(r) \/ RemoveTemp(r)

-----------------------------------------------------------------------------

\* The file at the path is complete from the moment it is there and is never
\* exchanged: everyone who opened a database, at whatever moment, works on
\* the one at the path, and a World that someone loaded or created is in it
\* and was not begun again.
DatabaseIsWhole ==
  /\ file # None => Valid(file) \/ file = Found(HeadRevision - 1)
  /\ \A r \in Run :
       /\ opened[r] # None => file # None /\ Valid(file) /\ opened[r] = file.by
       /\ loaded[r] # 0 => opened[r] # None /\ loaded[r] <= version
=============================================================================
