------------------------------ MODULE Settings ------------------------------
(***************************************************************************)
(* The settings folder (crates/acter-app/src/adapters/settings_file.rs):   *)
(* the document in memory, the file it is kept in, and the write lock that *)
(* is held from the change of the document to the end of its write.  The   *)
(* process may stop between any two steps of a write, and a person may     *)
(* leave a file behind that does not parse.                                *)
(***************************************************************************)
EXTENDS Naturals, FiniteSets

CONSTANTS
  Names,       \* what a connection may be called
  Sound,       \* Sound[n]: the name trimmed and lowercased
  Profiles,    \* what a connection is a connection to
  LineOwners,  \* who may hold the line
  Hosts        \* the server keys a person may accept

VARIABLES
  file,        \* settings.json
  document,    \* the document in memory
  change,      \* the write that holds the lock
  running      \* the process is up

settingsVars == <<file, document, change, running>>

Connections == [name : Names, target : Profiles, line_owner : LineOwners]
Documents == [connections : SUBSET Connections, host_keys : SUBSET Hosts]
DefaultDocument == [connections |-> {}, host_keys |-> {}]

\* The file may also be missing, or hold text that does not parse.
Absent == [text |-> "none"]
Broken == [text |-> "does not parse"]
Files == Documents \cup {Absent, Broken}

\* Names that differ only in case, or in the blanks around them, sound the same.
same_name(one, another) == Sound[one] = Sound[another]
Called(doc, name) == {c \in doc.connections : same_name(c.name, name)}
remembered(name) == Called(document, name) # {}

-----------------------------------------------------------------------------
(* What each operation does to the document.                               *)

SavedBySpelling(doc, connection) ==
  [doc EXCEPT !.connections = {c \in @ : c.name # connection.name} \cup {connection}]
Saved(doc, connection) ==
  [doc EXCEPT !.connections = (@ \ Called(doc, connection.name)) \cup {connection}]
Renamed(doc, from, to) ==
  [doc EXCEPT !.connections =
     (@ \ Called(doc, from)) \cup {[c EXCEPT !.name = to] : c \in Called(doc, from)}]
Forgotten(doc, name) == [doc EXCEPT !.connections = @ \ Called(doc, name)]
Accepted(doc, host) == [doc EXCEPT !.host_keys = @ \cup {host}]

(***************************************************************************)
(* A change takes the lock, changes the document in memory, copies the     *)
(* file aside, writes a temporary file and moves it into place.  Whichever *)
(* step fails, the document is put back as it was before.                  *)
(***************************************************************************)
Stages == {"aside", "written"}
Writers == {"main", "dialog", "new", "launch"}
NoChange == [by |-> "nobody"]
Changes == [by : Writers, before : Documents, stage : Stages]
Unlocked == change = NoChange

Change(who, new) ==
  /\ Unlocked
  /\ change' = [by |-> who, before |-> document, stage |-> "aside"]
  /\ document' = new
  /\ UNCHANGED <<file, running>>

\* What the copy leaves of the file it copies; a move would leave nothing.
AfterMove(target) == Absent
AfterCopy(target) == target
CopyAside ==
  /\ ~Unlocked /\ change.stage = "aside"
  /\ file' = AfterCopy(file)
  /\ change' = [change EXCEPT !.stage = "written"]
  /\ UNCHANGED <<document, running>>

Persist ==
  /\ ~Unlocked /\ change.stage = "written"
  /\ file' = document
  /\ change' = NoChange
  /\ UNCHANGED <<document, running>>

PutBack == change.before
CouldNot ==
  /\ ~Unlocked
  /\ document' = PutBack
  /\ change' = NoChange
  /\ UNCHANGED <<file, running>>

\* What a start makes of the file: one that does not parse counts as none, and
\* is moved out of the way if it can be.
ReadBack(f) == IF f \in {Absent, Broken} THEN DefaultDocument ELSE f
Open ==
  /\ ~running
  /\ running' = TRUE
  /\ document' = ReadBack(file)
  /\ change' = NoChange
  /\ \/ UNCHANGED file
     \/ file = Broken /\ file' = Absent

\* The process stops, by itself or not; nothing in memory is left.
Stop ==
  /\ running
  /\ running' = FALSE
  /\ document' = DefaultDocument
  /\ change' = NoChange
  /\ UNCHANGED file

\* While Acter is not running, the file may be edited into something else.
EditedByHand ==
  /\ ~running
  /\ file' = Broken
  /\ UNCHANGED <<document, change, running>>

SettingsInit ==
  /\ file \in {Absent, Broken}
  /\ document = DefaultDocument
  /\ change = NoChange
  /\ running = FALSE
=============================================================================
