---------------------------- MODULE ConnectProofs ----------------------------
(***************************************************************************)
(* What holds of the connect service and its settings for any connections, *)
(* profiles, keys and places, and for any number of attempts.              *)
(***************************************************************************)
EXTENDS Connect, TLAPS

(***************************************************************************)
(* Records that share no field are different.                              *)
(***************************************************************************)
\* A document is never taken for a file that is missing or does not parse.
LEMMA NotOnlyText == \A doc \in Documents : doc # Absent /\ doc # Broken
<1>1. ASSUME NEW doc \in Documents PROVE "host_keys" \in DOMAIN doc
  BY DEF Documents
<1>2. "host_keys" \notin DOMAIN Absent
  BY DEF Absent
<1>3. "host_keys" \notin DOMAIN Broken
  BY DEF Broken
<1> QED BY <1>1, <1>2, <1>3

\* A lock that is held is told from one that is not.
LEMMA AChangeIsSome == \A c \in Changes : c # NoChange
<1>1. ASSUME NEW c \in Changes PROVE "stage" \in DOMAIN c
  BY DEF Changes
<1>2. "stage" \notin DOMAIN NoChange
  BY DEF NoChange
<1> QED BY <1>1, <1>2

\* An attempt that has begun moves on to another stage, and the others stay.
LEMMA AttemptMoves ==
  ASSUME attempts \in [Places -> Attempts \cup {NoAttempt, Due}], NEW p \in Places, Busy(p),
         NEW stage \in AttemptStages, Moved(p, stage)
  PROVE  /\ attempts' \in [Places -> Attempts \cup {NoAttempt, Due}]
         /\ attempts[p] \in Attempts /\ attempts'[p] \in Attempts
         /\ attempts'[p].stage = stage /\ attempts'[p].origin = attempts[p].origin
         /\ attempts'[p].heard = attempts[p].heard
         /\ \A q \in Places \ {p} : attempts'[q] = attempts[q]
<1>1. attempts[p] \in Attempts
  BY DEF Busy, NoAttempt, Due
<1>2. attempts'[p] = [attempts[p] EXCEPT !.stage = stage]
  BY DEF Moved
<1>3. attempts'[p] \in Attempts /\ attempts'[p].stage = stage
      /\ attempts'[p].origin = attempts[p].origin /\ attempts'[p].heard = attempts[p].heard
  BY <1>1, <1>2 DEF Attempts
<1>4. \A q \in Places \ {p} : attempts'[q] = attempts[q]
  BY DEF Moved
<1>5. attempts' = [q \in Places |-> IF q = p THEN attempts'[p] ELSE attempts[q]]
  BY <1>2 DEF Moved
<1> QED BY <1>1, <1>3, <1>4, <1>5

-----------------------------------------------------------------------------
(***************************************************************************)
(* Types, and who holds the lock: the command of the main thread that      *)
(* stores, or the attempt that writes a key down.                          *)
(***************************************************************************)
TheLock ==
  /\ main.stage = "store" <=> ~Unlocked /\ change.by = "main"
  /\ ~Unlocked /\ change.by # "main" =>
       change.by \in Places /\ attempts[change.by].stage = "writing"
Held == TypeOK /\ TheLock

LEMMA HeldAtFirst == Init => Held
<1> SUFFICES ASSUME Init PROVE Held
  OBVIOUS
<1> USE DEF Init, SettingsInit
<1>1. TypeOK
  BY DEF TypeOK, Files, Documents, DefaultDocument, Idle
<1>2. TheLock
  BY DEF TheLock, Idle, Unlocked
<1> QED BY <1>1, <1>2 DEF Held

\* An attempt moves on and nothing else does.
LEMMA HeldByMoves ==
  ASSUME Held, NEW p \in Places, Busy(p), attempts[p].stage # "writing",
         NEW stage \in AttemptStages, Moved(p, stage),
         UNCHANGED <<settingsVars, main, live, next, next_attempt>>
  PROVE  Held'
<1> USE DEF Held
<1>1. TypeOK'
  BY AttemptMoves DEF TypeOK, settingsVars
<1>2. TheLock'
  BY AttemptMoves DEF TheLock, TypeOK, settingsVars, Unlocked
<1> QED BY <1>1, <1>2

LEMMA HeldByStutter ==
  ASSUME Held, UNCHANGED <<settingsVars, main, live, next, next_attempt, attempts>>
  PROVE  Held'
BY DEF Held, TypeOK, TheLock, settingsVars, Unlocked

\* What the operations make of a document is a document.
LEMMA StillADocument ==
  ASSUME NEW doc \in Documents
  PROVE  /\ \A c \in Connections : Saved(doc, c) \in Documents
         /\ \A from, to \in Names : Renamed(doc, from, to) \in Documents
         /\ \A name \in Names : Forgotten(doc, name) \in Documents
         /\ \A key \in Hosts : Accepted(doc, key) \in Documents
<1>1. \A name : Called(doc, name) \subseteq doc.connections
  BY DEF Called
<1>2. doc.connections \in SUBSET Connections /\ doc.host_keys \in SUBSET Hosts
  BY DEF Documents
<1>3. \A c \in Connections, to \in Names : [c EXCEPT !.name = to] \in Connections
  BY DEF Connections
<1>4. \A new \in SUBSET Connections : [doc EXCEPT !.connections = new] \in Documents
  BY DEF Documents
<1>5. \A new \in SUBSET Hosts : [doc EXCEPT !.host_keys = new] \in Documents
  BY DEF Documents
<1>6. ASSUME NEW c \in Connections PROVE Saved(doc, c) \in Documents
  BY <1>1, <1>2, <1>4 DEF Saved
<1>7. ASSUME NEW from \in Names, NEW to \in Names PROVE Renamed(doc, from, to) \in Documents
  <2>1. {[c EXCEPT !.name = to] : c \in Called(doc, from)} \subseteq Connections
    BY <1>1, <1>2, <1>3
  <2> QED BY <2>1, <1>2, <1>4 DEF Renamed
<1>8. ASSUME NEW name \in Names PROVE Forgotten(doc, name) \in Documents
  BY <1>1, <1>2, <1>4 DEF Forgotten
<1>9. ASSUME NEW key \in Hosts PROVE Accepted(doc, key) \in Documents
  BY <1>2, <1>5 DEF Accepted
<1> QED BY <1>6, <1>7, <1>8, <1>9

\* A change takes a lock that is free, and keeps what was there before.
LEMMA ChangeTakesTheLock ==
  ASSUME document \in Documents, NEW who \in Writers, NEW new \in Documents,
         Change(who, new)
  PROVE  /\ document' \in Documents /\ change' \in Changes /\ ~Unlocked'
         /\ change'.by = who /\ change'.before = document
BY AChangeIsSome DEF Change, Changes, Stages, Unlocked

\* An attempt that steps on its own.
LEMMA HeldBySteps == ASSUME Held, NEW p \in Places, Steps(p) PROVE Held'
<1> USE DEF At, OnlyMoves
<1>1. CASE chosen(p)
  <2>1. attempts[p].stage = "chosen" /\ Busy(p)
    BY <1>1 DEF chosen, Busy
  <2>2. PICK stage \in {"failed", "open", "unverified"} : Moved(p, stage)
    BY <1>1 DEF chosen
  <2>3. stage \in AttemptStages
    BY DEF AttemptStages, Questions
  <2> QED BY <1>1, <2>1, <2>2, <2>3, HeldByMoves DEF chosen
<1>2. CASE open(p)
  <2>1. attempts[p].stage = "open" /\ Busy(p)
    BY <1>2 DEF open, Busy
  <2>2. PICK stage \in {"failed", "agree", "host_key", "auth"} : Moved(p, stage)
    BY <1>2 DEF open
  <2>3. stage \in AttemptStages
    BY DEF AttemptStages, Questions
  <2> QED BY <1>2, <2>1, <2>2, <2>3, HeldByMoves DEF open
<1>3. CASE authenticate(p)
  <2>1. attempts[p].stage = "auth" /\ Busy(p)
    BY <1>3 DEF authenticate, Busy
  <2>2. PICK stage \in {"failed", "agree", "password"} : Moved(p, stage)
    BY <1>3 DEF authenticate
  <2>3. stage \in AttemptStages
    BY DEF AttemptStages, Questions
  <2> QED BY <1>3, <2>1, <2>2, <2>3, HeldByMoves DEF authenticate
<1>4. CASE agreed(p)
  BY <1>4, HeldByMoves DEF agreed, Busy, AttemptStages, Questions
<1>5. CASE remember(p)
  <2>1. attempts[p].stage = "remember" /\ Busy(p) /\ p \in Writers /\ p # "main"
    BY <1>5, ConnectAssumption DEF remember, Busy, Writers
  <2>2. "writing" \in AttemptStages /\ Moved(p, "writing")
    BY <1>5 DEF remember, AttemptStages
  <2>3. attempts[p].key \in Hosts
    BY <2>1, <2>2, AttemptMoves DEF Held, TypeOK, Attempts
  <2>4. /\ document' \in Documents /\ change' \in Changes /\ ~Unlocked'
        /\ change'.by = p /\ UNCHANGED <<file, running, main, live, next, next_attempt>>
    BY <1>5, <2>1, <2>3, StillADocument, ChangeTakesTheLock
       DEF remember, Held, TypeOK, Change
  <2>5. TypeOK'
    BY <2>1, <2>2, <2>4, AttemptMoves DEF Held, TypeOK
  <2>6. TheLock'
    BY <1>5, <2>1, <2>2, <2>4, AttemptMoves DEF Held, TypeOK, TheLock, remember, Change
  <2> QED BY <2>5, <2>6 DEF Held
<1>6. CASE recall(p)
  <2>1. attempts[p].stage = "recall" /\ Busy(p) /\ attempts[p] \in Attempts
    BY <1>6 DEF recall, Busy, Held, TypeOK, NoAttempt, Due
  <2>2. PICK owner \in LineOwners :
          attempts' = [attempts EXCEPT ![p].stage = "mint", ![p].line_owner = owner]
    BY <1>6 DEF recall
  <2>3. attempts'[p] = [attempts[p] EXCEPT !.stage = "mint", !.line_owner = owner]
    BY <2>2 DEF Held, TypeOK
  <2>4. attempts'[p] \in Attempts
    BY <2>1, <2>3 DEF Attempts, AttemptStages
  <2>5. attempts' = [q \in Places |-> IF q = p THEN attempts'[p] ELSE attempts[q]]
    BY <2>2, <2>3 DEF Held, TypeOK
  <2> QED BY <1>6, <2>1, <2>4, <2>5 DEF recall, Held, TypeOK, TheLock, settingsVars, Unlocked
<1>7. CASE mint(p)
  <2>1. attempts[p].stage = "mint" /\ Busy(p) /\ attempts[p] \in Attempts
    BY <1>7 DEF mint, Busy, Held, TypeOK, NoAttempt, Due
  <2>2. attempts'[p] = [attempts[p] EXCEPT !.stage = "replace", !.session = next]
    BY <1>7 DEF mint, Held, TypeOK
  <2>3. attempts'[p] \in Attempts
    BY <2>1, <2>2 DEF Attempts, AttemptStages, Held, TypeOK
  <2>4. attempts' = [q \in Places |-> IF q = p THEN attempts'[p] ELSE attempts[q]]
    BY <1>7, <2>2 DEF mint, Held, TypeOK
  <2> QED BY <1>7, <2>1, <2>3, <2>4
          DEF mint, fetch_add, Held, TypeOK, TheLock, settingsVars, Unlocked
<1>8. CASE replace(p)
  <2>1. attempts[p].stage = "replace" /\ Busy(p) /\ "arrived" \in AttemptStages
    BY <1>8 DEF replace, Busy, AttemptStages
  <2>2. Live(attempts[p]) \in Sessions
    BY <1>8, <2>1, AttemptMoves DEF replace, Held, TypeOK, Live, Sessions, Attempts
  <2> QED BY <1>8, <2>1, <2>2, AttemptMoves
          DEF replace, Held, TypeOK, TheLock, settingsVars, Unlocked
<1> QED BY <1>1, <1>2, <1>3, <1>4, <1>5, <1>6, <1>7, <1>8 DEF Steps

\* An attempt begins, is answered, and ends.
LEMMA HeldByTheWindow ==
  ASSUME Held, NEW p \in Places, begin(p) \/ answer(p) \/ ended(p) \/ unheard(p)
  PROVE  Held'
<1>1. CASE begin(p)
  <2>1. PICK profile \in Profiles, origin \in origins(p), key \in Hosts :
          attempts' = [attempts EXCEPT ![p] = NewAttempt(next_attempt, profile, origin, key)]
    BY <1>1 DEF begin
  <2>2. origin \in Names \cup {NoName}
    BY DEF origins, Held, TypeOK, Documents, Connections
  <2>3. NewAttempt(next_attempt, profile, origin, key) \in Attempts
    BY <2>2, ConnectAssumption DEF NewAttempt, Attempts, AttemptStages, Held, TypeOK
  <2>4. attempts[p].stage # "writing"
    BY <1>1 DEF begin, Vacant, NoAttempt, Due, Parked, Waits, Questions
  <2> QED BY <1>1, <2>1, <2>3, <2>4
          DEF begin, Held, TypeOK, TheLock, settingsVars, Unlocked
<1>2. CASE answer(p)
  <2>1. CASE UNCHANGED attempts
    BY <1>2, <2>1, HeldByStutter DEF answer
  <2>2. ASSUME NEW stage \in AttemptStages, answered(p, stage) PROVE Held'
    <3>1. /\ attempts[p].stage \in Questions /\ Busy(p) /\ attempts[p] \in Attempts
          /\ attempts[p].stage # "writing"
      BY <1>2 DEF answer, Waits, Questions, Busy, Held, TypeOK, NoAttempt, Due
    <3> DEFINE tries == IF attempts[p].stage = "password" THEN attempts[p].tries + 1
                        ELSE attempts[p].tries
    <3>2. /\ tries \in Nat
          /\ attempts'[p] = [attempts[p] EXCEPT !.stage = stage, !.tries = tries]
      BY <2>2, <3>1 DEF answered, Held, TypeOK, Attempts
    <3>3. attempts'[p] \in Attempts
      BY <3>1, <3>2 DEF Attempts
    <3>4. attempts' = [q \in Places |-> IF q = p THEN attempts'[p] ELSE attempts[q]]
      BY <2>2 DEF answered, Held, TypeOK
    <3> QED BY <1>2, <3>1, <3>3, <3>4
            DEF answer, Held, TypeOK, TheLock, settingsVars, Unlocked
  <2>3. Agreed(attempts[p]) \in AttemptStages /\ GivenUp(attempts[p]) \in AttemptStages
    BY <1>2 DEF answer, Waits, Agreed, GivenUp, AttemptStages, Questions
  <2> QED BY <1>2, <2>1, <2>2, <2>3 DEF answer
<1>3. CASE ended(p)
  BY <1>3 DEF ended, Held, TypeOK, TheLock, settingsVars, Unlocked
<1>4. CASE unheard(p)
  BY <1>4 DEF unheard, Vacant, OnlyMoves, Held, TypeOK, TheLock, settingsVars, Unlocked
<1> QED BY <1>1, <1>2, <1>3, <1>4

\* The window is loaded again: attempts that go on stay where they are.
LEMMA ReloadKeeps ==
  ASSUME Held, reload
  PROVE  /\ attempts' \in [Places -> Attempts \cup {NoAttempt, Due}]
         /\ \A p \in Places : IF Busy(p) THEN /\ attempts'[p].stage = attempts[p].stage
                                              /\ attempts'[p].origin = attempts[p].origin
                                              /\ attempts'[p].heard = FALSE
                              ELSE attempts'[p].stage \in {"idle", "due"}
<1> DEFINE left(p) == [attempts[p] EXCEPT !.heard = FALSE]
<1>1. \A p \in Places : Busy(p) => attempts[p] \in Attempts
  BY DEF Held, TypeOK, Busy, NoAttempt, Due
<1>2. \A p \in Places : Busy(p) => /\ left(p) \in Attempts /\ left(p).stage = attempts[p].stage
                                  /\ left(p).origin = attempts[p].origin /\ left(p).heard = FALSE
  BY <1>1 DEF Attempts
<1>3. attempts' = [p \in Places |-> IF Busy(p) THEN left(p) ELSE Vacant(p)]
  BY DEF reload
<1> HIDE DEF left
<1>4. \A p \in Places : ~Busy(p) => attempts'[p] = Vacant(p)
  BY <1>3
<1>5. \A p \in Places : ~Busy(p) => attempts'[p].stage \in {"idle", "due"}
  BY <1>4 DEF Vacant, NoAttempt, Due
<1>6. \A p \in Places : Busy(p) => attempts'[p] = left(p)
  BY <1>3
<1>7. attempts' \in [Places -> Attempts \cup {NoAttempt, Due}]
  BY <1>2, <1>3 DEF Vacant
<1> QED BY <1>2, <1>5, <1>6, <1>7

LEMMA HeldByReload == ASSUME Held, reload PROVE Held'
<1>1. UNCHANGED <<file, document, change, running, main, live, next, next_attempt>>
  BY DEF reload, settingsVars
<1>2. \A p \in Places : attempts[p].stage = "writing" => attempts'[p].stage = "writing"
  <2> SUFFICES ASSUME NEW p \in Places, attempts[p].stage = "writing"
               PROVE  attempts'[p].stage = "writing"
    OBVIOUS
  <2>1. Busy(p)
    BY DEF Busy
  <2> QED BY <2>1, ReloadKeeps
<1>3. TypeOK'
  BY <1>1, ReloadKeeps DEF Held, TypeOK
<1>4. TheLock'
  BY <1>1, <1>2 DEF Held, TheLock, Unlocked
<1> QED BY <1>3, <1>4 DEF Held

\* The commands that store, and the main thread between them.
LEMMA HeldByStores ==
  ASSUME Held, running, main = Idle \/ main.stage = "read", NEW command \in Mains, command.stage = "store",
         NEW new \in Documents, Stores(command, new)
  PROVE  Held'
<1>1. "main" \in Writers /\ main.stage # "store"
  BY DEF Writers, Idle
<1>2. /\ document' \in Documents /\ change' \in Changes /\ ~Unlocked'
      /\ change'.by = "main" /\ UNCHANGED <<file, running, live, next, next_attempt, attempts>>
      /\ main' = command
  BY <1>1, ChangeTakesTheLock DEF Stores, Change, Held, TypeOK
<1> QED BY <1>1, <1>2 DEF Held, TypeOK, TheLock

LEMMA HeldByCommands ==
  ASSUME Held, Commands PROVE Held'
<1>1. ASSUME NEW name \in Names, save_reads(name) PROVE Held'
  <2>1. Command("save", NoName, name, live, "read") \in Mains
    BY <1>1 DEF Command, Mains, Held, TypeOK
  <2> QED BY <1>1, <2>1
          DEF save_reads, Ready, Idle, OnlyCommand, Command, Held, TypeOK, TheLock, settingsVars, Unlocked
<1>2. ASSUME NEW name \in Names, forget_connection(name) PROVE Held'
  <2>1. Command("forget", name, NoName, NoSession, "store") \in Mains
    BY DEF Command, Mains
  <2>2. Forgotten(document, name) \in Documents
    BY StillADocument DEF Held, TypeOK
  <2> QED BY <1>2, <2>1, <2>2, HeldByStores DEF forget_connection, Ready, Command
<1>3. ASSUME NEW from \in Names, NEW to \in Names, rename_connection(from, to) PROVE Held'
  <2>1. Command("rename", from, to, NoSession, "store") \in Mains
    BY DEF Command, Mains
  <2>2. Renamed(document, from, to) \in Documents
    BY StillADocument DEF Held, TypeOK
  <2> QED BY <1>3, <2>1, <2>2, HeldByStores DEF rename_connection, Ready, Command
<1>4. CASE save_stores
  <2>1. main \in Mains /\ main.to \in Names /\ main.session \in Sessions
    BY <1>4 DEF save_stores, Held, TypeOK, Idle, Mains
  <2>2. CASE main' = Idle /\ OnlyCommand
    BY <1>4, <2>2 DEF save_stores, OnlyCommand, Idle, Held, TypeOK, TheLock, settingsVars, Unlocked
  <2> DEFINE new == Saved(document, [name |-> main.to, target |-> main.session.profile,
                                     line_owner |-> main.session.line_owner])
             command == [main EXCEPT !.stage = "store"]
  <2>3. CASE Stores(command, new)
    <3>1. command \in Mains /\ command.stage = "store"
      BY <2>1 DEF Mains
    <3>2. new \in Documents
      BY <2>1, StillADocument DEF Sessions, Connections, Held, TypeOK
    <3> QED BY <1>4, <2>3, <3>1, <3>2, HeldByStores DEF save_stores
  <2> QED BY <1>4, <2>2, <2>3 DEF save_stores
<1>5. CASE relabel
  <2>1. main \in Mains /\ main.to \in Names \cup {NoName}
    BY <1>5 DEF relabel, Held, TypeOK, Idle, Mains
  <2>2. live' \in Sessions \cup {NoSession}
    BY <1>5, <2>1 DEF relabel, Sessions, Held, TypeOK
  <2> QED BY <1>5, <2>1, <2>2 DEF relabel, Idle, Held, TypeOK, TheLock, settingsVars, Unlocked
<1>6. ASSUME NEW owner \in LineOwners, set_line_owner(owner) PROVE Held'
  <2>1. live' \in Sessions \cup {NoSession}
    <3>1. CASE live = NoSession
      BY <1>6, <3>1 DEF set_line_owner, NoSession
    <3>2. CASE live \in Sessions
      BY <1>6, <3>2 DEF set_line_owner, Sessions
    <3> QED BY <3>1, <3>2 DEF Held, TypeOK
  <2> QED BY <1>6, <2>1 DEF set_line_owner, Held, TypeOK, TheLock, settingsVars, Unlocked
<1> QED BY <1>1, <1>2, <1>3, <1>4, <1>5, <1>6 DEF Commands

\* A write goes on, ends or fails, and whoever waits for it goes on.
LEMMA HeldByReturns ==
  ASSUME Held, ~Unlocked, NEW command \in Mains \cup {Idle}, change.by = "main" => command.stage \in {"label", "none"},
         Returned(command),
         document' \in Documents, file' \in Files, change' = NoChange, UNCHANGED running
  PROVE  Held'
<1>1. Unlocked'
  BY DEF Unlocked
<1>2. CASE change.by = "main"
  <2>1. main' = command /\ UNCHANGED <<attempts, live, next, next_attempt>>
    BY <1>2 DEF Returned
  <2> QED BY <1>1, <1>2, <2>1 DEF Held, TypeOK, TheLock
<1>3. CASE change.by # "main"
  <2>1. change.by \in Places /\ attempts[change.by].stage = "writing" /\ Busy(change.by)
    BY <1>3 DEF Held, TheLock, Busy
  <2>2. "auth" \in AttemptStages /\ Moved(change.by, "auth") /\ UNCHANGED <<main, live, next, next_attempt>>
    BY <1>3 DEF Returned, AttemptStages
  <2> QED BY <1>1, <1>3, <2>1, <2>2, AttemptMoves DEF Held, TypeOK, TheLock
<1> QED BY <1>2, <1>3

LEMMA HeldByWrites == ASSUME Held, copy_aside \/ persist \/ could_not PROVE Held'
<1> USE DEF Held
<1>0. ASSUME ~Unlocked PROVE change \in Changes /\ change.before \in Documents
  BY <1>0 DEF TypeOK, Unlocked, Changes
<1>1. CASE copy_aside
  <2>1. /\ change \in Changes /\ ~Unlocked /\ change' = [change EXCEPT !.stage = "written"]
        /\ file' = file /\ UNCHANGED <<document, running, serviceVars>>
    BY <1>0, <1>1 DEF copy_aside, CopyAside, AfterCopy
  <2>2. change' \in Changes /\ change'.by = change.by /\ change' # NoChange
    BY <2>1, AChangeIsSome DEF Changes, Stages
  <2> QED BY <2>1, <2>2 DEF TypeOK, TheLock, Unlocked, serviceVars
<1>2. CASE persist
  <2>1. ASSUME change.by = "main"
        PROVE  /\ [main EXCEPT !.stage = "label"] \in Mains
               /\ [main EXCEPT !.stage = "label"].stage = "label"
    BY <1>2, <2>1 DEF persist, Persist, TheLock, TypeOK, Idle, Mains
  <2>2. CASE change.by = "main"
    BY <1>2, <2>1, <2>2, HeldByReturns DEF persist, Persist, TypeOK, Files
  <2>3. CASE change.by # "main"
    <3>1. Returned(Idle)
      BY <1>2, <2>3 DEF persist, Returned
    <3> QED BY <1>2, <2>3, <3>1, HeldByReturns DEF persist, Persist, TypeOK, Files
  <2> QED BY <2>2, <2>3
<1>3. CASE could_not
  <2>1. Idle.stage = "none"
    BY DEF Idle
  <2> QED BY <1>0, <1>3, <2>1, HeldByReturns DEF could_not, CouldNot, PutBack, TypeOK
<1> QED BY <1>1, <1>2, <1>3

\* The process stops and starts.
LEMMA HeldByRestarts == ASSUME Held, stop \/ start \/ edited_by_hand PROVE Held'
<1> USE DEF Held
<1>1. \A f \in Files : ReadBack(f) \in Documents
  BY NotOnlyText DEF Files, ReadBack, DefaultDocument, Documents
<1>2. CASE stop \/ start
  <2>1. /\ document' \in Documents /\ file' \in Files /\ change' = NoChange /\ running' \in BOOLEAN
    <3>1. DefaultDocument \in Documents /\ Absent \in Files /\ file \in Files
      BY DEF DefaultDocument, Documents, Files, TypeOK
    <3>2. CASE stop
      BY <3>1, <3>2 DEF stop, Stop
    <3>3. CASE start
      BY <1>1, <3>1, <3>3 DEF start, Open
    <3> QED BY <1>2, <3>2, <3>3
  <2>2. attempts' \in [Places -> Attempts \cup {NoAttempt, Due}]
    BY <1>2 DEF stop, start, Vacant
  <2>3. live' = NoSession /\ next' \in Nat /\ next_attempt' \in Nat /\ main' = Idle
    BY <1>2 DEF stop, start, Fresh
  <2>4. Idle.stage = "none"
    BY DEF Idle
  <2> QED BY <2>1, <2>2, <2>3, <2>4 DEF TypeOK, TheLock, Unlocked
<1>3. CASE edited_by_hand
  BY <1>3 DEF edited_by_hand, EditedByHand, serviceVars, TypeOK, Files, TheLock, Unlocked
<1> QED BY <1>2, <1>3

LEMMA HeldByNext == Held /\ [Next]_vars => Held'
<1> SUFFICES ASSUME Held, [Next]_vars PROVE Held'
  OBVIOUS
<1>1. CASE Next
  BY <1>1, HeldBySteps, HeldByTheWindow, HeldByReload, HeldByCommands, HeldByWrites, HeldByRestarts DEF Next
<1>2. CASE UNCHANGED vars
  BY <1>2, HeldByStutter DEF vars, serviceVars
<1> QED BY <1>1, <1>2

\* The types, and who holds the lock, in every state.
THEOREM TypesHold == Spec => []Held
BY HeldAtFirst, HeldByNext, PTL DEF Spec

-----------------------------------------------------------------------------
(***************************************************************************)
(* The file: while a write holds the lock the file still says what was     *)
(* there before, and otherwise what is in memory.                          *)
(***************************************************************************)
FileFollows == running => ReadBack(file) = IF Unlocked THEN document ELSE change.before

LEMMA DocumentsAreReadBack == \A doc \in Documents : ReadBack(doc) = doc
BY NotOnlyText DEF ReadBack

\* No operation makes two names sound the same.
LEMMA StillDistinct ==
  ASSUME NEW doc \in Documents, Distinct(doc)
  PROVE  /\ \A c : Distinct(Saved(doc, c))
         /\ \A from, to : same_name(from, to) \/ Called(doc, to) = {}
                         => Distinct(Renamed(doc, from, to))
         /\ \A name : Distinct(Forgotten(doc, name))
         /\ \A key : Distinct(Accepted(doc, key))
<1> USE DEF same_name
<1>1. \A new : [doc EXCEPT !.connections = new].connections = new
  BY DEF Documents
<1>2. \A new : [doc EXCEPT !.host_keys = new].connections = doc.connections
  BY DEF Documents
<1>3. \A c, d \in doc.connections : Sound[c.name] = Sound[d.name] => c = d
  BY DEF Distinct
<1>4. ASSUME NEW c PROVE Distinct(Saved(doc, c))
  <2>1. Saved(doc, c).connections = (doc.connections \ Called(doc, c.name)) \cup {c}
    BY <1>1 DEF Saved
  <2> QED BY <1>3, <2>1 DEF Distinct, Called
<1>5. ASSUME NEW from, NEW to, Sound[from] = Sound[to] \/ Called(doc, to) = {}
      PROVE  Distinct(Renamed(doc, from, to))
  <2> DEFINE named(c) == [c EXCEPT !.name = to]
             kept == doc.connections \ Called(doc, from)
             moved == {named(c) : c \in Called(doc, from)}
  <2>1. Renamed(doc, from, to).connections = kept \cup moved
    BY <1>1 DEF Renamed
  <2>2. \A c \in kept : Sound[c.name] # Sound[to]
    BY <1>5 DEF Called
  <2>3. \A c, d \in Called(doc, from) : c = d
    BY <1>3 DEF Called
  <2>4. \A c \in Called(doc, from) : named(c).name = to
    BY DEF Called, Documents, Connections
  <2>5. \A c, d \in moved : c = d /\ c.name = to
    BY <2>3, <2>4
  <2>6. \A c, d \in kept : Sound[c.name] = Sound[d.name] => c = d
    BY <1>3
  <2>7. \A c, d \in kept \cup moved : Sound[c.name] = Sound[d.name] => c = d
    <3> HIDE DEF kept, moved
    <3> QED BY <2>2, <2>5, <2>6
  <2> QED BY <2>1, <2>7 DEF Distinct
<1>6. ASSUME NEW name PROVE Distinct(Forgotten(doc, name))
  BY <1>1, <1>3 DEF Forgotten, Distinct
<1>7. ASSUME NEW key PROVE Distinct(Accepted(doc, key))
  BY <1>2, <1>3 DEF Accepted, Distinct
<1> QED BY <1>4, <1>5, <1>6, <1>7

\* What each step does to the settings.
SettingsStep ==
  \/ UNCHANGED settingsVars
  \/ \E who \in Writers, new \in Documents :
       Change(who, new) /\ (Distinct(document) => Distinct(new))
  \/ ~Unlocked /\ UNCHANGED <<file, document, running>> /\ ~Unlocked' /\ change'.before = change.before
  \/ Persist \/ CouldNot \/ Open \/ Stop \/ EditedByHand

LEMMA StepsOfTheSettings ==
  ASSUME Held, [Next]_vars PROVE SettingsStep
<1>0. document \in Documents
  BY DEF Held, TypeOK
<1>1. ASSUME NEW p \in Places, begin(p) \/ answer(p) \/ ended(p) \/ unheard(p)
      PROVE  SettingsStep
  BY <1>1 DEF begin, answer, ended, unheard, OnlyMoves, SettingsStep
<1>2. ASSUME NEW p \in Places, Steps(p) PROVE SettingsStep
  <2>1. CASE remember(p)
    <3>1. attempts[p] \in Attempts
      BY <2>1 DEF remember, At, Held, TypeOK, NoAttempt, Due
    <3>2. attempts[p].key \in Hosts /\ p \in Writers
      BY <3>1, ConnectAssumption DEF Attempts, Writers
    <3> QED BY <1>0, <2>1, <3>2, StillADocument, StillDistinct DEF remember, SettingsStep
  <2>2. CASE ~remember(p)
    BY <1>2, <2>2 DEF Steps, chosen, open, authenticate, agreed, recall, mint, replace, OnlyMoves,
                      SettingsStep
  <2> QED BY <2>1, <2>2
<1>3. ASSUME Commands PROVE SettingsStep
  <2>0. "main" \in Writers
    BY DEF Writers
  <2>1. CASE relabel \/ \E name \in Names : save_reads(name)
    BY <2>1 DEF relabel, save_reads, OnlyCommand, SettingsStep
  <2>2. CASE \E owner \in LineOwners : set_line_owner(owner)
    BY <2>2 DEF set_line_owner, SettingsStep
  <2>3. ASSUME NEW name \in Names, forget_connection(name) PROVE SettingsStep
    BY <1>0, <2>0, <2>3, StillADocument, StillDistinct DEF forget_connection, Stores, SettingsStep
  <2>4. ASSUME NEW from \in Names, NEW to \in Names, rename_connection(from, to)
        PROVE  SettingsStep
    <3>1. same_name(from, to) \/ Called(document, to) = {}
      BY <2>4 DEF rename_connection, taken, remembered
    <3>2. Change("main", Renamed(document, from, to))
      BY <2>4 DEF rename_connection, Stores
    <3> QED BY <1>0, <2>0, <3>1, <3>2, StillADocument, StillDistinct DEF SettingsStep
  <2>5. CASE save_stores
    <3>1. CASE OnlyCommand
      BY <3>1 DEF OnlyCommand, SettingsStep
    <3>2. main.session \in Sessions /\ main.to \in Names
      BY <2>5 DEF save_stores, Held, TypeOK, Idle, Mains
    <3> DEFINE c == [name |-> main.to, target |-> main.session.profile,
                     line_owner |-> main.session.line_owner]
    <3>3. c \in Connections
      BY <3>2 DEF Sessions, Connections
    <3>4. CASE Change("main", Saved(document, c))
      <4> HIDE DEF c
      <4> QED BY <1>0, <2>0, <3>3, <3>4, StillADocument, StillDistinct DEF SettingsStep
    <3> QED BY <2>5, <3>1, <3>4 DEF save_stores, Stores
  <2> QED BY <1>3, <2>1, <2>2, <2>3, <2>4, <2>5 DEF Commands
<1>4. CASE copy_aside
  <2>1. change \in Changes /\ ~Unlocked
    BY <1>4 DEF copy_aside, CopyAside, Held, TypeOK, Unlocked
  <2>2. change' \in Changes /\ change'.before = change.before
    BY <1>4, <2>1 DEF copy_aside, CopyAside, Changes, Stages
  <2> QED BY <1>4, <2>1, <2>2, AChangeIsSome
          DEF copy_aside, CopyAside, AfterCopy, Unlocked, SettingsStep
<1>5. CASE persist \/ could_not \/ stop \/ start \/ edited_by_hand
  BY <1>5 DEF persist, could_not, stop, start, edited_by_hand, SettingsStep
<1>6. CASE UNCHANGED vars
  BY <1>6 DEF vars, SettingsStep
<1>7. CASE reload
  BY <1>7 DEF reload, SettingsStep
<1> QED BY <1>1, <1>2, <1>3, <1>4, <1>5, <1>6, <1>7 DEF Next

LEMMA FileFollowsByNext ==
  ASSUME Held, FileFollows, [Next]_vars PROVE FileFollows'
<1>0. document \in Documents /\ (~Unlocked => change \in Changes)
  BY DEF Held, TypeOK, Unlocked
<1>1. CASE UNCHANGED settingsVars
  BY <1>1 DEF FileFollows, Unlocked, settingsVars
<1>2. ASSUME NEW who \in Writers, NEW new \in Documents, Change(who, new) PROVE FileFollows'
  BY <1>0, <1>2, ChangeTakesTheLock DEF FileFollows, Change
<1>3. CASE ~Unlocked /\ UNCHANGED <<file, document, running>> /\ ~Unlocked' /\ change'.before = change.before
  BY <1>3 DEF FileFollows
<1>4. CASE Persist
  BY <1>0, <1>4, DocumentsAreReadBack DEF Persist, FileFollows, Unlocked
<1>5. CASE CouldNot
  BY <1>5 DEF CouldNot, PutBack, FileFollows, Unlocked
<1>6. CASE Open
  BY <1>6 DEF Open, ReadBack, FileFollows, Unlocked
<1>7. CASE Stop \/ EditedByHand
  BY <1>7 DEF Stop, EditedByHand, FileFollows
<1> QED BY <1>1, <1>2, <1>3, <1>4, <1>5, <1>6, <1>7, StepsOfTheSettings DEF SettingsStep

\* Whatever stops the process or fails a write, a restart reads the document of
\* before or the one of after: Settings::change and write.
THEOREM TheFileIsGood == Spec => []RestartReadsTheDocument
<1>1. Init => FileFollows
  BY DEF Init, SettingsInit, FileFollows
<1>2. Held /\ FileFollows /\ [Next]_vars => FileFollows'
  BY FileFollowsByNext
<1>3. FileFollows => RestartReadsTheDocument
  BY DEF FileFollows, RestartReadsTheDocument
<1> QED BY <1>1, <1>2, <1>3, TypesHold, PTL DEF Spec

-----------------------------------------------------------------------------
(***************************************************************************)
(* The names, in memory, in the file, and in the document a failed write   *)
(* would put back.                                                         *)
(***************************************************************************)
AllDistinct ==
  /\ Distinct(document) /\ Distinct(ReadBack(file))
  /\ ~Unlocked => Distinct(change.before)

LEMMA AllDistinctByNext ==
  ASSUME Held, AllDistinct, [Next]_vars PROVE AllDistinct'
<1>0. document \in Documents /\ Distinct(DefaultDocument) /\ ReadBack(Broken) = DefaultDocument
      /\ ReadBack(Absent) = DefaultDocument
  BY DEF Held, TypeOK, Distinct, DefaultDocument, ReadBack
<1> USE DEF AllDistinct
<1>1. CASE UNCHANGED settingsVars
  BY <1>1 DEF Unlocked, settingsVars
<1>2. ASSUME NEW who \in Writers, NEW new \in Documents, Change(who, new), Distinct(new)
      PROVE AllDistinct'
  BY <1>0, <1>2, ChangeTakesTheLock DEF Change
<1>3. CASE ~Unlocked /\ UNCHANGED <<file, document, running>> /\ ~Unlocked' /\ change'.before = change.before
  BY <1>3
<1>4. CASE Persist
  BY <1>0, <1>4, DocumentsAreReadBack DEF Persist, Unlocked
<1>5. CASE CouldNot
  BY <1>5 DEF CouldNot, PutBack, Unlocked
<1>6. CASE Open
  BY <1>0, <1>6 DEF Open, Unlocked
<1>7. CASE Stop \/ EditedByHand
  BY <1>0, <1>7 DEF Stop, EditedByHand, Unlocked
<1> QED BY <1>1, <1>2, <1>3, <1>4, <1>5, <1>6, <1>7, StepsOfTheSettings DEF SettingsStep

\* Saving, renaming and forgetting keep every saved name told from the others, in
\* memory and on disk: Settings::save, rename, forget and the checks before them.
THEOREM NamesStayUnique == Spec => []NamesAreUnique
<1>1. Init => AllDistinct
  <2>1. Distinct(DefaultDocument)
    BY DEF Distinct, DefaultDocument
  <2> QED BY <2>1 DEF Init, SettingsInit, AllDistinct, ReadBack, Unlocked
<1>2. Held /\ AllDistinct /\ [Next]_vars => AllDistinct'
  BY AllDistinctByNext
<1>3. AllDistinct => NamesAreUnique
  BY DEF AllDistinct, NamesAreUnique
<1> QED BY <1>1, <1>2, <1>3, TypesHold, PTL DEF Spec

-----------------------------------------------------------------------------
(***************************************************************************)
(* The origin of the session that is connected, where no launch switch     *)
(* starts a connection: the Connect dialog, which names one, keeps renames *)
(* and forgets out while it attempts, and the other dialog names none.  An *)
(* attempt whose window was loaded again keeps nothing out.                *)
(***************************************************************************)
Backed(name) ==
  /\ Called(document, name) # {}
  /\ ~Unlocked => Called(change.before, name) # {}
Changing == main.stage \in {"store", "label"} /\ main.op # "save"

KeyIsAllThatChanges ==
  ~Unlocked /\ change.by # "main" => change.before.connections = document.connections
StoredNameIsThere ==
  main.stage \in {"store", "label"} =>
    IF main.op = "forget" THEN main.to = NoName ELSE Called(document, main.to) # {}
AttemptsAreBacked ==
  /\ "dialog" \in Places /\ Busy("dialog") /\ attempts["dialog"].heard =>
       ~Changing /\ (attempts["dialog"].origin # NoName => Backed(attempts["dialog"].origin))
  /\ "new" \in Places /\ Busy("new") => attempts["new"].origin = NoName
LiveIsBacked ==
  live # NoSession /\ live.origin # NoName /\ live.heard =>
    IF Changing /\ same_name(live.origin, main.from)
    THEN main.stage = "store" => Called(change.before, live.origin) # {}
    ELSE Backed(live.origin)
Origins ==
  running => KeyIsAllThatChanges /\ StoredNameIsThere /\ AttemptsAreBacked /\ LiveIsBacked

\* Which names each operation keeps.
LEMMA NamesKept ==
  ASSUME NEW doc \in Documents, NEW n
  PROVE  /\ \A c : /\ Called(Saved(doc, c), c.name) # {}
                   /\ Called(doc, n) # {} => Called(Saved(doc, c), n) # {}
         /\ \A from, to :
              /\ Called(doc, from) # {} => Called(Renamed(doc, from, to), to) # {}
              /\ Called(doc, n) # {} /\ ~same_name(n, from)
                   => Called(Renamed(doc, from, to), n) # {}
         /\ \A name : Called(doc, n) # {} /\ ~same_name(n, name)
                       => Called(Forgotten(doc, name), n) # {}
         /\ \A key : Accepted(doc, key).connections = doc.connections
<1> USE DEF same_name
<1>1. \A new : [doc EXCEPT !.connections = new].connections = new
  BY DEF Documents
<1>2. ASSUME NEW c
      PROVE  /\ Called(Saved(doc, c), c.name) # {}
             /\ Called(doc, n) # {} => Called(Saved(doc, c), n) # {}
  <2>1. Saved(doc, c).connections = (doc.connections \ Called(doc, c.name)) \cup {c}
    BY <1>1 DEF Saved
  <2>2. c \in Called(Saved(doc, c), c.name)
    BY <2>1 DEF Called
  <2>3. ASSUME NEW d \in Called(doc, n)
        PROVE  Called(Saved(doc, c), n) # {}
    <3>1. CASE Sound[d.name] = Sound[c.name]
      BY <2>1, <3>1 DEF Called
    <3>2. CASE Sound[d.name] # Sound[c.name]
      BY <2>1, <3>2 DEF Called
    <3> QED BY <3>1, <3>2
  <2> QED BY <2>2, <2>3
<1>3. ASSUME NEW from, NEW to
      PROVE  /\ Called(doc, from) # {} => Called(Renamed(doc, from, to), to) # {}
             /\ Called(doc, n) # {} /\ ~same_name(n, from)
                  => Called(Renamed(doc, from, to), n) # {}
  <2> DEFINE named(c) == [c EXCEPT !.name = to]
             moved == {named(c) : c \in Called(doc, from)}
  <2>1. Renamed(doc, from, to).connections = (doc.connections \ Called(doc, from)) \cup moved
    BY <1>1 DEF Renamed
  <2>2. \A c \in Called(doc, from) : named(c).name = to
    BY DEF Called, Documents, Connections
  <2>3. \A c \in Called(doc, from) : named(c) \in Called(Renamed(doc, from, to), to)
    BY <2>1, <2>2 DEF Called
  <2>4. ASSUME NEW d \in Called(doc, n), ~same_name(n, from)
        PROVE  d \in Called(Renamed(doc, from, to), n)
    <3> HIDE DEF moved
    <3> QED BY <2>1, <2>4 DEF Called
  <2> QED BY <2>3, <2>4
<1>4. ASSUME NEW name, NEW d \in Called(doc, n), ~same_name(n, name)
      PROVE  d \in Called(Forgotten(doc, name), n)
  BY <1>1, <1>4 DEF Forgotten, Called
<1>5. \A key : Accepted(doc, key).connections = doc.connections
  BY DEF Accepted, Documents
<1> QED BY <1>2, <1>3, <1>4, <1>5

\* No attempt begins in this step, and none changes where it came from.
OriginsStay ==
  \A q \in Places :
    Busy(q)' => /\ Busy(q) /\ attempts'[q].origin = attempts[q].origin
                /\ attempts'[q].heard => attempts[q].heard

LEMMA OriginsByMoves ==
  ASSUME Origins, running, UNCHANGED <<settingsVars, main, live>>, OriginsStay
  PROVE  Origins'
<1> USE DEF Origins, settingsVars
<1>1. UNCHANGED <<document, change, main, live>>
  OBVIOUS
<1>2. KeyIsAllThatChanges' /\ StoredNameIsThere'
  BY <1>1 DEF KeyIsAllThatChanges, StoredNameIsThere, Unlocked, Called
<1>3. AttemptsAreBacked'
  BY <1>1 DEF AttemptsAreBacked, OriginsStay, Backed, Changing, Unlocked, Called
<1>4. LiveIsBacked'
  BY <1>1 DEF LiveIsBacked, Backed, Changing, Unlocked, Called
<1> QED BY <1>2, <1>3, <1>4

\* An attempt that has begun and moves on, or ends, keeps its origin.
LEMMA MovesStay ==
  ASSUME Held, NEW p \in Places, Busy(p), NEW stage \in AttemptStages, Moved(p, stage)
  PROVE  OriginsStay
BY AttemptMoves DEF OriginsStay, Busy, Held, TypeOK

LEMMA OriginsBySteps ==
  ASSUME "launch" \notin Places, Held, Origins, NEW p \in Places, Steps(p)
  PROVE  Origins'
<1>0. running
  BY DEF Steps, chosen, open, remember, authenticate, agreed, recall, mint, replace, At
<1>1. CASE chosen(p) \/ open(p) \/ authenticate(p) \/ agreed(p)
  <2>1. Busy(p) /\ UNCHANGED <<settingsVars, main, live>>
    BY <1>1 DEF chosen, open, authenticate, agreed, At, Busy, OnlyMoves
  <2>2. PICK stage \in AttemptStages : Moved(p, stage)
    <3>1. \E stage \in {"failed", "open", "unverified", "agree", "host_key", "auth", "password",
                        "recall", "set_up"} : Moved(p, stage)
      BY <1>1 DEF chosen, open, authenticate, agreed
    <3> QED BY <3>1 DEF AttemptStages, Questions
  <2> QED BY <1>0, <2>1, <2>2, MovesStay, OriginsByMoves
<1>2. CASE remember(p)
  <2>1. attempts[p].stage = "remember" /\ Busy(p) /\ p \in Writers /\ p # "main" /\ Moved(p, "writing")
    BY <1>2, ConnectAssumption DEF remember, At, Busy, Writers
  <2>2. "writing" \in AttemptStages
    BY DEF AttemptStages
  <2>3. attempts[p].key \in Hosts /\ document \in Documents
    BY <2>1, <2>2, AttemptMoves DEF Held, TypeOK, Attempts
  <2>4. /\ ~Unlocked' /\ Unlocked /\ change'.by = p /\ change'.before = document
        /\ document' = Accepted(document, attempts[p].key)
        /\ UNCHANGED <<running, main, live>>
    BY <1>2, <2>1, <2>3, StillADocument, ChangeTakesTheLock DEF remember, Change
  <2>5. document'.connections = document.connections
    BY <2>3, <2>4, NamesKept
  <2>6. \A n : Called(document', n) = Called(document, n)
    BY <2>5 DEF Called
  <2>7. OriginsStay
    BY <2>1, <2>2, MovesStay
  <2>8. KeyIsAllThatChanges'
    BY <2>4, <2>5 DEF KeyIsAllThatChanges
  <2>9. StoredNameIsThere'
    BY <1>0, <2>4, <2>6 DEF Origins, StoredNameIsThere
  <2>10. \A n : Backed(n) => Backed(n)'
    BY <2>4, <2>6 DEF Backed
  <2>11. AttemptsAreBacked'
    BY <1>0, <2>4, <2>7, <2>10 DEF Origins, AttemptsAreBacked, OriginsStay, Changing
  <2>12. main.stage # "store"
    BY <2>4 DEF Held, TheLock
  <2>13. LiveIsBacked'
    BY <1>0, <2>4, <2>10, <2>12 DEF Origins, LiveIsBacked, Changing
  <2> QED BY <2>8, <2>9, <2>11, <2>13 DEF Origins
<1>3. CASE recall(p)
  <2>1. OriginsStay
    BY <1>3 DEF recall, At, OriginsStay, Busy, Held, TypeOK
  <2> QED BY <1>0, <1>3, <2>1, OriginsByMoves DEF recall, OnlyMoves
<1>4. CASE mint(p)
  <2>1. OriginsStay
    BY <1>4 DEF mint, At, OriginsStay, Busy, Held, TypeOK
  <2> QED BY <1>0, <1>4, <2>1, OriginsByMoves DEF mint
<1>5. CASE replace(p)
  <2>1. Busy(p) /\ Moved(p, "arrived") /\ "arrived" \in AttemptStages
        /\ UNCHANGED <<document, change, main, running>> /\ live' = Live(attempts[p])
    BY <1>5 DEF replace, At, Busy, AttemptStages, settingsVars
  <2>2. OriginsStay
    BY <2>1, MovesStay
  <2>3. live'.origin = attempts[p].origin /\ live'.heard = attempts[p].heard
    BY <2>1 DEF Live
  <2>4. KeyIsAllThatChanges' /\ StoredNameIsThere'
    BY <1>0, <2>1 DEF Origins, KeyIsAllThatChanges, StoredNameIsThere, Unlocked, Called
  <2>5. AttemptsAreBacked'
    BY <1>0, <2>1, <2>2 DEF Origins, AttemptsAreBacked, OriginsStay, Backed, Changing, Unlocked, Called
  <2>6. p \in {"dialog", "new"}
    BY ConnectAssumption
  <2>7. live'.origin = NoName \/ ~live'.heard \/ (~Changing /\ Backed(live'.origin))
    BY <1>0, <2>1, <2>3, <2>6 DEF Origins, AttemptsAreBacked
  <2>8. LiveIsBacked'
    BY <2>1, <2>7 DEF LiveIsBacked, Backed, Changing, Unlocked, Called
  <2> QED BY <2>4, <2>5, <2>8 DEF Origins
<1> QED BY <1>1, <1>2, <1>3, <1>4, <1>5 DEF Steps

LEMMA OriginsByTheWindow ==
  ASSUME "launch" \notin Places, Held, Origins, NEW p \in Places,
         begin(p) \/ answer(p) \/ ended(p) \/ unheard(p)
  PROVE  Origins'
<1>0. running
  BY DEF begin, answer, ended, unheard, Ready
<1>1. CASE begin(p)
  <2>1. PICK profile \in Profiles, origin \in origins(p), key \in Hosts :
          attempts' = [attempts EXCEPT ![p] = NewAttempt(next_attempt, profile, origin, key)]
    BY <1>1 DEF begin
  <2>2. /\ attempts'[p].origin = origin
        /\ \A q \in Places \ {p} : attempts'[q] = attempts[q]
    BY <2>1 DEF NewAttempt, Held, TypeOK
  <2>3. p \in {"dialog", "new"}
    BY ConnectAssumption
  <2>4. UNCHANGED <<document, change, main, live, running>> /\ Unlocked /\ main = Idle
    BY <1>1 DEF begin, settingsVars, Ready
  <2>5. ~Changing
    BY <2>4 DEF Changing, Idle
  <2>6. p = "new" => origin = NoName
    BY DEF origins
  <2>7. p = "dialog" => Backed(origin)
    <3> SUFFICES ASSUME p = "dialog" PROVE Backed(origin)
      OBVIOUS
    <3>1. PICK c \in document.connections : origin = c.name
      BY DEF origins
    <3> QED BY <2>4, <3>1 DEF Backed, Called, same_name
  <2>8. KeyIsAllThatChanges' /\ StoredNameIsThere'
    BY <1>0, <2>4 DEF Origins, KeyIsAllThatChanges, StoredNameIsThere, Unlocked, Called
  <2>9. AttemptsAreBacked'
    BY <1>0, <2>2, <2>3, <2>4, <2>5, <2>6, <2>7
       DEF Origins, AttemptsAreBacked, Busy, Backed, Changing, Unlocked, Called
  <2>10. LiveIsBacked'
    BY <1>0, <2>4 DEF Origins, LiveIsBacked, Backed, Changing, Unlocked, Called
  <2> QED BY <2>8, <2>9, <2>10 DEF Origins
<1>2. CASE answer(p)
  <2>1. OriginsStay
    <3>1. attempts[p] \in Attempts /\ Busy(p)
      BY <1>2 DEF answer, Waits, Questions, Busy, Held, TypeOK, NoAttempt, Due
    <3>2. ASSUME NEW stage, answered(p, stage)
          PROVE  /\ attempts'[p].origin = attempts[p].origin
                 /\ attempts'[p].heard = attempts[p].heard
                 /\ \A q \in Places \ {p} : attempts'[q] = attempts[q]
      <4> DEFINE tries == IF attempts[p].stage = "password" THEN attempts[p].tries + 1
                          ELSE attempts[p].tries
      <4>1. attempts'[p] = [attempts[p] EXCEPT !.stage = stage, !.tries = tries]
        BY <3>2 DEF answered, Held, TypeOK
      <4>2. attempts'[p].origin = attempts[p].origin /\ attempts'[p].heard = attempts[p].heard
        <5> HIDE DEF tries
        <5> QED BY <3>1, <4>1 DEF Attempts
      <4> QED BY <3>2, <4>2 DEF answered, Held, TypeOK
    <3> QED BY <1>2, <3>1, <3>2 DEF answer, OriginsStay, Busy
  <2> QED BY <1>0, <1>2, <2>1, OriginsByMoves DEF answer
<1>3. CASE ended(p)
  <2>1. OriginsStay
    BY <1>3 DEF ended, OriginsStay, Busy, NoAttempt, Held, TypeOK
  <2> QED BY <1>0, <1>3, <2>1, OriginsByMoves DEF ended
<1>4. CASE unheard(p)
  <2>1. ~Busy(p)' /\ \A q \in Places \ {p} : attempts'[q] = attempts[q]
    BY <1>4 DEF unheard, Busy, Vacant, NoAttempt, Due, Held, TypeOK
  <2>2. OriginsStay
    BY <2>1 DEF OriginsStay, Busy
  <2> QED BY <1>0, <1>4, <2>2, OriginsByMoves DEF unheard, OnlyMoves
<1> QED BY <1>1, <1>2, <1>3, <1>4

LEMMA OriginsByReload == ASSUME Held, Origins, reload PROVE Origins'
<1>1. OriginsStay
  BY ReloadKeeps DEF OriginsStay, Busy
<1> QED BY <1>1, OriginsByMoves DEF reload, Ready

\* A command stores: the session's origin is found in what is stored, or it is
\* what the command is about to take from it.
LEMMA OriginsByStores ==
  ASSUME Held, Origins, running, main.stage \notin {"store", "label"},
         NEW command \in Mains, command.stage = "store",
         NEW new \in Documents, Stores(command, new),
         command.op # "save" =>
           ~("dialog" \in Places /\ Busy("dialog") /\ attempts["dialog"].heard),
         IF command.op = "forget" THEN command.to = NoName ELSE Called(new, command.to) # {},
         \A n : Called(document, n) # {} /\ ~(command.op # "save" /\ same_name(n, command.from))
                => Called(new, n) # {}
  PROVE  Origins'
<1>1. /\ document' = new /\ ~Unlocked' /\ Unlocked /\ change'.by = "main" /\ change'.before = document
      /\ main' = command /\ UNCHANGED <<running, live, attempts>>
  BY ChangeTakesTheLock DEF Stores, Change, Held, TypeOK, Writers
<1>2. ~Changing
  BY DEF Changing
<1>3. \A n : Backed(n) /\ ~(command.op # "save" /\ same_name(n, command.from)) => Backed(n)'
  <2> SUFFICES ASSUME NEW n, Backed(n), ~(command.op # "save" /\ same_name(n, command.from))
               PROVE  Called(new, n) # {} /\ Called(document, n) # {}
    BY <1>1 DEF Backed, Called
  <2> QED BY DEF Backed
<1>4. KeyIsAllThatChanges' /\ StoredNameIsThere'
  BY <1>1 DEF KeyIsAllThatChanges, StoredNameIsThere, Called
<1>5. AttemptsAreBacked'
  BY <1>1, <1>3 DEF Origins, AttemptsAreBacked, Busy, Changing
<1>6. LiveIsBacked'
  <2>1. \A n : Backed(n) => Called(change'.before, n) # {}
    BY <1>1 DEF Backed
  <2> QED BY <1>1, <1>2, <1>3, <2>1 DEF Origins, LiveIsBacked, Changing, Called
<1> QED BY <1>4, <1>5, <1>6 DEF Origins

LEMMA OriginsByCommands ==
  ASSUME Held, Origins, Commands PROVE Origins'
<1>0. document \in Documents
  BY DEF Held, TypeOK
<1>1. ASSUME NEW name \in Names, save_reads(name) PROVE Origins'
  <2>1. /\ running /\ main = Idle /\ main'.stage = "read"
        /\ UNCHANGED <<document, change, running, live, attempts>>
    BY <1>1 DEF save_reads, Ready, OnlyCommand, settingsVars, Command
  <2>2. ~Changing /\ ~Changing'
    BY <2>1 DEF Changing, Idle
  <2> QED BY <2>1, <2>2 DEF Origins, KeyIsAllThatChanges, StoredNameIsThere, AttemptsAreBacked,
                            LiveIsBacked, Backed, Unlocked, Called, Busy
<1>2. ASSUME NEW name \in Names, forget_connection(name) PROVE Origins'
  <2> DEFINE command == Command("forget", name, NoName, NoSession, "store")
  <2>1. /\ command \in Mains /\ command.stage = "store" /\ command.op = "forget"
        /\ command.to = NoName /\ command.from = name
    BY DEF Command, Mains
  <2>2. Forgotten(document, name) \in Documents
    BY <1>0, StillADocument
  <2>3. running /\ main.stage = "none" /\ Free /\ Stores(command, Forgotten(document, name))
    BY <1>2 DEF forget_connection, Ready, Idle
  <2> HIDE DEF command
  <2> QED BY <1>0, <2>1, <2>2, <2>3, OriginsByStores, NamesKept DEF Free
<1>3. ASSUME NEW from \in Names, NEW to \in Names, rename_connection(from, to) PROVE Origins'
  <2> DEFINE command == Command("rename", from, to, NoSession, "store")
  <2>1. /\ command \in Mains /\ command.stage = "store" /\ command.op = "rename"
        /\ command.to = to /\ command.from = from
    BY DEF Command, Mains
  <2>2. Renamed(document, from, to) \in Documents
    BY <1>0, StillADocument
  <2>3. /\ running /\ main.stage = "none" /\ Free /\ Called(document, from) # {}
        /\ Stores(command, Renamed(document, from, to))
    BY <1>3 DEF rename_connection, Ready, Idle, remembered
  <2> HIDE DEF command
  <2> QED BY <1>0, <2>1, <2>2, <2>3, OriginsByStores, NamesKept DEF Free
<1>4. CASE save_stores
  <2>1. main \in Mains /\ main.to \in Names /\ main.session \in Sessions /\ main.op = "save"
    BY <1>4 DEF save_stores, Held, TypeOK, Idle, Mains
  <2>2. CASE main' = Idle /\ OnlyCommand
    <3>1. UNCHANGED <<document, change, running, live, attempts>> /\ main'.stage = "none" /\ running
      BY <1>4, <2>2 DEF save_stores, OnlyCommand, settingsVars, Idle
    <3>2. ~Changing /\ ~Changing'
      BY <1>4, <3>1 DEF save_stores, Changing
    <3> QED BY <1>4, <3>1, <3>2
            DEF save_stores, Origins, KeyIsAllThatChanges, StoredNameIsThere, AttemptsAreBacked,
                LiveIsBacked, Backed, Unlocked, Called, Busy
  <2> DEFINE c == [name |-> main.to, target |-> main.session.profile,
                   line_owner |-> main.session.line_owner]
             command == [main EXCEPT !.stage = "store"]
  <2>3. CASE Stores(command, Saved(document, c))
    <3>1. command \in Mains /\ command.stage = "store" /\ command.op = "save" /\ command.to = main.to
      BY <2>1 DEF Mains
    <3>2. c \in Connections /\ c.name = main.to
      BY <2>1 DEF Sessions, Connections
    <3>3. running /\ main.stage = "read"
      BY <1>4 DEF save_stores
    <3> HIDE DEF c, command
    <3>4. Saved(document, c) \in Documents
      BY <1>0, <3>2, StillADocument
    <3>5. /\ Called(Saved(document, c), command.to) # {}
          /\ \A n : Called(document, n) # {} => Called(Saved(document, c), n) # {}
      BY <1>0, <3>1, <3>2, NamesKept
    <3> QED BY <2>3, <3>1, <3>3, <3>4, <3>5, OriginsByStores
  <2> QED BY <1>4, <2>2, <2>3 DEF save_stores
<1>5. CASE relabel
  <2>1. /\ running /\ main.stage = "label" /\ main \in Mains
        /\ UNCHANGED <<document, change, running, attempts>> /\ main'.stage = "none"
    BY <1>5 DEF relabel, settingsVars, Idle, Held, TypeOK
  <2>2. ~Changing'
    BY <2>1 DEF Changing
  <2>3. KeyIsAllThatChanges' /\ StoredNameIsThere'
    BY <2>1 DEF Origins, KeyIsAllThatChanges, StoredNameIsThere, Unlocked
  <2>4. AttemptsAreBacked'
    BY <2>1, <2>2 DEF Origins, AttemptsAreBacked, Backed, Unlocked, Called, Busy
  <2>5. ~Unlocked => change.before.connections = document.connections
    BY <2>1 DEF Origins, KeyIsAllThatChanges, Held, TheLock
  <2>6. main.op # "forget" => Backed(main.to)
    BY <2>1, <2>5 DEF Origins, StoredNameIsThere, Backed, Called
  <2>7. main.op = "forget" => main.to = NoName
    BY <2>1 DEF Origins, StoredNameIsThere
  <2>8. CASE live # NoSession /\ labels(live)
    <3>1. live \in Sessions /\ live'.origin = main.to
      BY <1>5, <2>8 DEF relabel, Sessions, Held, TypeOK
    <3>2. live'.origin = NoName \/ Backed(live'.origin)
      BY <2>6, <2>7, <3>1
    <3> QED BY <2>1, <2>2, <2>3, <2>4, <3>2 DEF Origins, LiveIsBacked, Backed, Unlocked, Called
  <2>9. CASE ~(live # NoSession /\ labels(live))
    <3>1. live' = live
      BY <1>5, <2>9 DEF relabel
    <3>2. live = NoSession \/ live.origin = NoName \/ ~(Changing /\ same_name(live.origin, main.from))
      BY <2>9 DEF labels, its_own, Changing
    <3> QED BY <2>1, <2>2, <2>3, <2>4, <3>1, <3>2
            DEF Origins, LiveIsBacked, Backed, Unlocked, Called
  <2> QED BY <2>8, <2>9
<1>6. ASSUME NEW owner \in LineOwners, set_line_owner(owner) PROVE Origins'
  <2>1. running /\ UNCHANGED <<document, change, running, attempts, main>>
    BY <1>6 DEF set_line_owner, Ready, settingsVars
  <2>2. live' = live \/ (live # NoSession /\ live'.origin = live.origin /\ live'.heard = live.heard)
    <3>1. CASE live = NoSession
      BY <1>6, <3>1 DEF set_line_owner, NoSession
    <3>2. CASE live \in Sessions /\ live # NoSession
      BY <1>6, <3>2 DEF set_line_owner, Sessions
    <3> QED BY <3>1, <3>2 DEF Held, TypeOK
  <2> QED BY <2>1, <2>2
          DEF Origins, KeyIsAllThatChanges, StoredNameIsThere, AttemptsAreBacked, LiveIsBacked,
              Backed, Changing, Unlocked, Called, Busy
<1> QED BY <1>1, <1>2, <1>3, <1>4, <1>5, <1>6 DEF Commands

LEMMA OriginsByWrites ==
  ASSUME Held, Origins, copy_aside \/ persist \/ could_not PROVE Origins'
<1> SUFFICES ASSUME running PROVE Origins'
  BY DEF copy_aside, persist, could_not, CopyAside, Persist, CouldNot, Origins
<1>0. ~Unlocked /\ change \in Changes
  BY DEF copy_aside, persist, could_not, CopyAside, Persist, CouldNot, Held, TypeOK, Unlocked
<1>1. CASE copy_aside
  <2>1. /\ change'.before = change.before /\ change'.by = change.by /\ ~Unlocked'
        /\ UNCHANGED <<document, running, live, attempts, main>>
    BY <1>0, <1>1, AChangeIsSome
       DEF copy_aside, CopyAside, Changes, Stages, serviceVars, Unlocked
  <2> QED BY <1>0, <2>1
          DEF Origins, KeyIsAllThatChanges, StoredNameIsThere, AttemptsAreBacked, LiveIsBacked,
              Backed, Changing, Called, Busy
\* Whose write it was goes on.
<1>2. ASSUME change.by # "main", NEW command, Returned(command)
      PROVE  /\ OriginsStay /\ UNCHANGED <<main, live>> /\ main.stage # "store"
             /\ change.before.connections = document.connections
  <2>1. change.by \in Places /\ attempts[change.by].stage = "writing" /\ Busy(change.by)
    BY <1>0, <1>2 DEF Held, TheLock, Busy
  <2>2. "auth" \in AttemptStages /\ Moved(change.by, "auth") /\ UNCHANGED <<main, live>>
    BY <1>2 DEF Returned, AttemptStages
  <2>3. main.stage # "store"
    BY <1>2 DEF Held, TheLock
  <2> QED BY <1>0, <1>2, <2>1, <2>2, <2>3, MovesStay DEF Origins, KeyIsAllThatChanges
<1>3. ASSUME change.by = "main", NEW command, Returned(command)
      PROVE  main' = command /\ UNCHANGED <<attempts, live>> /\ main.stage = "store"
  BY <1>0, <1>3 DEF Returned, Held, TheLock
<1>4. CASE persist
  <2>1. /\ Unlocked' /\ UNCHANGED <<document, running>>
        /\ Returned([main EXCEPT !.stage = "label"])
    BY <1>4 DEF persist, Persist, Unlocked
  <2>2. \A n : Backed(n) => Backed(n)'
    BY <2>1 DEF Backed, Called
  <2>3. CASE change.by # "main"
    <3>1. OriginsStay /\ UNCHANGED <<main, live>> /\ main.stage # "store"
      BY <1>2, <2>1, <2>3
    <3> QED BY <2>1, <2>2, <3>1
            DEF Origins, KeyIsAllThatChanges, StoredNameIsThere, AttemptsAreBacked, OriginsStay,
                LiveIsBacked, Changing, Called
  <2>4. CASE change.by = "main"
    <3>1. UNCHANGED <<attempts, live>> /\ main.stage = "store" /\ main' = [main EXCEPT !.stage = "label"]
      BY <1>3, <2>1, <2>4
    <3>2. main \in Mains
      BY <3>1 DEF Held, TypeOK, Idle
    <3>3. main'.stage = "label" /\ main'.op = main.op /\ main'.from = main.from /\ main'.to = main.to
      BY <3>1, <3>2 DEF Mains
    <3> QED BY <2>1, <2>2, <3>1, <3>3
            DEF Origins, KeyIsAllThatChanges, StoredNameIsThere, AttemptsAreBacked, LiveIsBacked,
                Changing, Called, Busy
  <2> QED BY <2>3, <2>4
<1>5. CASE could_not
  <2>1. Unlocked' /\ UNCHANGED running /\ document' = change.before /\ Returned(Idle)
    BY <1>5 DEF could_not, CouldNot, PutBack, Unlocked
  <2>2. \A n : Called(change.before, n) # {} => Backed(n)'
    BY <2>1 DEF Backed, Called
  <2>3. \A n : Backed(n) => Backed(n)'
    BY <1>0, <2>2 DEF Backed
  <2>4. CASE change.by # "main"
    <3>1. OriginsStay /\ UNCHANGED <<main, live>> /\ document'.connections = document.connections
          /\ main.stage # "store"
      BY <1>2, <2>1, <2>4
    <3> QED BY <2>1, <2>3, <3>1
            DEF Origins, KeyIsAllThatChanges, StoredNameIsThere, AttemptsAreBacked, OriginsStay,
                LiveIsBacked, Changing, Called
  <2>5. CASE change.by = "main"
    <3>1. UNCHANGED <<attempts, live>> /\ main.stage = "store" /\ main'.stage = "none"
      BY <1>3, <2>1, <2>5 DEF Idle
    <3>2. live # NoSession /\ live.origin # NoName /\ live.heard => Backed(live.origin)'
      BY <2>2, <2>3, <3>1 DEF Origins, LiveIsBacked
    <3> QED BY <2>1, <2>3, <3>1, <3>2
            DEF Origins, KeyIsAllThatChanges, StoredNameIsThere, AttemptsAreBacked, LiveIsBacked,
                Backed, Changing, Called, Busy
  <2> QED BY <2>4, <2>5
<1> QED BY <1>1, <1>4, <1>5

LEMMA OriginsByRestarts == ASSUME Origins, stop \/ start \/ edited_by_hand PROVE Origins'
<1>1. CASE stop \/ edited_by_hand
  BY <1>1 DEF stop, edited_by_hand, Stop, EditedByHand, Origins
<1>2. CASE start
  <2>1. live' = NoSession /\ main'.stage = "none" /\ Unlocked' /\ \A p \in Places : ~Busy(p)'
    BY <1>2 DEF start, Open, Fresh, Idle, Unlocked, Busy, Vacant, Due, NoAttempt
  <2> QED BY <2>1
          DEF Origins, KeyIsAllThatChanges, StoredNameIsThere, AttemptsAreBacked, LiveIsBacked
<1> QED BY <1>1, <1>2

\* Where no launch switch is given, the saved connection that a session says it
\* was started from is there: use_profile, save_connection, rename_connection and
\* forget_connection under their two locks, with attempts and failures between,
\* unless the window was loaded again while the session was being connected.
THEOREM OriginsAreSaved == "launch" \notin Places => (Spec => []OriginIsSaved)
<1> SUFFICES ASSUME "launch" \notin Places PROVE Spec => []OriginIsSaved
  OBVIOUS
<1>1. Init => Origins
  BY DEF Init, SettingsInit, Origins
<1>2. Held /\ Origins /\ [Next]_vars => Origins'
  <2> SUFFICES ASSUME Held, Origins, [Next]_vars PROVE Origins'
    OBVIOUS
  <2>1. CASE Next
    BY <2>1, OriginsBySteps, OriginsByTheWindow, OriginsByReload, OriginsByCommands, OriginsByWrites,
       OriginsByRestarts DEF Next
  <2>2. CASE UNCHANGED vars
    BY <2>2 DEF vars, settingsVars, serviceVars, Origins, KeyIsAllThatChanges, StoredNameIsThere,
                AttemptsAreBacked, LiveIsBacked, Backed, Changing, Unlocked, Called, Busy
  <2> QED BY <2>1, <2>2
<1>3. Origins => OriginIsSaved
  BY DEF Origins, LiveIsBacked, OriginIsSaved, Changing, Backed, remembered, Idle
<1> QED BY <1>1, <1>2, <1>3, TypesHold, PTL DEF Spec
=============================================================================
