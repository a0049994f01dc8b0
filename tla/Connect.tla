------------------------------- MODULE Connect -------------------------------
(***************************************************************************)
(* The connect service (crates/acter-core/src/services/connect.rs), the    *)
(* attempts that run it (crates/acter-app/src/controllers/connecting.rs),  *)
(* the questions they ask (services/conversation.rs) and the settings they *)
(* share.  Every command of the window runs on the main thread, one at a   *)
(* time, and every attempt runs on a thread of its own.                    *)
(*                                                                         *)
(* The window starts attempts from three places: the Connect dialog, which *)
(* names a saved connection, the New connection dialog, which does not,    *)
(* and the launch switch, once.  Each place waits for its attempt to end.  *)
(* A window that is reloaded waits for none of them, and they go on.       *)
(***************************************************************************)
EXTENDS Settings

CONSTANTS
  OverSsh,      \* the profiles that sign in to a server
  Savable,      \* the profiles a saved connection can name
  Places,       \* the places of the window that may start an attempt
  MaxAttempts,  \* bound: attempts of one run of the process
  MaxLeft,      \* bound: those begun when the window is loaded again
  MaxTries      \* bound: passwords given in one attempt

ASSUME ConnectAssumption ==
  /\ OverSsh \subseteq Profiles /\ Savable \subseteq Profiles /\ "FarEnd" \in LineOwners
  /\ Places \subseteq {"dialog", "new", "launch"} /\ MaxAttempts \in Nat /\ MaxTries \in Nat
  /\ MaxLeft \in Nat
  /\ "" \notin Names

VARIABLES
  live,           \* the session that is connected
  next,           \* the next session id
  attempts,       \* what each place of the window is attempting
  next_attempt,   \* the next attempt id
  conversations,  \* Connecting::live: the attempts an answer can reach
  main,           \* the command the main thread is in
  shown           \* the session the window shows

serviceVars == <<live, next, attempts, next_attempt, conversations, main, shown>>
vars == <<settingsVars, serviceVars>>

NoName == ""
NoSession == [id |-> 0]
Sessions == [id : Nat, profile : Profiles, origin : Names \cup {NoName},
             line_owner : LineOwners, attempt : Nat, heard : BOOLEAN]

Questions == {"unverified", "host_key", "password", "set_up"}
AttemptStages == {"chosen", "open", "remember", "writing", "auth",
                  "agree", "recall", "mint", "replace", "arrived", "failed"} \cup Questions

Attempts == [stage : AttemptStages, id : Nat, profile : Profiles,
             origin : Names \cup {NoName}, key : Hosts, line_owner : LineOwners,
             session : Nat, tries : Nat,
             heard : BOOLEAN]    \* the window that asked for it is there
NoAttempt == [stage |-> "idle"]
Due == [stage |-> "due"]
Vacant(p) == IF p = "launch" THEN Due ELSE NoAttempt
NewAttempt(id, profile, origin, key) ==
  [stage |-> "chosen", id |-> id, profile |-> profile, origin |-> origin, key |-> key,
   line_owner |-> "FarEnd", session |-> 0, tries |-> 0,
   heard |-> TRUE]

Mains == [op : {"save", "rename", "forget"}, from : Names \cup {NoName},
          to : Names \cup {NoName}, session : Sessions \cup {NoSession},
          stage : {"read", "store", "label"}]
Idle == [stage |-> "none"]
Ready == running /\ main = Idle
Busy(p) == attempts[p].stage \notin {"idle", "due"}
At(p, stage) == running /\ attempts[p].stage = stage
Waits(p) == Busy(p) /\ attempts[p].stage \in Questions
\* Nobody has the id of such an attempt, so its thread waits for good.
Parked(p) == Waits(p) /\ ~attempts[p].heard
Moved(p, stage) == attempts' = [attempts EXCEPT ![p].stage = stage]

-----------------------------------------------------------------------------
(* An attempt: its beginning, and use_profile a step at a time.            *)

origins(p) == IF p = "new" THEN {NoName} ELSE {c.name : c \in document.connections}

begin(p) ==
  /\ Ready /\ Unlocked /\ next_attempt <= MaxAttempts
  /\ attempts[p] = Vacant(p) \/ Parked(p)
  /\ \E profile \in Profiles, origin \in origins(p), key \in Hosts :
       attempts' = [attempts EXCEPT ![p] = NewAttempt(next_attempt, profile, origin, key)]
  /\ conversations' = conversations \cup {next_attempt}
  /\ next_attempt' = next_attempt + 1
  /\ UNCHANGED <<settingsVars, live, next, main, shown>>

\* What an attempt leaves alone while it only moves on.
OnlyMoves ==
  UNCHANGED <<settingsVars, live, next, next_attempt, conversations, main, shown>>

\* Nothing to start, a file to start, or a file nobody vouches for.
chosen(p) ==
  /\ At(p, "chosen")
  /\ \/ Moved(p, "failed") \/ Moved(p, "open")
     \/ attempts[p].profile \notin OverSsh /\ Moved(p, "unverified")
  /\ OnlyMoves

\* The server is reached and shows its key, or the program is started, or not.
check(key) == key \notin document.host_keys
open(p) ==
  /\ At(p, "open") /\ Unlocked
  /\ \/ Moved(p, "failed")
     \/ attempts[p].profile \notin OverSsh /\ Moved(p, "agree")
     \/ /\ attempts[p].profile \in OverSsh
        /\ Moved(p, IF check(attempts[p].key) THEN "host_key" ELSE "auth")
  /\ OnlyMoves

\* An accepted key is written down, and the attempt goes on when it cannot be.
remember(p) ==
  /\ At(p, "remember")
  /\ Change(p, Accepted(document, attempts[p].key))
  /\ Moved(p, "writing")
  /\ UNCHANGED <<live, next, next_attempt, conversations, main, shown>>

\* The server wants nothing, wants a password, or takes none.
authenticate(p) ==
  /\ At(p, "auth")
  /\ \/ Moved(p, "failed") \/ Moved(p, "agree")
     \/ attempts[p].tries < MaxTries /\ Moved(p, "password")
  /\ OnlyMoves

\* A shell with no setup, one declined or one explained before asks nothing.
agreed(p) ==
  /\ At(p, "agree")
  /\ \/ Moved(p, "recall")
     \/ Moved(p, "set_up")
  /\ OnlyMoves

recall(p) ==
  /\ At(p, "recall") /\ Unlocked
  /\ \E owner \in LineOwners :
       /\ IF attempts[p].origin # NoName /\ remembered(attempts[p].origin)
            THEN \E c \in Called(document, attempts[p].origin) : owner = c.line_owner
            ELSE owner = "FarEnd"
       /\ attempts' = [attempts EXCEPT ![p].stage = "mint", ![p].line_owner = owner]
  /\ OnlyMoves

fetch_add(n) == n + 1
mint(p) ==
  /\ At(p, "mint")
  /\ attempts' = [attempts EXCEPT ![p].stage = "replace", ![p].session = next]
  /\ next' = fetch_add(next)
  /\ UNCHANGED <<settingsVars, live, next_attempt, conversations, main, shown>>

Live(a) == [id |-> a.session, profile |-> a.profile, origin |-> a.origin,
            line_owner |-> a.line_owner, attempt |-> a.id, heard |-> a.heard]
replace(p) ==
  /\ At(p, "replace")
  /\ live' = Live(attempts[p])
  /\ Moved(p, "arrived")
  /\ UNCHANGED <<settingsVars, next, next_attempt, conversations, main, shown>>

Steps(p) == \/ chosen(p) \/ open(p) \/ remember(p) \/ authenticate(p) \/ agreed(p)
            \/ recall(p) \/ mint(p) \/ replace(p)

-----------------------------------------------------------------------------
(* The window's side of an attempt: its answers, and its end.              *)

\* The answer is sent to whoever waits in that conversation; any but the one
\* that agrees is giving up, and so is one left over from an earlier question,
\* as the second click of a button whose question is gone.
Agreed(a) ==
  CASE a.stage = "unverified" -> "open"
    [] a.stage = "host_key"   -> "remember"
    [] a.stage = "password"   -> "auth"
    [] a.stage = "set_up"     -> "recall"
GivenUp(a) == IF a.stage = "set_up" THEN "recall" ELSE "failed"

answered(p, stage) ==
  attempts' = [attempts EXCEPT ![p].stage = stage,
                               ![p].tries = IF attempts[p].stage = "password" THEN @ + 1 ELSE @]
take(id) == conversations \ {id}
get(id) == conversations
answer(p) ==
  /\ Ready /\ Waits(p) /\ attempts[p].heard
  /\ IF attempts[p].id \in conversations
       THEN answered(p, Agreed(attempts[p])) \/ answered(p, GivenUp(attempts[p]))
       ELSE UNCHANGED attempts
  /\ conversations' = get(attempts[p].id)
  /\ UNCHANGED <<settingsVars, live, next, next_attempt, main, shown>>

\* The window learns how the attempt ended, shows the session if there is one,
\* and lets the conversation go if it has heard of its id by then.
ended(p) ==
  /\ Ready /\ attempts[p].stage \in {"arrived", "failed"} /\ attempts[p].heard
  /\ shown' = IF attempts[p].stage = "arrived"
                THEN [id |-> attempts[p].session, attempt |-> attempts[p].id]
                ELSE shown
  /\ conversations' \in {conversations, conversations \ {attempts[p].id}}
  /\ attempts' = [attempts EXCEPT ![p] = NoAttempt]
  /\ UNCHANGED <<settingsVars, live, next, next_attempt, main>>

\* The window is loaded again and shows the session there is.  It hears no more
\* of the attempts that go on, and no answer can reach them.
reload ==
  /\ Ready /\ next_attempt <= MaxLeft + 1
  /\ \E p \in Places : Busy(p) /\ attempts[p].heard
  /\ attempts' = [p \in Places |-> IF Busy(p) THEN [attempts[p] EXCEPT !.heard = FALSE]
                                             ELSE Vacant(p)]
  /\ shown' = IF live = NoSession THEN NoSession
                                  ELSE [id |-> live.id, attempt |-> live.attempt]
  /\ UNCHANGED <<settingsVars, live, next, next_attempt, conversations, main>>

\* The thread of such an attempt returns, and its conversation stays.
unheard(p) ==
  /\ running /\ attempts[p].stage \in {"arrived", "failed"} /\ ~attempts[p].heard
  /\ attempts' = [attempts EXCEPT ![p] = Vacant(p)]
  /\ OnlyMoves

-----------------------------------------------------------------------------
(* The commands that change what is saved.  Each reads, stores, and then   *)
(* relabels whatever session is connected by then.                         *)

Command(op, from, to, session, stage) ==
  [op |-> op, from |-> from, to |-> to, session |-> session, stage |-> stage]
Stores(command, new) ==
  /\ main' = command
  /\ Change("main", new)
  /\ UNCHANGED <<live, next, attempts, next_attempt, conversations, shown>>
OnlyCommand ==
  UNCHANGED <<settingsVars, live, next, attempts, next_attempt, conversations, shown>>

\* What a save takes from the session that is connected, under the lock.
save_reads(name) ==
  /\ Ready /\ shown # NoSession /\ live # NoSession
  /\ main' = Command("save", NoName, name, live, "read")
  /\ OnlyCommand

spelled_alike(had, name) == had = name
its_own(had, name) == had # NoName /\ same_name(had, name)
already_exists(session, name) == ~its_own(session.origin, name) /\ remembered(name)
save_stores ==
  /\ running /\ main.stage = "read" /\ Unlocked
  /\ LET session == main.session
     IN IF already_exists(session, main.to) \/ session.profile \notin Savable
          THEN main' = Idle /\ OnlyCommand
          ELSE Stores([main EXCEPT !.stage = "store"],
                 Saved(document, [name |-> main.to, target |-> session.profile,
                                  line_owner |-> session.line_owner]))

\* Renaming and forgetting wait while the Connect dialog is attempting.
Free == "dialog" \in Places => ~(Busy("dialog") /\ attempts["dialog"].heard)
taken(existing, to) == ~same_name(existing, to) /\ remembered(to)
rename_connection(from, to) ==
  /\ Ready /\ Unlocked /\ Free
  /\ remembered(from) /\ ~taken(from, to)
  /\ Stores(Command("rename", from, to, NoSession, "store"), Renamed(document, from, to))

forget_connection(name) ==
  /\ Ready /\ Unlocked /\ Free
  /\ remembered(name)
  /\ Stores(Command("forget", name, NoName, NoSession, "store"), Forgotten(document, name))

\* The second lock: the name is given to, or taken from, whatever is connected now.
labels(session) == main.op = "save" \/ its_own(session.origin, main.from)
relabel ==
  /\ running /\ main.stage = "label"
  /\ live' = IF live # NoSession /\ labels(live) THEN [live EXCEPT !.origin = main.to] ELSE live
  /\ main' = Idle
  /\ UNCHANGED <<settingsVars, next, attempts, next_attempt, conversations, shown>>

-----------------------------------------------------------------------------
(* The write, and whoever waits for it.                                    *)

copy_aside == CopyAside /\ UNCHANGED serviceVars
Returned(command) ==
  /\ IF change.by = "main"
       THEN main' = command /\ UNCHANGED attempts
       ELSE Moved(change.by, "auth") /\ UNCHANGED main
  /\ UNCHANGED <<live, next, next_attempt, conversations, shown>>
persist == Persist /\ Returned([main EXCEPT !.stage = "label"])
could_not == CouldNot /\ Returned(Idle)

-----------------------------------------------------------------------------
(* The window acts on the session it shows, which may be replaced already. *)

set_line_owner(owner) ==
  /\ Ready /\ shown # NoSession
  /\ live' = IF live.id = shown.id THEN [live EXCEPT !.line_owner = owner] ELSE live
  /\ UNCHANGED <<settingsVars, next, attempts, next_attempt, conversations, main, shown>>

-----------------------------------------------------------------------------
(* The process stops, and starts again with what is on disk.               *)

Fresh ==
  /\ live' = NoSession /\ next' = 1 /\ next_attempt' = 1
  /\ conversations' = {} /\ main' = Idle /\ shown' = NoSession
stop ==
  /\ Stop /\ Fresh
  /\ attempts' = [p \in Places |-> NoAttempt]
start ==
  /\ Open /\ Fresh
  /\ attempts' = [p \in Places |-> Vacant(p)]
edited_by_hand == EditedByHand /\ UNCHANGED serviceVars

Init ==
  /\ SettingsInit
  /\ live = NoSession /\ next = 1 /\ next_attempt = 1
  /\ attempts = [p \in Places |-> NoAttempt]
  /\ conversations = {} /\ main = Idle /\ shown = NoSession

Commands ==
  \/ \E name \in Names : save_reads(name) \/ forget_connection(name)
  \/ \E from, to \in Names : rename_connection(from, to)
  \/ save_stores \/ relabel
  \/ \E owner \in LineOwners : set_line_owner(owner)
Next ==
  \/ \E p \in Places : begin(p) \/ Steps(p) \/ answer(p) \/ ended(p) \/ unheard(p)
  \/ reload
  \/ Commands
  \/ copy_aside \/ persist \/ could_not
  \/ stop \/ start \/ edited_by_hand

\* Threads run, and the main thread returns to the window, which hears of what
\* has ended.  Nothing makes the listener answer a question.
Fairness ==
  /\ \A p \in Places : SF_vars(Steps(p) \/ ended(p) \/ unheard(p))
  /\ SF_vars(save_stores \/ relabel)
  /\ WF_vars(copy_aside \/ persist \/ could_not)
Spec == Init /\ [][Next]_vars
FairSpec == Spec /\ Fairness

-----------------------------------------------------------------------------
(* Properties.                                                             *)

TypeOK ==
  /\ file \in Files /\ document \in Documents /\ change \in Changes \cup {NoChange}
  /\ running \in BOOLEAN
  /\ live \in Sessions \cup {NoSession} /\ next \in Nat /\ next_attempt \in Nat
  /\ attempts \in [Places -> Attempts \cup {NoAttempt, Due}]
  /\ main \in Mains \cup {Idle}
  /\ main.stage = "read" => main.op = "save" /\ main.session # NoSession /\ main.to \in Names

\* A restart at any moment, a failed write or a torn one included, reads the
\* document as it is in memory or, during a write, as it was before or is after.
RestartReadsTheDocument ==
  running => ReadBack(file) \in {document} \cup IF Unlocked THEN {} ELSE {change.before}

\* No two saved connections sound the same, in memory or in the file, so a name
\* chosen from the list starts the connection the listener heard.
Distinct(doc) == \A c, d \in doc.connections : same_name(c.name, d.name) => c = d
NamesAreUnique == Distinct(document) /\ Distinct(ReadBack(file))

\* The saved connection a session says it was started from is there, whenever no
\* command is between the store and the session: its attempt kept the dialog in
\* which connections are renamed and forgotten busy, unless the window was loaded
\* again meanwhile.
OriginIsSaved ==
  running /\ main = Idle /\ live # NoSession /\ live.origin # NoName /\ live.heard
    => remembered(live.origin)

\* A session bears only a name it was started from or saved under.
NamedAsSaved ==
  [][running' /\ main.stage = "label" /\ main.op = "save" => live.id = main.session.id]_vars

\* An attempt never comes to a standstill: it ends, or comes to a question that
\* waits, of which an answer of the window is yet to be heard.  Only an attempt
\* whose window was loaded again waits at a question nobody can answer.
CanBeAnswered(p) == Waits(p) /\ attempts[p].heard /\ attempts[p].id \in conversations
EveryAttemptEnds == \A p \in Places : Busy(p) ~> (~Busy(p) \/ CanBeAnswered(p) \/ Parked(p))
=============================================================================
