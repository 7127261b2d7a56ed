------------------------------ MODULE ConfigStore ------------------------------
(***************************************************************************)
(* The configuration file, what writes it - the threads of the admin       *)
(* server (AdminHandler._save_config) and the installer, which fills in    *)
(* what it detects (wpsd_detect.prefill_config), both by                   *)
(* atomic_write_config - and the router that reads it whenever systemd     *)
(* starts it (load_config, RouterRuntime.__init__).                        *)
(*                                                                         *)
(* One action per system call of a save: every request has a thread of its *)
(* own and nothing locks the file.  A call may fail, and a process may be  *)
(* killed, between any two.  The admin and the installer run as root, the  *)
(* router as pi-star.                                                      *)
(***************************************************************************)
EXTENDS Naturals

CONSTANTS
    Thread,          \* threads of ThreadingHTTPServer, or runs of the installer
    Config,          \* what a request may ask to save, see ConfigAssumption
    Seed,            \* the configuration the installer brings
    InitialText,     \* what the installer may have left in the file
    Absent,          \* there is no such file
    Empty,           \* truncated and not yet written
    Torn,            \* written in part, or by two writers at once
    MayFail,         \* whether calls fail and processes are killed
    MaxSaves         \* bound: no request once the file was replaced so often

Text == Config \cup {Absent, Empty, Torn}

Access    == [mode : {"0640", "0600"}, owner : {"pi-star", "root"}]
Installed == [mode |-> "0640", owner |-> "pi-star"]
Temporary == [mode |-> "0600", owner |-> "root"]

Duplicates(c) == \E r, s \in c.routes : r # s /\ r.dgid = s.dgid

\* AppConfig.validate, as far as the router's start depends on it.
Validates(c) ==
    /\ c.routes # {}
    /\ ~Duplicates(c)
    /\ \E r \in c.routes : r.dgid = c.defaultDgid

HasDefaultRoute(c) == \E r \in c.routes : r.dgid = c.defaultDgid /\ r.enabled

\* config_to_toml escapes quotes and backslashes only: a text with a control
\* character does not parse.
Parses(c) == c.plain

\* load_config does not raise.
Loads(text) == text \in Config /\ Parses(text) /\ Validates(text)

\* What the detected settings are no part of.
SameSettings(c, d) == c.routes = d.routes /\ c.defaultDgid = d.defaultDgid

ASSUME ConfigAssumption ==
    /\ \A c \in Config :
         /\ DOMAIN c = {"routes", "defaultDgid", "plain"}
         /\ \A r \in c.routes : DOMAIN r = {"dgid", "enabled"} /\ r.enabled \in BOOLEAN
         /\ c.plain \in BOOLEAN
    /\ Seed \in Config
    /\ {Absent, Empty, Torn} \cap Config = {}
    /\ Absent # Empty /\ Absent # Torn /\ Empty # Torn

ASSUME InitialAssumption == InitialText \subseteq {c \in Config : Validates(c)} \cup {Absent}

ASSUME BoundAssumption == MaxSaves \in Nat /\ MayFail \in BOOLEAN

VARIABLES
    pc,          \* pc[t]: the next step of t's request, "idle" between requests
    job,         \* job[t]: the configuration t saves and what it does afterwards
    stat,        \* stat[t]: existing_stat, None if there was no file
    source,      \* source[t]: what copy2 read
    file,        \* ysf-bm-router.toml: text and access
    backup,      \* ysf-bm-router.toml.bak
    temp,        \* temp[x]: the temporary file x
    running      \* the version of the file the router runs with, 0 while down

\* History.
VARIABLES
    version,     \* how often the file was replaced, plus one
    landed,      \* landed[t]: the version t's request made, 0 before
    answer,      \* answer[t]: the last answer t gave
    alone,       \* alone[t]: no other save has overlapped the one t is at
    undisturbed  \* no two saves overlapped and none was cut short

store   == <<file, backup, temp>>
history == <<version, landed, answer, alone, undisturbed>>
vars    == <<pc, job, stat, source, store, running, history>>

None  == [mode |-> "none", owner |-> "none"]
NoJob == [config |-> Absent, after |-> "nothing"]

Down == 0

\* t is a run of the installer.
Installs(t) == job[t].after = "own"

\* Between existing_stat and the last chown; the installer has read the file
\* before that.
Writing(t) ==
    \/ pc[t] \in {"backup", "copy", "temp", "write", "replace", "chmod", "chown"}
    \/ pc[t] = "stat" /\ Installs(t)

\* Some thread has replaced the file and not yet given it back its access.
Restoring(t) == pc[t] \in {"chmod", "chown"}

TypeOK ==
    /\ pc \in [Thread -> {"idle", "stat", "backup", "copy", "temp", "write", "replace",
                          "chmod", "chown", "saved"}]
    /\ job \in [Thread -> [config : Config \cup {Absent},
                       after : {"nothing", "restart", "own"}]]
    /\ stat \in [Thread -> Access \cup {None}]
    /\ source \in [Thread -> Text]
    /\ file \in [text : Text, access : Access]
    /\ backup \in Text
    /\ temp \in [Thread -> Text]
    /\ running \in Nat
    /\ version \in Nat \ {0}
    /\ landed \in [Thread -> Nat]
    /\ answer \in [Thread -> {"none", "refused", "failed", "saved", "applied"}]
    /\ alone \in [Thread -> BOOLEAN]
    /\ undisturbed \in BOOLEAN

\* The installer leaves a configuration that pi-star owns, or none.
Init ==
    /\ pc = [t \in Thread |-> "idle"]
    /\ job = [t \in Thread |-> NoJob]
    /\ stat = [t \in Thread |-> None]
    /\ source = [t \in Thread |-> Absent]
    /\ \E text \in InitialText : file = [text |-> text, access |-> Installed]
    /\ backup = Absent
    /\ temp = [t \in Thread |-> Absent]
    /\ running = Down
    /\ version = 1
    /\ landed = [t \in Thread |-> 0]
    /\ answer = [t \in Thread |-> "none"]
    /\ alone = [t \in Thread |-> FALSE]
    /\ undisturbed = (file.text # Absent)

Goto(t, from, to) == pc[t] = from /\ pc' = [pc EXCEPT ![t] = to]

\* Some end, and with them what they knew.
End(threads) ==
    /\ pc' = [t \in Thread |-> IF t \in threads THEN "idle" ELSE pc[t]]
    /\ job' = [t \in Thread |-> IF t \in threads THEN NoJob ELSE job[t]]
    /\ stat' = [t \in Thread |-> IF t \in threads THEN None ELSE stat[t]]
    /\ source' = [t \in Thread |-> IF t \in threads THEN Absent ELSE source[t]]

\* The history of t's save, when it begins: it ends that of any other under way
\* as the only one.
Begins(t) ==
    LET free == \A u \in Thread : u # t => ~Writing(u)
    IN  /\ alone' = [u \in Thread |-> u = t /\ free]
        /\ undisturbed' = (undisturbed /\ free)

-----------------------------------------------------------------------------

\* A wrong Request: nothing is validated.
RequestUnvalidated(t, c, after) ==
    /\ version <= MaxSaves
    /\ pc[t] = "idle"
    /\ pc' = [pc EXCEPT ![t] = "stat"]
    /\ job' = [job EXCEPT ![t] = [config |-> c, after |-> after]]
    /\ answer' = [answer EXCEPT ![t] = "none"]
    /\ landed' = [landed EXCEPT ![t] = 0]
    /\ UNCHANGED <<stat, source, store, running, version, alone, undisturbed>>

\* A POST of a configuration: refused, or on its way to the file.
Request(t, c, after) ==
    /\ version <= MaxSaves
    /\ pc[t] = "idle"
    /\ IF Validates(c)
       THEN /\ pc' = [pc EXCEPT ![t] = "stat"]
            /\ job' = [job EXCEPT ![t] = [config |-> c, after |-> after]]
            /\ answer' = [answer EXCEPT ![t] = "none"]
       ELSE /\ answer' = [answer EXCEPT ![t] = "refused"]
            /\ UNCHANGED <<pc, job>>
    /\ landed' = [landed EXCEPT ![t] = 0]
    /\ UNCHANGED <<stat, source, store, running, version, alone, undisturbed>>

\* apply_detected_settings: the settings are as they were, but a detected value
\* may have more than one line.
Prefilled(c) == {d \in Config : SameSettings(c, d)}

\* A wrong Prefill: an existing file is not looked at.
PrefillSeed(t) ==
    /\ version <= MaxSaves
    /\ pc[t] = "idle"
    /\ pc' = [pc EXCEPT ![t] = "stat"]
    /\ \E c \in Prefilled(Seed) : job' = [job EXCEPT ![t] = [config |-> c, after |-> "own"]]
    /\ answer' = [answer EXCEPT ![t] = "none"]
    /\ Begins(t)
    /\ landed' = [landed EXCEPT ![t] = 0]
    /\ UNCHANGED <<stat, source, store, running, version>>

\* The installer reads the file, or the one it brings if there is none, and is on
\* its way to write it.
Prefill(t) ==
    /\ version <= MaxSaves
    /\ pc[t] = "idle"
    /\ LET text == IF file.text = Absent THEN Seed ELSE file.text
       IN  \/ /\ Loads(text)
              /\ pc' = [pc EXCEPT ![t] = "stat"]
              /\ \E c \in Prefilled(text) :
                   job' = [job EXCEPT ![t] = [config |-> c, after |-> "own"]]
              /\ answer' = [answer EXCEPT ![t] = "none"]
              /\ Begins(t)
           \/ /\ ~Loads(text)
              /\ answer' = [answer EXCEPT ![t] = "failed"]
              /\ UNCHANGED <<pc, job, alone, undisturbed>>
    /\ landed' = [landed EXCEPT ![t] = 0]
    /\ UNCHANGED <<stat, source, store, running, version>>

\* existing_stat.
Stat(t) ==
    /\ Goto(t, "stat", "backup")
    /\ stat' = [stat EXCEPT ![t] = IF file.text = Absent THEN None ELSE file.access]
    /\ IF Installs(t) THEN UNCHANGED <<alone, undisturbed>> ELSE Begins(t)
    /\ UNCHANGED <<job, source, store, running, version, landed, answer>>

\* A wrong OpenBackup: the first backup is kept for ever.
OpenBackupOnce(t) ==
    /\ \/ /\ backup # Absent \/ file.text = Absent
          /\ Goto(t, "backup", "temp")
          /\ UNCHANGED <<source, backup>>
       \/ /\ backup = Absent /\ file.text # Absent
          /\ Goto(t, "backup", "copy")
          /\ source' = [source EXCEPT ![t] = file.text]
          /\ backup' = Empty
    /\ UNCHANGED <<job, stat, file, temp, running, history>>

\* Whether there is a file is asked again; if so, copy2 opens it, then truncates
\* the backup ...
OpenBackup(t) ==
    /\ \/ /\ file.text = Absent
          /\ Goto(t, "backup", "temp")
          /\ UNCHANGED <<source, backup>>
       \/ /\ file.text # Absent
          /\ Goto(t, "backup", "copy")
          /\ source' = [source EXCEPT ![t] = file.text]
          /\ backup' = Empty
    /\ UNCHANGED <<job, stat, file, temp, running, history>>

\* Writing whole text over what is there; over another writer's text the end of
\* the longer one may stay.
Overwritten(old, new) == IF old \in {Absent, Empty, new} THEN {new} ELSE {new, Torn}

\* ... and copies.
CopyBackup(t) ==
    /\ Goto(t, "copy", "temp")
    /\ backup' \in Overwritten(backup, source[t])
    /\ UNCHANGED <<job, stat, source, file, temp, running, history>>

\* A wrong TempOf: one temporary name for all.
TempOfShared(t) == CHOOSE u \in Thread : TRUE

\* mkstemp: a name nobody else has.
TempOf(t) == t

MakeTemp(t) ==
    /\ Goto(t, "temp", "write")
    /\ temp' = [temp EXCEPT ![TempOf(t)] = Empty]
    /\ UNCHANGED <<job, stat, source, file, backup, running, history>>

WriteTemp(t) ==
    /\ Goto(t, "write", "replace")
    /\ \E text \in Overwritten(temp[TempOf(t)], job[t].config) :
         temp' = [temp EXCEPT ![TempOf(t)] = text]
    /\ UNCHANGED <<job, stat, source, file, backup, running, history>>

\* os.replace: the file is the temporary one, access included.
Replace(t) ==
    /\ Goto(t, "replace", IF stat[t] = None THEN "saved" ELSE "chmod")
    /\ file' = [text |-> temp[TempOf(t)], access |-> Temporary]
    /\ temp' = [temp EXCEPT ![TempOf(t)] = Absent]
    /\ version' = version + 1
    /\ landed' = [landed EXCEPT ![t] = version']
    /\ UNCHANGED <<job, stat, source, backup, running, answer, alone, undisturbed>>

Chmod(t) ==
    /\ Goto(t, "chmod", "chown")
    /\ file' = [file EXCEPT !.access.mode = stat[t].mode]
    /\ UNCHANGED <<job, stat, source, backup, temp, running, history>>

\* A wrong Chown: the owner of the temporary file is kept.
ChownForgotten(t) ==
    /\ Goto(t, "chown", "saved")
    /\ UNCHANGED <<job, stat, source, store, running, history>>

Chown(t) ==
    /\ Goto(t, "chown", "saved")
    /\ file' = [file EXCEPT !.access.owner = stat[t].owner]
    /\ UNCHANGED <<job, stat, source, backup, temp, running, history>>

\* A wrong Answer: "systemctl start", which leaves a running router alone.
AnswerStarting(t) ==
    /\ pc[t] = "saved"
    /\ End({t})
    /\ ~Installs(t)
    /\ answer' = [answer EXCEPT ![t] = IF job[t].after = "restart" THEN "applied" ELSE "saved"]
    /\ UNCHANGED <<store, running, version, landed, alone, undisturbed>>

\* The answer, after "systemctl restart" if the request asked for one; that
\* call may fail too.
Answer(t) ==
    /\ pc[t] = "saved"
    /\ End({t})
    /\ \/ /\ job[t].after = "nothing"
          /\ answer' = [answer EXCEPT ![t] = "saved"]
          /\ UNCHANGED running
       \/ /\ job[t].after = "restart"
          /\ answer' = [answer EXCEPT ![t] = "applied"]
          /\ running' = Down
       \/ /\ job[t].after = "restart" /\ MayFail
          /\ answer' = [answer EXCEPT ![t] = "failed"]
          /\ UNCHANGED running
    /\ UNCHANGED <<store, version, landed, alone, undisturbed>>

\* install.sh gives the file to pi-star; it goes on if it cannot.
Own(t) ==
    /\ pc[t] = "saved"
    /\ End({t})
    /\ Installs(t)
    /\ \/ file' = [file EXCEPT !.access.owner = "pi-star"]
       \/ MayFail /\ UNCHANGED file
    /\ answer' = [answer EXCEPT ![t] = "saved"]
    /\ UNCHANGED <<backup, temp, running, version, landed, alone, undisturbed>>

\* What an interrupted copy leaves of the backup.
Interrupted(copying) == IF copying THEN {backup, Torn} ELSE {backup}

\* A call raises: the temporary file, if it still has its name, is unlinked, and
\* the request answered with an error, whether or not the file was replaced.
Fail(t) ==
    /\ MayFail
    /\ pc[t] \in {"stat", "backup", "copy", "temp", "write", "replace", "chmod", "chown"}
    /\ End({t})
    /\ answer' = [answer EXCEPT ![t] = "failed"]
    /\ temp' = IF pc[t] \in {"write", "replace"} THEN [temp EXCEPT ![TempOf(t)] = Absent]
                                                 ELSE temp
    /\ backup' \in Interrupted(pc[t] = "copy")
    /\ undisturbed' = (undisturbed /\ ~Restoring(t))
    /\ UNCHANGED <<file, running, version, landed, alone>>

\* The admin service is stopped in the middle of anything, as at the end of
\* install.sh, or the installer is.  Temporary files stay behind, but nothing uses
\* their names again.
Kill ==
    /\ MayFail
    /\ \E installer \in BOOLEAN :
         LET killed == {t \in Thread : pc[t] # "idle" /\ Installs(t) = installer}
         IN  /\ killed # {}
             /\ End(killed)
             /\ temp' = [t \in Thread |-> IF t \in killed THEN Absent ELSE temp[t]]
             /\ backup' \in Interrupted(\E t \in killed : pc[t] = "copy")
             /\ undisturbed' = (undisturbed /\ \A t \in killed : ~Restoring(t))
    /\ UNCHANGED <<file, running, version, landed, answer, alone>>

-----------------------------------------------------------------------------

Readable == file.text # Absent /\ file.access.owner = "pi-star"

\* The router gets past load_config and RouterRuntime.__init__.
Starts(text) == Loads(text) /\ HasDefaultRoute(text)

\* systemd starts the router; if that raises, the router stays down until the
\* next try.
StartRouter ==
    /\ running = Down
    /\ running' = IF Readable /\ Starts(file.text) THEN version ELSE Down
    /\ UNCHANGED <<pc, job, stat, source, store, history>>

\* The router stops, or is restarted by hand.
StopRouter ==
    /\ running # Down
    /\ running' = Down
    /\ UNCHANGED <<pc, job, stat, source, store, history>>

Next ==
    \/ \E t \in Thread :
         \/ \E c \in Config, after \in {"nothing", "restart"} : Request(t, c, after)
         \/ Prefill(t)
         \/ Stat(t)
         \/ OpenBackup(t)
         \/ CopyBackup(t)
         \/ MakeTemp(t)
         \/ WriteTemp(t)
         \/ Replace(t)
         \/ Chmod(t)
         \/ Chown(t)
         \/ Answer(t)
         \/ Own(t)
         \/ Fail(t)
    \/ Kill
    \/ StartRouter
    \/ StopRouter

Spec == Init /\ [][Next]_vars

-----------------------------------------------------------------------------

\* The file always holds one whole configuration that passed validation, however
\* saves overlap, fail or are killed: a reader never sees a half-written one.
FileIsConfig ==
    \/ file.text \in {c \in Config : Validates(c)}
    \/ file.text = Absent /\ version = 1

\* A save that was answered with success reached the file, and once an Apply &
\* Restart was, the router runs that version or a later one, or is down, other
\* saves and restarts notwithstanding.
AnswerIsTrue ==
    \A t \in Thread :
        /\ answer[t] \in {"saved", "applied"} => landed[t] # 0
        /\ answer[t] = "applied" => running = Down \/ running >= landed[t]

\* Saves that do not overlap and are not cut short between os.replace and chown
\* leave the file as accessible as the installer left it.  Failures anywhere
\* else do no harm, nor does a save that starts while another restarts the router.
AccessKept == undisturbed /\ (\A t \in Thread : ~Restoring(t)) => file.access = Installed

\* A save that no other overlaps has the text it replaces in the backup by the
\* time it does, whatever the saves before it did: overlapped, failed, or were
\* killed while they copied.
Lands(t) == landed[t] = 0 /\ landed'[t] # 0

BackupIsPrevious ==
    [][\A t \in Thread : alone[t] /\ Lands(t) => backup' = file.text]_vars

\* The installer keeps the routes and the default of the file it replaces, if no
\* save comes between its reading and its writing; else it undoes that save.
InstallKeepsSettings ==
    [][\A t \in Thread :
         alone[t] /\ Lands(t) /\ Installs(t) /\ file.text # Absent
             => SameSettings(file'.text, file.text)]_vars

\* Not so in general.  Two overlapping saves may leave a file the router cannot
\* read: the second takes the access it will restore from the file the first has
\* replaced and not yet restored.
AccessPreserved == (\A t \in Thread : pc[t] = "idle") => file.access.mode = Installed.mode

\* A configuration the admin server accepted starts the router.  It need not:
\* validate asks for the default route to be there, the router for it to be
\* enabled.
AcceptedStarts == version > 1 => Starts(file.text)

-----------------------------------------------------------------------------

\* What makes TypeOK inductive: only an access that was read is given back.
StatWasRead == \A t \in Thread : Restoring(t) => stat[t] # None

\* What makes FileIsConfig inductive: requests in progress were validated, and a
\* temporary file is whole when its turn comes.
RequestsAreValid ==
    \A t \in Thread : pc[t] # "idle" =>
        /\ job[t].config \in Config
        /\ Validates(job[t].config)
        /\ answer[t] = "none"

TempIsWhole ==
    \A t \in Thread :
        /\ pc[t] = "write" => temp[t] = Empty
        /\ pc[t] = "replace" => temp[t] = job[t].config

\* What makes AnswerIsTrue inductive.
VersionsInOrder ==
    /\ running <= version
    /\ \A t \in Thread :
        /\ landed[t] <= version
        /\ pc[t] \in {"chmod", "chown", "saved"} => landed[t] # 0

\* What makes AccessKept inductive: one writer at a time, which gives back the
\* access the file was installed with.
Placed(t) ==
    /\ Writing(t) /\ pc[t] # "stat" => stat[t] = Installed
    /\ pc[t] = "chown" => file.access.mode = Installed.mode

OneWriter ==
    undisturbed =>
        /\ \A t, u \in Thread : Writing(t) /\ Writing(u) => t = u
        /\ file.text # Absent
        /\ \A t \in Thread : Placed(t)

\* What makes BackupIsPrevious and InstallKeepsSettings inductive: where a save
\* stands that no other overlaps.
Steps(t) ==
    /\ \A u \in Thread : u # t => ~Writing(u)
    /\ Installs(t) /\ ~Restoring(t) /\ file.text # Absent
           => SameSettings(job[t].config, file.text)
    /\ pc[t] = "copy" => backup = Empty /\ source[t] = file.text
    /\ pc[t] \in {"temp", "write", "replace"} => backup = file.text

AloneInStep == \A t \in Thread : alone[t] /\ Writing(t) => Steps(t)

BackupHasSource ==
    backup # Absent \/ (\E t \in Thread : pc[t] = "copy") => file.text # Absent

IInv ==
    /\ TypeOK
    /\ FileIsConfig
    /\ AnswerIsTrue
    /\ AccessKept
    /\ StatWasRead
    /\ RequestsAreValid
    /\ TempIsWhole
    /\ VersionsInOrder
    /\ OneWriter
    /\ AloneInStep
    /\ BackupHasSource
=============================================================================
