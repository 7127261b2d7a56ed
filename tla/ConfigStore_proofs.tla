-------------------------- MODULE ConfigStore_proofs --------------------------
(***************************************************************************)
(* Proofs about ConfigStore for any number of threads, any configurations  *)
(* and any number of saves.  The file's content needs only that requests   *)
(* were validated and that a temporary file is whole when it is renamed;   *)
(* its access needs that one save at a time has been under way             *)
(* (OneWriter), the backup and the installer's merge that no other save    *)
(* overlaps the one that writes them (AloneInStep).                        *)
(***************************************************************************)
EXTENDS ConfigStore, TLAPS

\* What the steps below need of the types.
LEMMA Shapes ==
    ASSUME TypeOK
    PROVE  /\ DOMAIN pc = Thread /\ DOMAIN job = Thread /\ DOMAIN stat = Thread
           /\ DOMAIN temp = Thread /\ DOMAIN landed = Thread /\ DOMAIN answer = Thread
           /\ DOMAIN source = Thread
           /\ DOMAIN file = {"text", "access"}
           /\ version \in Nat \ {0} /\ running \in Nat
           /\ \A t \in Thread : landed[t] \in Nat
  BY DEF TypeOK

LEMMA InitIInv == Init => IInv
  <1>. SUFFICES ASSUME Init PROVE IInv
    OBVIOUS
  <1>1. PICK text \in InitialText : file = [text |-> text, access |-> Installed]
    BY DEF Init
  <1>2. text \in Text /\ (text = Absent \/ text \in {c \in Config : Validates(c)})
    BY <1>1, InitialAssumption DEF Text
  <1>3. TypeOK
    BY <1>1, <1>2 DEF Init, TypeOK, Text, Access, Installed, NoJob, Down
  <1>4. FileIsConfig
    BY <1>1, <1>2 DEF Init, FileIsConfig
  <1>5. AnswerIsTrue /\ StatWasRead /\ RequestsAreValid /\ TempIsWhole /\ VersionsInOrder
    BY DEF Init, AnswerIsTrue, StatWasRead, Restoring, RequestsAreValid, TempIsWhole, VersionsInOrder, Down
  <1>6. AccessKept /\ OneWriter
    BY <1>1 DEF Init, AccessKept, OneWriter, Placed, Writing, Installs, NoJob, Restoring
  <1>7. AloneInStep /\ BackupHasSource
    BY DEF Init, AloneInStep, BackupHasSource
  <1>. QED
    BY <1>3, <1>4, <1>5, <1>6, <1>7 DEF IInv

\* What ends is of its type.
LEMMA EndTypes ==
    ASSUME TypeOK, NEW threads \in SUBSET Thread, End(threads)
    PROVE  /\ pc' \in [Thread -> {"idle", "stat", "backup", "copy", "temp", "write", "replace",
                                  "chmod", "chown", "saved"}]
           /\ job' \in [Thread -> [config : Config \cup {Absent},
                                  after : {"nothing", "restart", "own"}]]
           /\ stat' \in [Thread -> Access \cup {None}]
           /\ source' \in [Thread -> Text]
  <1>. NoJob \in [config : Config \cup {Absent}, after : {"nothing", "restart", "own"}]
    BY DEF NoJob
  <1>. QED
    BY DEF TypeOK, End, Text

\* What the installer makes of a text that loads has the settings of that text.
LEMMA PrefillSaves ==
    ASSUME NEW t \in Thread, Prefill(t)
    PROVE  \/ \E c \in Config :
                 /\ Validates(c)
                 /\ file.text # Absent => SameSettings(c, file.text)
                 /\ pc[t] = "idle" /\ pc' = [pc EXCEPT ![t] = "stat"]
                 /\ job' = [job EXCEPT ![t] = [config |-> c, after |-> "own"]]
                 /\ answer' = [answer EXCEPT ![t] = "none"]
                 /\ Begins(t)
           \/ /\ answer' = [answer EXCEPT ![t] = "failed"] /\ pc[t] = "idle"
              /\ UNCHANGED <<pc, job, alone, undisturbed>>
  <1>. DEFINE text == IF file.text = Absent THEN Seed ELSE file.text
  <1>1. CASE Loads(text)
    <2>1. PICK c \in Prefilled(text) : job' = [job EXCEPT ![t] = [config |-> c, after |-> "own"]]
      BY <1>1 DEF Prefill
    <2>2. c \in Config /\ Validates(c) /\ SameSettings(c, text)
      BY <1>1 DEF Prefilled, SameSettings, Loads, Validates, Duplicates
    <2>. QED
      BY <1>1, <2>1, <2>2 DEF Prefill
  <1>2. CASE ~Loads(text)
    BY <1>2 DEF Prefill
  <1>. QED
    BY <1>1, <1>2

\* What the beginning of a save says of the history.
LEMMA BeginsMeans ==
    ASSUME TypeOK, NEW t \in Thread, Begins(t)
    PROVE  /\ alone' \in [Thread -> BOOLEAN] /\ undisturbed' \in BOOLEAN
           /\ undisturbed' => undisturbed /\ \A u \in Thread : u # t => ~Writing(u)
           /\ \A v \in Thread :
                alone'[v] => v = t /\ \A u \in Thread : u # t => ~Writing(u)
  <1>. DEFINE free == \A u \in Thread : u # t => ~Writing(u)
  <1>1. free \in BOOLEAN
    OBVIOUS
  <1>2. alone' = [u \in Thread |-> u = t /\ free] /\ undisturbed' = (undisturbed /\ free)
    BY DEF Begins
  <1>. HIDE DEF free
  <1>3. alone' \in [Thread -> BOOLEAN] /\ \A v \in Thread : alone'[v] => v = t /\ free
    BY <1>1, <1>2
  <1>4. undisturbed' \in BOOLEAN /\ (undisturbed' => undisturbed /\ free)
    BY <1>1, <1>2 DEF TypeOK
  <1>. QED
    BY <1>3, <1>4 DEF free

\* Type correctness, action by action.
LEMMA TypeStep == TypeOK /\ StatWasRead /\ [Next]_vars => TypeOK'
  <1>. SUFFICES ASSUME TypeOK, StatWasRead, [Next]_vars PROVE TypeOK'
    OBVIOUS
  <1>. USE DEF TypeOK, Goto, Text, store, history
  <1>1. ASSUME NEW t \in Thread, NEW c \in Config, NEW after \in {"nothing", "restart"},
               Request(t, c, after)
        PROVE  TypeOK'
    <2>1. pc' \in [Thread -> {"idle", "stat", "backup", "copy", "temp", "write", "replace",
                              "chmod", "chown", "saved"}]
      BY <1>1 DEF Request
    <2>2. job' \in [Thread -> [config : Config \cup {Absent},
                              after : {"nothing", "restart", "own"}]]
      BY <1>1 DEF Request
    <2>3. landed' \in [Thread -> Nat]
          /\ answer' \in [Thread -> {"none", "refused", "failed", "saved", "applied"}]
      BY <1>1 DEF Request
    <2>. QED
      BY <1>1, <2>1, <2>2, <2>3 DEF Request
  <1>2. ASSUME NEW t \in Thread, Prefill(t) PROVE TypeOK'
    <2>1. landed' \in [Thread -> Nat] /\ UNCHANGED <<stat, source, store, running, version>>
      BY <1>2 DEF Prefill
    <2>2. CASE /\ UNCHANGED <<pc, job, alone, undisturbed>>
               /\ answer' = [answer EXCEPT ![t] = "failed"]
      BY <2>1, <2>2
    <2>3. ASSUME NEW c \in Config, pc' = [pc EXCEPT ![t] = "stat"],
                 job' = [job EXCEPT ![t] = [config |-> c, after |-> "own"]],
                 answer' = [answer EXCEPT ![t] = "none"], Begins(t)
          PROVE  TypeOK'
      BY <2>1, <2>3, BeginsMeans
    <2>. QED
      BY <1>2, <2>2, <2>3, PrefillSaves
  <1>3. ASSUME NEW t \in Thread, Stat(t) PROVE TypeOK'
    <2>1. alone' \in [Thread -> BOOLEAN] /\ undisturbed' \in BOOLEAN
      BY <1>3, BeginsMeans DEF Stat
    <2>2. /\ pc' = [pc EXCEPT ![t] = "backup"]
          /\ stat' = [stat EXCEPT ![t] = IF file.text = Absent THEN None ELSE file.access]
          /\ UNCHANGED <<job, source, store, running, version, landed, answer>>
      BY <1>3 DEF Stat
    <2>. QED
      BY <2>1, <2>2
  <1>4. ASSUME NEW t \in Thread, OpenBackup(t) PROVE TypeOK'
    BY <1>4 DEF OpenBackup
  <1>5. ASSUME NEW t \in Thread, CopyBackup(t) PROVE TypeOK'
    BY <1>5 DEF CopyBackup, Overwritten
  <1>6. ASSUME NEW t \in Thread, MakeTemp(t) PROVE TypeOK'
    BY <1>6 DEF MakeTemp, TempOf
  <1>7. ASSUME NEW t \in Thread, WriteTemp(t) PROVE TypeOK'
    BY <1>7 DEF WriteTemp, TempOf, Overwritten
  <1>8. ASSUME NEW t \in Thread, Replace(t) PROVE TypeOK'
    BY <1>8 DEF Replace, TempOf, Temporary, Access
  <1>9. ASSUME NEW t \in Thread, Chmod(t) PROVE TypeOK'
    BY <1>9 DEF Chmod, Access, StatWasRead, Restoring
  <1>10. ASSUME NEW t \in Thread, Chown(t) PROVE TypeOK'
    BY <1>10 DEF Chown, Access, StatWasRead, Restoring
  <1>11. ASSUME NEW t \in Thread, Answer(t) PROVE TypeOK'
    <2>1. running' \in Nat /\ answer' \in [Thread -> {"none", "refused", "failed", "saved", "applied"}]
      <3>1. answer' = [answer EXCEPT ![t] = "saved"] \/ answer' = [answer EXCEPT ![t] = "applied"]
              \/ answer' = [answer EXCEPT ![t] = "failed"]
        BY <1>11 DEF Answer, End
      <3>2. running' = running \/ running' = Down
        BY <1>11 DEF Answer, End
      <3>. QED
        BY <3>1, <3>2 DEF Down
    <2>2. /\ End({t})
          /\ UNCHANGED <<store, version, landed, alone, undisturbed>>
      BY <1>11 DEF Answer
    <2>. QED
      BY <2>1, <2>2, EndTypes
  <1>12. ASSUME NEW t \in Thread, Own(t) PROVE TypeOK'
    <2>0. /\ file' = file \/ file' = [file EXCEPT !.access.owner = "pi-star"]
          /\ UNCHANGED backup
      BY <1>12 DEF Own
    <2>1. file' \in [text : Text, access : Access] /\ backup' \in Text
      BY <2>0 DEF Access
    <2>2. /\ End({t})
          /\ answer' = [answer EXCEPT ![t] = "saved"]
          /\ UNCHANGED <<temp, running, version, landed, alone, undisturbed>>
      BY <1>12 DEF Own
    <2>. QED
      BY <2>1, <2>2, EndTypes
  <1>13. ASSUME NEW t \in Thread, Fail(t) PROVE TypeOK'
    <2>1. temp' \in [Thread -> Text] /\ backup' \in Text
      BY <1>13 DEF Fail, End, TempOf, Interrupted
    <2>2. /\ End({t})
          /\ answer' = [answer EXCEPT ![t] = "failed"]
          /\ undisturbed' \in BOOLEAN
          /\ UNCHANGED <<file, running, version, landed, alone>>
      BY <1>13 DEF Fail
    <2>. QED
      BY <2>1, <2>2, EndTypes
  <1>14. CASE Kill
    <2>1. PICK killed \in SUBSET Thread :
             /\ End(killed)
             /\ temp' = [t \in Thread |-> IF t \in killed THEN Absent ELSE temp[t]]
             /\ backup' \in Interrupted(\E t \in killed : pc[t] = "copy")
             /\ undisturbed' = (undisturbed /\ \A t \in killed : ~Restoring(t))
      BY <1>14 DEF Kill
    <2>2. UNCHANGED <<file, running, version, landed, answer, alone>>
      BY <1>14 DEF Kill
    <2>. QED
      BY <2>1, <2>2, EndTypes DEF Interrupted
  <1>15. CASE StartRouter
    BY <1>15 DEF StartRouter, Down
  <1>16. CASE StopRouter
    BY <1>16 DEF StopRouter, Down
  <1>17. CASE UNCHANGED vars
    BY <1>17 DEF vars
  <1>. QED
    BY <1>1, <1>2, <1>3, <1>4, <1>5, <1>6, <1>7, <1>8, <1>9,
       <1>10, <1>11, <1>12, <1>13, <1>14, <1>15, <1>16, <1>17 DEF Next

\* The access a save gives back was read.
LEMMA StatStep ==
    ASSUME TypeOK, StatWasRead, [Next]_vars
    PROVE  StatWasRead'
  <1>. USE Shapes DEF StatWasRead, Goto, Restoring
  <1>1. ASSUME NEW t \in Thread, NEW c \in Config, NEW after \in {"nothing", "restart"},
               Request(t, c, after)
        PROVE  StatWasRead'
    BY <1>1 DEF Request
  <1>2. ASSUME NEW t \in Thread, Prefill(t) PROVE StatWasRead'
    BY <1>2 DEF Prefill
  <1>3. ASSUME NEW t \in Thread, Stat(t) PROVE StatWasRead'
    BY <1>3 DEF Stat, Access, None
  <1>4. ASSUME NEW t \in Thread, OpenBackup(t) PROVE StatWasRead'
    BY <1>4 DEF OpenBackup
  <1>5. ASSUME NEW t \in Thread, CopyBackup(t) PROVE StatWasRead'
    BY <1>5 DEF CopyBackup
  <1>6. ASSUME NEW t \in Thread, MakeTemp(t) PROVE StatWasRead'
    BY <1>6 DEF MakeTemp
  <1>7. ASSUME NEW t \in Thread, WriteTemp(t) PROVE StatWasRead'
    BY <1>7 DEF WriteTemp
  <1>8. ASSUME NEW t \in Thread, Replace(t) PROVE StatWasRead'
    BY <1>8 DEF Replace
  <1>9. ASSUME NEW t \in Thread, Chmod(t) PROVE StatWasRead'
    BY <1>9 DEF Chmod
  <1>10. ASSUME NEW t \in Thread, Chown(t) PROVE StatWasRead'
    BY <1>10 DEF Chown
  <1>11. ASSUME NEW t \in Thread, Answer(t) PROVE StatWasRead'
    BY <1>11 DEF Answer, End
  <1>12. ASSUME NEW t \in Thread, Own(t) PROVE StatWasRead'
    BY <1>12 DEF Own, End
  <1>13. ASSUME NEW t \in Thread, Fail(t) PROVE StatWasRead'
    BY <1>13 DEF Fail, End
  <1>14. CASE Kill
    BY <1>14 DEF Kill, End
  <1>15. CASE StartRouter
    BY <1>15 DEF StartRouter
  <1>16. CASE StopRouter
    BY <1>16 DEF StopRouter
  <1>17. CASE UNCHANGED vars
    BY <1>17 DEF vars
  <1>. QED
    BY <1>1, <1>2, <1>3, <1>4, <1>5, <1>6, <1>7, <1>8, <1>9,
       <1>10, <1>11, <1>12, <1>13, <1>14, <1>15, <1>16, <1>17 DEF Next

\* Requests in progress were validated and have no answer yet.
LEMMA RequestStep ==
    ASSUME TypeOK, RequestsAreValid, [Next]_vars
    PROVE  RequestsAreValid'
  <1>. USE Shapes DEF RequestsAreValid, Goto, history
  <1>1. ASSUME NEW t \in Thread, NEW c \in Config, NEW after \in {"nothing", "restart"},
               Request(t, c, after)
        PROVE  RequestsAreValid'
    BY <1>1 DEF Request
  <1>2. ASSUME NEW t \in Thread, Prefill(t) PROVE RequestsAreValid'
    <2>1. CASE UNCHANGED <<pc, job>> /\ answer' = [answer EXCEPT ![t] = "failed"] /\ pc[t] = "idle"
      BY <2>1
    <2>2. ASSUME NEW c \in Config, Validates(c), pc' = [pc EXCEPT ![t] = "stat"],
                 job' = [job EXCEPT ![t] = [config |-> c, after |-> "own"]],
                 answer' = [answer EXCEPT ![t] = "none"]
          PROVE  RequestsAreValid'
      BY <2>2
    <2>. QED
      BY <1>2, <2>1, <2>2, PrefillSaves
  <1>3. ASSUME NEW t \in Thread, Stat(t) PROVE RequestsAreValid'
    BY <1>3 DEF Stat
  <1>4. ASSUME NEW t \in Thread, OpenBackup(t) PROVE RequestsAreValid'
    BY <1>4 DEF OpenBackup
  <1>5. ASSUME NEW t \in Thread, CopyBackup(t) PROVE RequestsAreValid'
    BY <1>5 DEF CopyBackup
  <1>6. ASSUME NEW t \in Thread, MakeTemp(t) PROVE RequestsAreValid'
    BY <1>6 DEF MakeTemp
  <1>7. ASSUME NEW t \in Thread, WriteTemp(t) PROVE RequestsAreValid'
    BY <1>7 DEF WriteTemp
  <1>8. ASSUME NEW t \in Thread, Replace(t) PROVE RequestsAreValid'
    BY <1>8 DEF Replace
  <1>9. ASSUME NEW t \in Thread, Chmod(t) PROVE RequestsAreValid'
    BY <1>9 DEF Chmod
  <1>10. ASSUME NEW t \in Thread, Chown(t) PROVE RequestsAreValid'
    BY <1>10 DEF Chown
  <1>11. ASSUME NEW t \in Thread, Answer(t) PROVE RequestsAreValid'
    BY <1>11 DEF Answer, End
  <1>12. ASSUME NEW t \in Thread, Own(t) PROVE RequestsAreValid'
    BY <1>12 DEF Own, End
  <1>13. ASSUME NEW t \in Thread, Fail(t) PROVE RequestsAreValid'
    BY <1>13 DEF Fail, End
  <1>14. CASE Kill
    BY <1>14 DEF Kill, End
  <1>15. CASE StartRouter
    BY <1>15 DEF StartRouter
  <1>16. CASE StopRouter
    BY <1>16 DEF StopRouter
  <1>17. CASE UNCHANGED vars
    BY <1>17 DEF vars
  <1>. QED
    BY <1>1, <1>2, <1>3, <1>4, <1>5, <1>6, <1>7, <1>8, <1>9,
       <1>10, <1>11, <1>12, <1>13, <1>14, <1>15, <1>16, <1>17 DEF Next

\* A temporary file is whole when its turn comes: its name is the thread's own.
LEMMA TempStep ==
    ASSUME TypeOK, TempIsWhole, [Next]_vars
    PROVE  TempIsWhole'
  <1>. USE Shapes DEF TempIsWhole, Goto, TempOf, store
  <1>1. ASSUME NEW t \in Thread, NEW c \in Config, NEW after \in {"nothing", "restart"},
               Request(t, c, after)
        PROVE  TempIsWhole'
    BY <1>1 DEF Request
  <1>2. ASSUME NEW t \in Thread, Prefill(t) PROVE TempIsWhole'
    BY <1>2 DEF Prefill
  <1>3. ASSUME NEW t \in Thread, Stat(t) PROVE TempIsWhole'
    BY <1>3 DEF Stat
  <1>4. ASSUME NEW t \in Thread, OpenBackup(t) PROVE TempIsWhole'
    BY <1>4 DEF OpenBackup
  <1>5. ASSUME NEW t \in Thread, CopyBackup(t) PROVE TempIsWhole'
    BY <1>5 DEF CopyBackup
  <1>6. ASSUME NEW t \in Thread, MakeTemp(t) PROVE TempIsWhole'
    BY <1>6 DEF MakeTemp
  <1>7. ASSUME NEW t \in Thread, WriteTemp(t) PROVE TempIsWhole'
    BY <1>7 DEF WriteTemp, Overwritten
  <1>8. ASSUME NEW t \in Thread, Replace(t) PROVE TempIsWhole'
    BY <1>8 DEF Replace
  <1>9. ASSUME NEW t \in Thread, Chmod(t) PROVE TempIsWhole'
    BY <1>9 DEF Chmod
  <1>10. ASSUME NEW t \in Thread, Chown(t) PROVE TempIsWhole'
    BY <1>10 DEF Chown
  <1>11. ASSUME NEW t \in Thread, Answer(t) PROVE TempIsWhole'
    BY <1>11 DEF Answer, End
  <1>12. ASSUME NEW t \in Thread, Own(t) PROVE TempIsWhole'
    BY <1>12 DEF Own, End
  <1>13. ASSUME NEW t \in Thread, Fail(t) PROVE TempIsWhole'
    BY <1>13 DEF Fail, End
  <1>14. CASE Kill
    BY <1>14 DEF Kill, End
  <1>15. CASE StartRouter
    BY <1>15 DEF StartRouter
  <1>16. CASE StopRouter
    BY <1>16 DEF StopRouter
  <1>17. CASE UNCHANGED vars
    BY <1>17 DEF vars
  <1>. QED
    BY <1>1, <1>2, <1>3, <1>4, <1>5, <1>6, <1>7, <1>8, <1>9,
       <1>10, <1>11, <1>12, <1>13, <1>14, <1>15, <1>16, <1>17 DEF Next

\* Only Replace changes the text, to that of a whole temporary file.
LEMMA FileStep ==
    ASSUME TypeOK, RequestsAreValid, TempIsWhole, FileIsConfig, [Next]_vars
    PROVE  FileIsConfig'
  <1>. USE Shapes DEF FileIsConfig, store, history, Goto
  <1>1. ASSUME NEW t \in Thread, NEW c \in Config, NEW after \in {"nothing", "restart"},
               Request(t, c, after)
        PROVE  FileIsConfig'
    BY <1>1 DEF Request
  <1>2. ASSUME NEW t \in Thread, Prefill(t) PROVE FileIsConfig'
    BY <1>2 DEF Prefill
  <1>3. ASSUME NEW t \in Thread, Stat(t) PROVE FileIsConfig'
    BY <1>3 DEF Stat
  <1>4. ASSUME NEW t \in Thread, OpenBackup(t) PROVE FileIsConfig'
    BY <1>4 DEF OpenBackup
  <1>5. ASSUME NEW t \in Thread, CopyBackup(t) PROVE FileIsConfig'
    BY <1>5 DEF CopyBackup
  <1>6. ASSUME NEW t \in Thread, MakeTemp(t) PROVE FileIsConfig'
    BY <1>6 DEF MakeTemp
  <1>7. ASSUME NEW t \in Thread, WriteTemp(t) PROVE FileIsConfig'
    BY <1>7 DEF WriteTemp
  <1>8. ASSUME NEW t \in Thread, Replace(t) PROVE FileIsConfig'
    BY <1>8 DEF Replace, TempOf, RequestsAreValid, TempIsWhole
  <1>9. ASSUME NEW t \in Thread, Chmod(t) PROVE FileIsConfig'
    BY <1>9 DEF Chmod
  <1>10. ASSUME NEW t \in Thread, Chown(t) PROVE FileIsConfig'
    BY <1>10 DEF Chown
  <1>11. ASSUME NEW t \in Thread, Answer(t) PROVE FileIsConfig'
    BY <1>11 DEF Answer, End
  <1>12. ASSUME NEW t \in Thread, Own(t) PROVE FileIsConfig'
    BY <1>12 DEF Own, End
  <1>13. ASSUME NEW t \in Thread, Fail(t) PROVE FileIsConfig'
    BY <1>13 DEF Fail, End
  <1>14. CASE Kill
    BY <1>14 DEF Kill, End
  <1>15. CASE StartRouter
    BY <1>15 DEF StartRouter
  <1>16. CASE StopRouter
    BY <1>16 DEF StopRouter
  <1>17. CASE UNCHANGED vars
    BY <1>17 DEF vars
  <1>. QED
    BY <1>1, <1>2, <1>3, <1>4, <1>5, <1>6, <1>7, <1>8, <1>9,
       <1>10, <1>11, <1>12, <1>13, <1>14, <1>15, <1>16, <1>17 DEF Next

\* Versions only grow, and the router starts with the last.
LEMMA VersionStep ==
    ASSUME TypeOK, VersionsInOrder, [Next]_vars
    PROVE  VersionsInOrder'
  <1>. USE Shapes DEF VersionsInOrder, Goto, history, Down
  <1>1. ASSUME NEW t \in Thread, NEW c \in Config, NEW after \in {"nothing", "restart"},
               Request(t, c, after)
        PROVE  VersionsInOrder'
    BY <1>1 DEF Request
  <1>2. ASSUME NEW t \in Thread, Prefill(t) PROVE VersionsInOrder'
    BY <1>2 DEF Prefill
  <1>3. ASSUME NEW t \in Thread, Stat(t) PROVE VersionsInOrder'
    BY <1>3 DEF Stat
  <1>4. ASSUME NEW t \in Thread, OpenBackup(t) PROVE VersionsInOrder'
    BY <1>4 DEF OpenBackup
  <1>5. ASSUME NEW t \in Thread, CopyBackup(t) PROVE VersionsInOrder'
    BY <1>5 DEF CopyBackup
  <1>6. ASSUME NEW t \in Thread, MakeTemp(t) PROVE VersionsInOrder'
    BY <1>6 DEF MakeTemp
  <1>7. ASSUME NEW t \in Thread, WriteTemp(t) PROVE VersionsInOrder'
    BY <1>7 DEF WriteTemp
  <1>8. ASSUME NEW t \in Thread, Replace(t) PROVE VersionsInOrder'
    BY <1>8 DEF Replace
  <1>9. ASSUME NEW t \in Thread, Chmod(t) PROVE VersionsInOrder'
    BY <1>9 DEF Chmod
  <1>10. ASSUME NEW t \in Thread, Chown(t) PROVE VersionsInOrder'
    BY <1>10 DEF Chown
  <1>11. ASSUME NEW t \in Thread, Answer(t) PROVE VersionsInOrder'
    BY <1>11 DEF Answer, End
  <1>12. ASSUME NEW t \in Thread, Own(t) PROVE VersionsInOrder'
    BY <1>12 DEF Own, End
  <1>13. ASSUME NEW t \in Thread, Fail(t) PROVE VersionsInOrder'
    BY <1>13 DEF Fail, End
  <1>14. CASE Kill
    BY <1>14 DEF Kill, End
  <1>15. CASE StartRouter
    BY <1>15 DEF StartRouter
  <1>16. CASE StopRouter
    BY <1>16 DEF StopRouter
  <1>17. CASE UNCHANGED vars
    BY <1>17 DEF vars
  <1>. QED
    BY <1>1, <1>2, <1>3, <1>4, <1>5, <1>6, <1>7, <1>8, <1>9,
       <1>10, <1>11, <1>12, <1>13, <1>14, <1>15, <1>16, <1>17 DEF Next

\* Answers stay true.
LEMMA AnswerStep ==
    ASSUME TypeOK, RequestsAreValid, VersionsInOrder, AnswerIsTrue, [Next]_vars
    PROVE  AnswerIsTrue'
  <1>. USE Shapes DEF AnswerIsTrue, Goto, history, Down
  <1>1. ASSUME NEW t \in Thread, NEW c \in Config, NEW after \in {"nothing", "restart"},
               Request(t, c, after)
        PROVE  AnswerIsTrue'
    BY <1>1 DEF Request
  <1>2. ASSUME NEW t \in Thread, Prefill(t) PROVE AnswerIsTrue'
    BY <1>2 DEF Prefill
  <1>3. ASSUME NEW t \in Thread, Stat(t) PROVE AnswerIsTrue'
    BY <1>3 DEF Stat
  <1>4. ASSUME NEW t \in Thread, OpenBackup(t) PROVE AnswerIsTrue'
    BY <1>4 DEF OpenBackup
  <1>5. ASSUME NEW t \in Thread, CopyBackup(t) PROVE AnswerIsTrue'
    BY <1>5 DEF CopyBackup
  <1>6. ASSUME NEW t \in Thread, MakeTemp(t) PROVE AnswerIsTrue'
    BY <1>6 DEF MakeTemp
  <1>7. ASSUME NEW t \in Thread, WriteTemp(t) PROVE AnswerIsTrue'
    BY <1>7 DEF WriteTemp
  <1>8. ASSUME NEW t \in Thread, Replace(t) PROVE AnswerIsTrue'
    BY <1>8 DEF Replace, RequestsAreValid
  <1>9. ASSUME NEW t \in Thread, Chmod(t) PROVE AnswerIsTrue'
    BY <1>9 DEF Chmod
  <1>10. ASSUME NEW t \in Thread, Chown(t) PROVE AnswerIsTrue'
    BY <1>10 DEF Chown
  <1>11. ASSUME NEW t \in Thread, Answer(t) PROVE AnswerIsTrue'
    BY <1>11 DEF Answer, End, VersionsInOrder
  <1>12. ASSUME NEW t \in Thread, Own(t) PROVE AnswerIsTrue'
    BY <1>12 DEF Own, End, VersionsInOrder
  <1>13. ASSUME NEW t \in Thread, Fail(t) PROVE AnswerIsTrue'
    BY <1>13 DEF Fail, End
  <1>14. CASE Kill
    BY <1>14 DEF Kill, End
  <1>15. CASE StartRouter
    BY <1>15 DEF StartRouter, VersionsInOrder
  <1>16. CASE StopRouter
    BY <1>16 DEF StopRouter
  <1>17. CASE UNCHANGED vars
    BY <1>17 DEF vars
  <1>. QED
    BY <1>1, <1>2, <1>3, <1>4, <1>5, <1>6, <1>7, <1>8, <1>9,
       <1>10, <1>11, <1>12, <1>13, <1>14, <1>15, <1>16, <1>17 DEF Next

\* What any step leaves of the history while no save overlaps or is cut short.
LEMMA UndisturbedBefore ==
    ASSUME TypeOK, [Next]_vars, undisturbed'
    PROVE  undisturbed
  BY DEF TypeOK, Next, Request, Prefill, Stat, Begins, OpenBackup, CopyBackup, MakeTemp, WriteTemp, Replace, Chmod,
         Chown, Answer, Own, Fail, Kill, StartRouter, StopRouter, history, vars

\* A thread that is no writer stands nowhere.
LEMMA Unplaced ==
    ASSUME NEW t \in Thread, ~Writing(t)
    PROVE  Placed(t) /\ ~Restoring(t)
  BY DEF Placed, Writing, Restoring

LEMMA UnplacedNext ==
    ASSUME NEW t \in Thread, ~Writing(t)'
    PROVE  Placed(t)' /\ ~Restoring(t)'
  BY DEF Placed, Writing, Restoring

\* While one thread writes, no other does, and none begins to.
LEMMA Alone ==
    ASSUME OneWriter, undisturbed, NEW t \in Thread, Writing(t),
           \A u \in Thread : u # t => pc'[u] = pc[u] /\ job'[u] = job[u]
    PROVE  \A u \in Thread : u # t => ~Writing(u)'
  <1>. TAKE u \in Thread
  <1>. HAVE u # t
  <1>1. ~Writing(u)
    BY DEF OneWriter
  <1>. QED
    BY <1>1 DEF Writing, Installs

\* So it is enough to look at that one.
LEMMA AloneSuffices ==
    ASSUME NEW t \in Thread, \A u \in Thread : u # t => ~Writing(u)',
           Placed(t)', file'.text # Absent, Restoring(t)' \/ file'.access = Installed
    PROVE  OneWriter' /\ AccessKept'
  BY UnplacedNext DEF OneWriter, AccessKept

\* A step of the thread that writes which leaves the file alone.
LEMMA WriterMoves ==
    ASSUME TypeOK, OneWriter, AccessKept, undisturbed,
           NEW t \in Thread, Writing(t), ~Restoring(t),
           \A u \in Thread : u # t => pc'[u] = pc[u] /\ job'[u] = job[u],
           file' = file, Placed(t)'
    PROVE  OneWriter' /\ AccessKept'
  <1>1. \A u \in Thread : u # t => ~Writing(u)'
    BY Alone
  <1>2. \A u \in Thread : ~Restoring(u)
    BY DEF OneWriter, Writing, Restoring
  <1>3. file.access = Installed /\ file.text # Absent
    BY <1>2 DEF AccessKept, OneWriter
  <1>. QED
    BY <1>1, <1>3, AloneSuffices

\* Some end, none of them before the file is as it was.
LEMMA WritersEnd ==
    ASSUME TypeOK, OneWriter, AccessKept, undisturbed, NEW threads \in SUBSET Thread, End(threads),
           \A t \in threads : ~Restoring(t),
           file'.text = file.text, file'.access.mode = file.access.mode,
           file.access = Installed => file'.access = Installed
    PROVE  OneWriter' /\ AccessKept'
  <1>1. \A t \in Thread : t \in threads => ~Writing(t)'
    BY DEF End, Writing
  <1>2. \A t \in Thread : t \notin threads =>
            /\ pc'[t] = pc[t] /\ job'[t] = job[t] /\ stat'[t] = stat[t] /\ source'[t] = source[t]
    BY DEF End
  <1>3. \A t \in Thread : t \notin threads => Writing(t)' = Writing(t) /\ Restoring(t)' = Restoring(t)
    BY <1>2 DEF Writing, Restoring, Installs
  <1>4. \A t \in Thread : Writing(t)' => Writing(t) /\ t \notin threads
    BY <1>1, <1>3
  <1>5. ASSUME NEW t \in Thread, Writing(t)' PROVE Placed(t)'
    <2>1. t \notin threads /\ Placed(t)
      BY <1>4, <1>5 DEF OneWriter
    <2>. QED
      BY <1>2, <2>1 DEF Placed, Writing, Installs
  <1>6. \A t \in Thread : ~Writing(t)' => Placed(t)'
    BY UnplacedNext
  <1>7. OneWriter'
    BY <1>4, <1>5, <1>6 DEF OneWriter
  <1>8. (\A t \in Thread : ~Restoring(t)') => \A t \in Thread : ~Restoring(t)
    BY <1>3
  <1>. QED
    BY <1>7, <1>8 DEF AccessKept

\* One save at a time, and where it stands.
LEMMA WriterStep ==
    ASSUME TypeOK, OneWriter, AccessKept, RequestsAreValid, TempIsWhole, [Next]_vars
    PROVE  OneWriter' /\ AccessKept'
  <1>. SUFFICES ASSUME undisturbed' PROVE OneWriter' /\ AccessKept'
    BY DEF OneWriter, AccessKept
  <1>0. undisturbed
    BY UndisturbedBefore
  <1>. USE Shapes, <1>0 DEF Goto, store, history
  <1>1. ASSUME NEW t \in Thread, NEW c \in Config, NEW after \in {"nothing", "restart"},
               Request(t, c, after)
        PROVE  OneWriter' /\ AccessKept'
    <2>1. ~Writing(t) /\ ~Writing(t)'
      BY <1>1 DEF Request, Writing, Installs, TypeOK
    <2>2. \A u \in Thread : u # t => pc'[u] = pc[u] /\ job'[u] = job[u]
      BY <1>1 DEF Request
    <2>3. UNCHANGED <<stat, store, undisturbed>>
      BY <1>1 DEF Request
    <2>4. \A u \in Thread : u # t => Writing(u)' = Writing(u) /\ Placed(u)' = Placed(u)
                                       /\ Restoring(u)' = Restoring(u)
      BY <2>2, <2>3 DEF Writing, Placed, Restoring, Installs
    <2>5. Placed(t)' /\ ~Restoring(t) /\ ~Restoring(t)'
      BY <2>1, Unplaced, UnplacedNext
    <2>. QED
      BY <2>1, <2>3, <2>4, <2>5 DEF OneWriter, AccessKept
  <1>2. ASSUME NEW t \in Thread, Prefill(t) PROVE OneWriter' /\ AccessKept'
    <2>1. UNCHANGED <<stat, store>>
      BY <1>2 DEF Prefill
    <2>2. CASE UNCHANGED <<pc, job>>
      BY <2>1, <2>2 DEF OneWriter, AccessKept, Placed, Writing, Restoring, Installs
    <2>3. ASSUME NEW c \in Config, pc[t] = "idle", pc' = [pc EXCEPT ![t] = "stat"],
                 job' = [job EXCEPT ![t] = [config |-> c, after |-> "own"]],
                 Begins(t)
          PROVE  OneWriter' /\ AccessKept'
      <3>1. \A u \in Thread : ~Writing(u)
        BY <2>3, BeginsMeans DEF Writing
      <3>2. \A u \in Thread : u # t => ~Writing(u)'
        BY <2>3, <3>1 DEF Writing, Installs
      <3>3. file.text # Absent /\ file.access = Installed
        BY <3>1, Unplaced DEF OneWriter, AccessKept
      <3>4. Placed(t)'
        BY <2>3 DEF Placed
      <3>. QED
        BY <2>1, <3>2, <3>3, <3>4, AloneSuffices
    <2>. QED
      BY <1>2, <2>2, <2>3, PrefillSaves
  <1>3. ASSUME NEW t \in Thread, Stat(t) PROVE OneWriter' /\ AccessKept'
    <2>1. \A u \in Thread : u # t => ~Writing(u)
      \* The installer has been writing since it read the file.
      <3>1. CASE Installs(t)
        BY <1>3, <3>1 DEF Stat, OneWriter, Writing
      <3>2. CASE ~Installs(t)
        BY <1>3, <3>2, BeginsMeans DEF Stat
      <3>. QED
        BY <3>1, <3>2
    <2>2. ~Restoring(t) /\ file.text # Absent
      BY <1>3 DEF Stat, Restoring, OneWriter
    <2>3. file.access = Installed
      BY <2>1, <2>2, Unplaced DEF AccessKept
    <2>4. /\ pc[t] = "stat" /\ pc' = [pc EXCEPT ![t] = "backup"]
          /\ stat' = [stat EXCEPT ![t] = Installed]
          /\ UNCHANGED <<job, file>>
      BY <1>3, <2>2, <2>3 DEF Stat
    <2>5. \A u \in Thread : u # t => ~Writing(u)'
      BY <2>1, <2>4 DEF Writing, Installs
    <2>6. Placed(t)'
      BY <2>4 DEF Placed
    <2>. QED
      BY <2>2, <2>3, <2>4, <2>5, <2>6, AloneSuffices
  <1>4. ASSUME NEW t \in Thread, OpenBackup(t) \/ CopyBackup(t) \/ MakeTemp(t) \/ WriteTemp(t)
        PROVE  OneWriter' /\ AccessKept'
    <2>1. Writing(t) /\ ~Restoring(t) /\ Placed(t) /\ pc[t] # "stat"
      BY <1>4 DEF OpenBackup, CopyBackup, MakeTemp, WriteTemp, Writing, Restoring, OneWriter
    <2>2. file' = file /\ stat' = stat /\ job' = job /\ pc'[t] # "chown"
      BY <1>4 DEF OpenBackup, CopyBackup, MakeTemp, WriteTemp
    <2>3. Placed(t)'
      BY <2>1, <2>2 DEF Placed
    <2>4. \A u \in Thread : u # t => pc'[u] = pc[u] /\ job'[u] = job[u]
      BY <1>4 DEF OpenBackup, CopyBackup, MakeTemp, WriteTemp
    <2>. QED
      BY <2>1, <2>2, <2>3, <2>4, WriterMoves
  <1>5. ASSUME NEW t \in Thread, Replace(t) PROVE OneWriter' /\ AccessKept'
    <2>1. Writing(t) /\ stat[t] = Installed
      BY <1>5 DEF Replace, Writing, OneWriter, Placed
    <2>2. stat[t] # None /\ temp[t] # Absent
      BY <1>5, <2>1, ConfigAssumption
         DEF Replace, Installed, None, RequestsAreValid, TempIsWhole
    <2>3. /\ pc' = [pc EXCEPT ![t] = "chmod"]
          /\ file' = [text |-> temp[t], access |-> Temporary]
          /\ UNCHANGED <<job, stat>>
      BY <1>5, <2>2 DEF Replace, TempOf
    <2>4. \A u \in Thread : u # t => ~Writing(u)'
      BY <2>1, <2>3, Alone
    <2>5. Placed(t)' /\ Restoring(t)'
      BY <2>1, <2>3 DEF Placed, Restoring
    <2>. QED
      BY <2>2, <2>3, <2>4, <2>5, AloneSuffices
  <1>6. ASSUME NEW t \in Thread, Chmod(t) PROVE OneWriter' /\ AccessKept'
    <2>1. Writing(t) /\ stat[t] = Installed
      BY <1>6 DEF Chmod, Writing, OneWriter, Placed
    <2>2. /\ pc' = [pc EXCEPT ![t] = "chown"]
          /\ file'.text = file.text /\ file'.access.mode = Installed.mode
          /\ UNCHANGED <<job, stat>>
      BY <1>6, <2>1 DEF Chmod, TypeOK, Access
    <2>3. \A u \in Thread : u # t => ~Writing(u)'
      BY <2>1, <2>2, Alone
    <2>4. Placed(t)' /\ Restoring(t)'
      BY <2>1, <2>2 DEF Placed, Restoring
    <2>. QED
      BY <2>2, <2>3, <2>4, AloneSuffices DEF OneWriter
  <1>7. ASSUME NEW t \in Thread, Chown(t) PROVE OneWriter' /\ AccessKept'
    <2>1. Writing(t) /\ Placed(t) /\ stat[t] = Installed /\ file.access.mode = Installed.mode
      BY <1>7 DEF Chown, Writing, OneWriter, Placed
    <2>2. /\ pc' = [pc EXCEPT ![t] = "saved"]
          /\ file' = [file EXCEPT !.access.owner = Installed.owner]
          /\ UNCHANGED job
      BY <1>7, <2>1 DEF Chown
    <2>3. file'.text = file.text /\ file'.access = Installed
      BY <2>1, <2>2 DEF TypeOK, Access, Installed
    <2>4. \A u \in Thread : u # t => ~Writing(u)'
      BY <2>1, <2>2, Alone
    <2>5. ~Writing(t)'
      BY <2>2 DEF Writing
    <2>. QED
      BY <2>3, <2>4, <2>5, AloneSuffices, UnplacedNext DEF OneWriter
  <1>8. ASSUME NEW t \in Thread, Answer(t) PROVE OneWriter' /\ AccessKept'
    <2>1. End({t}) /\ ~Restoring(t) /\ UNCHANGED file
      BY <1>8 DEF Answer, Restoring
    <2>. QED
      BY <2>1, WritersEnd
  <1>9. ASSUME NEW t \in Thread, Own(t) PROVE OneWriter' /\ AccessKept'
    <2>1. End({t}) /\ ~Restoring(t)
      BY <1>9 DEF Own, Restoring
    <2>2. /\ file'.text = file.text /\ file'.access.mode = file.access.mode
          /\ file.access = Installed => file'.access = Installed
      BY <1>9 DEF Own, TypeOK, Access, Installed
    <2>. QED
      BY <2>1, <2>2, WritersEnd
  <1>10. ASSUME NEW t \in Thread, Fail(t) PROVE OneWriter' /\ AccessKept'
    <2>1. End({t}) /\ ~Restoring(t) /\ UNCHANGED file
      BY <1>10 DEF Fail
    <2>. QED
      BY <2>1, WritersEnd
  <1>11. CASE Kill
    <2>1. PICK killed \in SUBSET Thread : End(killed) /\ \A t \in killed : ~Restoring(t)
      BY <1>11 DEF Kill
    <2>2. UNCHANGED file
      BY <1>11 DEF Kill
    <2>. QED
      BY <2>1, <2>2, WritersEnd
  <1>12. CASE StartRouter
    BY <1>12 DEF StartRouter, OneWriter, AccessKept, Placed, Writing, Restoring, Installs
  <1>13. CASE StopRouter
    BY <1>13 DEF StopRouter, OneWriter, AccessKept, Placed, Writing, Restoring, Installs
  <1>14. CASE UNCHANGED vars
    BY <1>14 DEF vars, OneWriter, AccessKept, Placed, Writing, Restoring, Installs
  <1>. QED
    BY <1>1, <1>2, <1>3, <1>4, <1>5, <1>6,
       <1>7, <1>8, <1>9, <1>10, <1>11, <1>12, <1>13, <1>14 DEF Next

\* No save is under way beside one that has it to itself, and none that writes
\* lets another keep it.
LEMMA OnlyWriter ==
    ASSUME AloneInStep, NEW t \in Thread, Writing(t), UNCHANGED alone,
           \A v \in Thread : v # t => pc'[v] = pc[v] /\ job'[v] = job[v],
           NEW u \in Thread, alone'[u], Writing(u)'
    PROVE  /\ u = t
           /\ Steps(t)
           /\ \A v \in Thread : v # t => ~Writing(v)'
  <1>1. u # t => Writing(u)
    BY DEF Writing, Installs
  <1>2. u = t
    BY <1>1 DEF AloneInStep, Steps
  <1>3. Steps(t)
    BY <1>2 DEF AloneInStep
  <1>4. ASSUME NEW v \in Thread, v # t PROVE ~Writing(v)'
    <2>1. ~Writing(v)
      BY <1>3, <1>4 DEF Steps
    <2>. QED
      BY <1>4, <2>1 DEF Writing, Installs
  <1>. QED
    BY <1>2, <1>3, <1>4

\* A save that has the file to itself stays in step while others do not write.
LEMMA StepsStay ==
    ASSUME AloneInStep, NEW u \in Thread, alone[u], Writing(u)',
           pc'[u] = pc[u], job'[u] = job[u], source'[u] = source[u],
           backup' = backup, file'.text = file.text,
           \A v \in Thread : v # u /\ Writing(v)' => Writing(v)
    PROVE  Steps(u)'
  <1>1. Writing(u)
    BY DEF Writing, Installs
  <1>2. Steps(u)
    BY <1>1 DEF AloneInStep
  <1>3. \A v \in Thread : v # u => ~Writing(v)'
    BY <1>2 DEF Steps
  <1>. QED
    BY <1>2, <1>3 DEF Steps, Installs, Restoring, SameSettings

\* Threads that end do not disturb the one that has the file to itself: none of
\* them was writing.
LEMMA OthersEnd ==
    ASSUME AloneInStep, NEW threads \in SUBSET Thread, End(threads),
           backup' = backup \/ \E t \in threads : pc[t] = "copy",
           file'.text = file.text, UNCHANGED alone,
           NEW u \in Thread, alone'[u], Writing(u)'
    PROVE  Steps(u)'
  <1>1. u \notin threads
    BY DEF End, Writing
  <1>2. pc'[u] = pc[u] /\ job'[u] = job[u] /\ source'[u] = source[u]
    BY <1>1 DEF End
  <1>3. Writing(u)
    BY <1>2 DEF Writing, Installs
  <1>4. \A t \in threads : ~Writing(t)
    BY <1>1, <1>3 DEF AloneInStep, Steps
  <1>5. backup' = backup
    BY <1>4 DEF Writing
  <1>6. \A v \in Thread : Writing(v)' => Writing(v)
    BY DEF End, Writing, Installs
  <1>. QED
    BY <1>2, <1>5, <1>6, StepsStay

\* Where a save stands that no other overlaps.
LEMMA AloneStep ==
    ASSUME TypeOK, AloneInStep, BackupHasSource, [Next]_vars
    PROVE  AloneInStep'
  <1>. SUFFICES ASSUME NEW u \in Thread, alone'[u], Writing(u)' PROVE Steps(u)'
    BY DEF AloneInStep
  <1>. USE Shapes DEF Goto, store, history
  <1>1. ASSUME NEW t \in Thread, NEW c \in Config, NEW after \in {"nothing", "restart"},
               Request(t, c, after)
        PROVE  Steps(u)'
    <2>1. /\ pc[t] = "idle" /\ UNCHANGED <<source, store, alone>>
          /\ \A v \in Thread : v # t => pc'[v] = pc[v] /\ job'[v] = job[v]
      BY <1>1 DEF Request
    <2>2. ~Writing(t)'
      BY <1>1 DEF Request, Writing, Installs, TypeOK
    <2>3. u # t /\ \A v \in Thread : Writing(v)' => Writing(v)
      BY <2>1, <2>2 DEF Writing, Installs
    <2>. QED
      BY <2>1, <2>3, StepsStay
  <1>2. ASSUME NEW t \in Thread, Prefill(t) PROVE Steps(u)'
    <2>1. UNCHANGED <<source, store>>
      BY <1>2 DEF Prefill
    <2>2. CASE UNCHANGED <<pc, job, alone>>
      <3>1. \A v \in Thread : Writing(v)' => Writing(v)
        BY <2>2 DEF Writing, Installs
      <3>. QED
        BY <2>1, <2>2, <3>1, StepsStay
    <2>3. ASSUME NEW c \in Config, file.text # Absent => SameSettings(c, file.text),
                 pc' = [pc EXCEPT ![t] = "stat"],
                 job' = [job EXCEPT ![t] = [config |-> c, after |-> "own"]], Begins(t)
          PROVE  Steps(u)'
      <3>1. u = t /\ \A v \in Thread : v # t => ~Writing(v)
        BY <2>3, BeginsMeans
      <3>2. \A v \in Thread : v # t => ~Writing(v)'
        BY <2>3, <3>1 DEF Writing, Installs
      <3>. QED
        BY <2>1, <2>3, <3>1, <3>2 DEF Steps, SameSettings
    <2>. QED
      BY <1>2, <2>2, <2>3, PrefillSaves
  <1>3. ASSUME NEW t \in Thread, Stat(t) PROVE Steps(u)'
    <2>1. /\ pc[t] = "stat" /\ pc' = [pc EXCEPT ![t] = "backup"]
          /\ UNCHANGED <<job, source, store>>
      BY <1>3 DEF Stat
    <2>2. CASE Installs(t)
      <3>1. Writing(t) /\ UNCHANGED alone
        BY <1>3, <2>1, <2>2 DEF Stat, Writing
      <3>2. u = t /\ Steps(t) /\ \A v \in Thread : v # t => ~Writing(v)'
        BY <2>1, <3>1, OnlyWriter
      <3>. QED
        BY <2>1, <3>2 DEF Steps, Installs, Restoring, SameSettings
    <2>3. CASE ~Installs(t)
      <3>1. u = t /\ \A v \in Thread : v # t => ~Writing(v)
        BY <1>3, <2>3, BeginsMeans DEF Stat
      <3>2. \A v \in Thread : v # t => ~Writing(v)'
        BY <2>1, <3>1 DEF Writing, Installs
      <3>. QED
        BY <2>1, <2>3, <3>1, <3>2 DEF Steps, Installs
    <2>. QED
      BY <2>2, <2>3
  <1>4. ASSUME NEW t \in Thread,
               \/ OpenBackup(t) \/ CopyBackup(t) \/ MakeTemp(t) \/ WriteTemp(t)
               \/ Replace(t) \/ Chmod(t) \/ Chown(t)
        PROVE  Steps(u)'
    <2>1. /\ Writing(t) /\ UNCHANGED <<alone, job>>
          /\ \A v \in Thread : v # t => pc'[v] = pc[v]
      BY <1>4 DEF OpenBackup, CopyBackup, MakeTemp, WriteTemp, Replace, Chmod, Chown, Writing
    <2>2. u = t /\ Steps(t) /\ \A v \in Thread : v # t => ~Writing(v)'
      BY <2>1, OnlyWriter
    <2>3. CASE OpenBackup(t)
      <3>1. file.text = Absent => backup = Absent
        BY DEF BackupHasSource
      <3>. QED
        BY <2>2, <2>3, <3>1 DEF OpenBackup, Steps, Installs, Restoring, SameSettings
    <2>4. CASE CopyBackup(t)
      <3>1. backup' = file.text
        BY <2>2, <2>4 DEF CopyBackup, Steps, Overwritten
      <3>. QED
        BY <2>2, <2>4, <3>1 DEF CopyBackup, Steps, Installs, Restoring, SameSettings
    <2>5. CASE MakeTemp(t) \/ WriteTemp(t)
      BY <2>2, <2>5 DEF MakeTemp, WriteTemp, Steps, Installs, Restoring, SameSettings
    <2>6. CASE Replace(t)
      <3>1. pc'[t] = "chmod"
        BY <2>2, <2>6 DEF Replace, Writing
      <3>. QED
        BY <2>2, <3>1 DEF Steps, Restoring
    <2>7. CASE Chmod(t) \/ Chown(t)
      <3>1. pc'[t] = "chown"
        BY <2>2, <2>7 DEF Chmod, Chown, Writing
      <3>. QED
        BY <2>2, <3>1 DEF Steps, Restoring
    <2>. QED
      BY <1>4, <2>3, <2>4, <2>5, <2>6, <2>7
  <1>5. ASSUME NEW t \in Thread, Answer(t) \/ Own(t) PROVE Steps(u)'
    <2>1. End({t}) /\ file'.text = file.text /\ UNCHANGED <<backup, alone>>
      BY <1>5 DEF Answer, Own, TypeOK
    <2>. QED
      BY <2>1, OthersEnd
  <1>6. ASSUME NEW t \in Thread, Fail(t) PROVE Steps(u)'
    <2>1. End({t}) /\ UNCHANGED <<file, alone>>
      BY <1>6 DEF Fail
    <2>2. backup' = backup \/ pc[t] = "copy"
      BY <1>6 DEF Fail, Interrupted
    <2>. QED
      BY <2>1, <2>2, OthersEnd
  <1>7. CASE Kill
    <2>1. PICK killed \in SUBSET Thread :
             End(killed) /\ backup' \in Interrupted(\E t \in killed : pc[t] = "copy")
      BY <1>7 DEF Kill
    <2>2. UNCHANGED <<file, alone>>
      BY <1>7 DEF Kill
    <2>. QED
      BY <2>1, <2>2, OthersEnd DEF Interrupted
  <1>8. CASE StartRouter \/ StopRouter \/ UNCHANGED vars
    <2>1. UNCHANGED <<pc, job, source, store, alone>>
      BY <1>8 DEF StartRouter, StopRouter, vars
    <2>2. \A v \in Thread : Writing(v)' => Writing(v)
      BY <2>1 DEF Writing, Installs
    <2>. QED
      BY <2>1, <2>2, StepsStay
  <1>. QED
    BY <1>1, <1>2, <1>3, <1>4, <1>5, <1>6, <1>7, <1>8 DEF Next

\* Only a file that is there is copied, and none goes away.
LEMMA BackupStep ==
    ASSUME TypeOK, RequestsAreValid, TempIsWhole, BackupHasSource, [Next]_vars
    PROVE  BackupHasSource'
  <1>. USE Shapes DEF BackupHasSource, Goto, store, history
  <1>1. ASSUME NEW t \in Thread, NEW c \in Config, NEW after \in {"nothing", "restart"},
               Request(t, c, after)
        PROVE  BackupHasSource'
    BY <1>1 DEF Request
  <1>2. ASSUME NEW t \in Thread, Prefill(t) PROVE BackupHasSource'
    BY <1>2 DEF Prefill
  <1>3. ASSUME NEW t \in Thread, Stat(t) PROVE BackupHasSource'
    BY <1>3 DEF Stat
  <1>4. ASSUME NEW t \in Thread, OpenBackup(t) PROVE BackupHasSource'
    BY <1>4 DEF OpenBackup
  <1>5. ASSUME NEW t \in Thread, CopyBackup(t) PROVE BackupHasSource'
    BY <1>5 DEF CopyBackup
  <1>6. ASSUME NEW t \in Thread, MakeTemp(t) \/ WriteTemp(t) PROVE BackupHasSource'
    BY <1>6 DEF MakeTemp, WriteTemp
  <1>7. ASSUME NEW t \in Thread, Replace(t) PROVE BackupHasSource'
    <2>1. file'.text # Absent
      BY <1>7, ConfigAssumption DEF Replace, TempOf, RequestsAreValid, TempIsWhole
    <2>. QED
      BY <2>1
  <1>8. ASSUME NEW t \in Thread, Chmod(t) \/ Chown(t) PROVE BackupHasSource'
    BY <1>8 DEF Chmod, Chown
  <1>9. ASSUME NEW t \in Thread, Answer(t) \/ Own(t) PROVE BackupHasSource'
    BY <1>9 DEF Answer, Own, End
  <1>10. ASSUME NEW t \in Thread, Fail(t) PROVE BackupHasSource'
    BY <1>10 DEF Fail, End, Interrupted
  <1>11. CASE Kill
    BY <1>11 DEF Kill, End, Interrupted
  <1>12. CASE StartRouter \/ StopRouter \/ UNCHANGED vars
    BY <1>12 DEF StartRouter, StopRouter, vars
  <1>. QED
    BY <1>1, <1>2, <1>3, <1>4, <1>5, <1>6, <1>7, <1>8, <1>9, <1>10, <1>11, <1>12 DEF Next

LEMMA NextIInv == IInv /\ [Next]_vars => IInv'
  BY TypeStep, StatStep, RequestStep, TempStep, FileStep, VersionStep, AnswerStep, WriterStep,
     AloneStep, BackupStep
     DEF IInv

-----------------------------------------------------------------------------

\* The inductive invariant holds in every reachable state (atomic_write_config
\* under any interleaving, failure and kill).
THEOREM Invariance == Spec => []IInv
  BY InitIInv, NextIInv, PTL DEF Spec

\* The configuration file is always one whole, validated configuration.
THEOREM FileIsAlwaysConfig == Spec => []FileIsConfig
  BY Invariance, PTL DEF IInv

\* A success answered by _save_config is true, and stays true of the router.
THEOREM AnswersAreTrue == Spec => []AnswerIsTrue
  BY Invariance, PTL DEF IInv

\* Saves that neither overlap nor are cut short leave the file's access alone.
THEOREM AccessIsKept == Spec => []AccessKept
  BY Invariance, PTL DEF IInv

\* The version a save makes is made by its os.replace.
LEMMA LandsByReplace ==
    ASSUME TypeOK, [Next]_vars, NEW t \in Thread, Lands(t)
    PROVE  Replace(t)
  <1>. USE Shapes DEF Lands, history
  <1>1. \A u \in Thread, c \in Config, after \in {"nothing", "restart"} : ~Request(u, c, after)
    BY DEF Request
  <1>2. \A u \in Thread : ~Stat(u) /\ ~OpenBackup(u) /\ ~CopyBackup(u) /\ ~MakeTemp(u)
    BY DEF Stat, OpenBackup, CopyBackup, MakeTemp
  <1>3. \A u \in Thread : ~WriteTemp(u) /\ ~Chmod(u) /\ ~Chown(u) /\ ~Prefill(u)
    BY DEF WriteTemp, Chmod, Chown, Prefill
  <1>4. \A u \in Thread : ~Answer(u) /\ ~Own(u) /\ ~Fail(u)
    BY DEF Answer, Own, Fail
  <1>5. ~Kill /\ ~StartRouter /\ ~StopRouter /\ landed' # landed
    BY DEF Kill, StartRouter, StopRouter
  <1>6. \A u \in Thread : Replace(u) => u = t
    BY DEF Replace
  <1>. QED
    BY <1>1, <1>2, <1>3, <1>4, <1>5, <1>6 DEF Next, vars

\* A save that no other overlaps has the text it replaces in the backup when it
\* does, whatever became of the saves before it.
THEOREM BackupHoldsPrevious == Spec => BackupIsPrevious
  <1>. DEFINE Held == \A t \in Thread : alone[t] /\ Lands(t) => backup' = file.text
  <1>1. IInv /\ [Next]_vars => [Held]_vars
    <2>. SUFFICES ASSUME IInv, [Next]_vars, NEW t \in Thread, alone[t], Lands(t)
                  PROVE  backup' = file.text
      OBVIOUS
    <2>1. Replace(t)
      BY LandsByReplace DEF IInv
    <2>. QED
      BY <2>1 DEF IInv, Replace, Goto, AloneInStep, Steps, Writing
  <1>. QED
    BY <1>1, Invariance, PTL DEF Spec, BackupIsPrevious

\* The installer keeps the settings of the file it replaces unless a save comes
\* between its reading and its writing.
THEOREM InstallerKeepsSettings == Spec => InstallKeepsSettings
  <1>. DEFINE Keeps == \A t \in Thread :
                         alone[t] /\ Lands(t) /\ Installs(t) /\ file.text # Absent
                             => SameSettings(file'.text, file.text)
  <1>1. IInv /\ [Next]_vars => [Keeps]_vars
    <2>. SUFFICES ASSUME IInv, [Next]_vars, NEW t \in Thread, alone[t], Lands(t), Installs(t),
                         file.text # Absent
                  PROVE  SameSettings(file'.text, file.text)
      OBVIOUS
    <2>1. Replace(t)
      BY LandsByReplace DEF IInv
    <2>2. file'.text = job[t].config
      BY <2>1 DEF IInv, Replace, Goto, TempOf, TempIsWhole
    <2>3. SameSettings(job[t].config, file.text)
      BY <2>1 DEF IInv, Replace, Goto, AloneInStep, Steps, Writing, Restoring
    <2>. QED
      BY <2>2, <2>3
  <1>. QED
    BY <1>1, Invariance, PTL DEF Spec, InstallKeepsSettings
=============================================================================
