------------------------- MODULE FileWatcherProofs --------------------------
(***************************************************************************)
(* The pid file watcher implements the safety part of RestartEvents, for   *)
(* any number of starts, restarts, clock ticks and clock changes.          *)
(***************************************************************************)
EXTENDS FileWatcher, TLAPS

LEMMA InitType == Init => TypeOK
BY DEF Init, TypeOK, Controllers

LEMMA StepType == TypeOK /\ [Next]_vars => TypeOK'
<1> SUFFICES ASSUME TypeOK, [Next]_vars PROVE TypeOK'
  OBVIOUS
<1> USE WatcherAssumption DEF TypeOK, Controllers
<1>1. CASE FirstLook
  BY <1>1 DEF FirstLook
<1>2. CASE Poll
  BY <1>2 DEF Poll
<1>3. CASE Restart
  BY <1>3 DEF Restart
<1>4. ASSUME NEW c \in Controllers, Send(c) PROVE TypeOK'
  BY <1>4 DEF Send
<1>5. ASSUME NEW c \in Controllers, Listen(c) PROVE TypeOK'
  BY <1>5 DEF Listen
<1>6. CASE OvsStart
  BY <1>6 DEF OvsStart
<1>7. CASE OvsStop
  BY <1>7 DEF OvsStop
<1>8. CASE Tick
  BY <1>8 DEF Tick
<1>9. CASE SetBack
  BY <1>9 DEF SetBack
<1>10. CASE UNCHANGED vars
  BY <1>10 DEF vars
<1> QED
  BY <1>1, <1>2, <1>3, <1>4, <1>5, <1>6, <1>7, <1>8, <1>9, <1>10 DEF Next

\* Every variable keeps its type, whatever the bounds (WatchFile and notify).
THEOREM TypeCorrect == Spec => []TypeOK
<1>1. Init => TypeOK
  BY InitType
<1>2. TypeOK /\ [Next]_vars => TypeOK'
  BY StepType
<1> QED
  BY <1>1, <1>2, PTL DEF Spec

\* Before its first look the watcher owes everybody the running instance, and
\* would miss a start.
LEMMA InitPromise == Init => Promise!Init
<1> SUFFICES ASSUME Init PROVE Promise!Init
  OBVIOUS
<1>1. Owed = IF file # 0 THEN Controllers ELSE {}
  BY DEF Init, Owed, Controllers
<1>2. ~Sharp
  BY DEF Init, Sharp
<1> QED
  BY <1>1, <1>2 DEF Promise!Init

\* Every step of the watcher, of the flowcontroller and of the host is a step
\* of the promise, or changes nothing of it.
LEMMA StepPromise == TypeOK /\ [Next]_vars => [Promise!Next]_(Promise!vars)
<1> SUFFICES ASSUME TypeOK, [Next]_vars
             PROVE  [Promise!Next]_(Promise!vars)
  OBVIOUS
<1> USE DEF Controllers
<1>a. Sharp' \in BOOLEAN
  BY DEF Sharp
<1>adjust. ASSUME Owed' = Owed, (file # 0)' = (file # 0)
           PROVE  Promise!Next
  BY <1>a, <1>adjust DEF Promise!Next, Promise!Adjust
<1>tell. ASSUME NEW c \in Controllers, Owed' = Owed \ {c},
                file' = file, Sharp' = Sharp
         PROVE  [Promise!Next]_(Promise!vars)
  <2>1. CASE c \in Owed
    BY <2>1, <1>tell DEF Promise!Next, Promise!Tell
  <2>2. CASE c \notin Owed
    BY <2>2, <1>tell DEF Promise!vars
  <2> QED
    BY <2>1, <2>2
<1>1. CASE FirstLook
  <2>1. Owed' = Owed
    BY <1>1 DEF FirstLook, Owed, ToSend, TypeOK
  <2> QED
    BY <1>1, <2>1, <1>adjust DEF FirstLook
<1>2. CASE Poll
  <2>1. Owed' = Owed
    BY <1>2 DEF Poll, Owed, ToSend, TypeOK
  <2>2. (file # 0)' = (file # 0)
    BY <1>2 DEF Poll
  <2> QED
    BY <2>1, <2>2, <1>adjust
<1>3. CASE Restart
  <2>1. Owed' = IF file # 0 THEN Controllers ELSE {}
    BY <1>3 DEF Restart, Owed
  <2>2. Sharp' = FALSE /\ file' = file
    BY <1>3 DEF Restart, Sharp
  <2> QED
    BY <2>1, <2>2 DEF Promise!Next, Promise!Resume
<1>4. ASSUME NEW c \in Controllers, Send(c)
      PROVE  [Promise!Next]_(Promise!vars)
  <2>1. Owed' = Owed \ {c}
    BY <1>4 DEF Send, Owed, ToSend, TypeOK
  <2>2. Sharp' = Sharp
    BY <1>4 DEF Send, Sharp, TypeOK
  <2>3. file' = file
    BY <1>4 DEF Send
  <2> QED
    BY <2>1, <2>2, <2>3, <1>tell
<1>5. ASSUME NEW c \in Controllers, Listen(c)
      PROVE  [Promise!Next]_(Promise!vars)
  <2>1. Owed' = Owed \ {c}
    BY <1>5 DEF Listen, Owed, ToSend, TypeOK
  <2>2. Sharp' = Sharp
    BY <1>5 DEF Listen, Sharp
  <2>3. file' = file
    BY <1>5 DEF Listen
  <2> QED
    BY <2>1, <2>2, <2>3, <1>tell
<1>6. CASE OvsStart
  <2>1. Owed' \in SUBSET Controllers
    BY DEF Owed
  <2>2. Sharp => Owed' = Controllers
    BY <1>6 DEF OvsStart, Sharp, Owed, TypeOK
  <2>3. Sharp' = Sharp
    BY <1>6 DEF OvsStart, Sharp
  <2>4. (file # 0)' = TRUE
    BY <1>6 DEF OvsStart, TypeOK
  <2> QED
    BY <2>1, <2>2, <2>3, <2>4 DEF Promise!Next, Promise!Start
<1>7. CASE OvsStop
  <2>1. Owed' = {}
    BY <1>7 DEF OvsStop, Owed
  <2>2. Sharp' = Sharp
    BY <1>7 DEF OvsStop, Sharp
  <2>3. (file # 0)' = FALSE
    BY <1>7 DEF OvsStop
  <2> QED
    BY <2>1, <2>2, <2>3 DEF Promise!Next, Promise!Stop
<1>8. CASE Tick
  <2>1. Owed' = Owed
    BY <1>8 DEF Tick, Owed, ToSend
  <2> QED
    BY <1>8, <2>1, <1>adjust DEF Tick
<1>9. CASE SetBack
  <2>1. Owed' = Owed
    BY <1>9 DEF SetBack, Owed, ToSend
  <2> QED
    BY <1>9, <2>1, <1>adjust DEF SetBack
<1>10. CASE UNCHANGED vars
  BY <1>10 DEF vars, Promise!vars, Owed, ToSend, Sharp
<1> QED
  BY <1>1, <1>2, <1>3, <1>4, <1>5, <1>6, <1>7, <1>8, <1>9, <1>10 DEF Next

\* The watcher implements RestartEvents: a start of ovs-vswitchd that comes
\* while the watcher is sharp is owed to both controllers until they are told.
THEOREM Implements == Spec => KeepsPromise
<1>1. Init => Promise!Init
  BY InitPromise
<1>2. TypeOK /\ [Next]_vars => [Promise!Next]_(Promise!vars)
  BY StepPromise
<1> QED
  BY <1>1, <1>2, TypeCorrect, PTL DEF Spec, KeepsPromise, Promise!Spec
=============================================================================
