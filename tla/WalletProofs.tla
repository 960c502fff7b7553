---------------------------- MODULE WalletProofs ----------------------------
(* Theorems of Wallet.tla, for any number of threads, keys and stops.      *)
EXTENDS Wallet, TLAPS

\* A line the file has yet to get: the thread that emptied it will write it, or
\* the constructor has not opened it yet.
ToCome(l) ==
    \/ pc[emptier] = "write" /\ written[emptier] < l
    \/ phase = "starting" /\ pc[Main] = "open"

\* The inductive invariant: the lines of the file belong to one key, to the
\* node's when a thread is writing, and unless the save that emptied it was cut
\* short each line that is not there is still to come.
FileInv ==
    /\ WalletTypeOK
    /\ phase = "starting" => pc[Main] # "idle"
    /\ \A t \in Threads : pc[t] = "write" => \A l \in Needed : file[l] \in {key, NoKey}
    /\ \A l, m \in Needed : file[l] # NoKey /\ file[m] # NoKey => file[l] = file[m]
    /\ key # NoKey /\ ~unsaved /\ ~cut => \A l \in Needed : file[l] = key \/ ToCome(l)

USE DEF Needed

-----------------------------------------------------------------------------
\* An absent file has the type of a file.
LEMMA NoFileType == NoFile \in [Lines -> Key \cup {NoKey}]
BY DEF NoFile

\* Before the first start nothing is written and nothing is to come.
LEMMA InitFileInv == Init => FileInv
<1> SUFFICES ASSUME Init PROVE FileInv
  OBVIOUS
<1>1. WalletTypeOK
  <2>1. file \in [Lines -> Key \cup {NoKey}]
    BY NoFileType DEF Init
  <2>2. pc \in [Threads -> {"idle", "open", "write"}] /\ written \in [Threads -> 0 .. 4]
    BY DEF Init
  <2>3. stops \in 0 .. MaxStops
    BY WalletAssumption DEF Init
  <2> QED BY <2>1, <2>2, <2>3, WalletAssumption DEF Init, WalletTypeOK
<1>2. \A l \in Needed : file[l] = NoKey
  BY DEF Init, NoFile, Lines
<1> QED BY <1>1, <1>2 DEF Init, FileInv

\* Starting: a whole file has one key, a new key is about to be written.
LEMMA StartKeeps ==
    ASSUME FileInv, StartLoaded \/ StartNew \/ StartUnreadable
    PROVE  FileInv'
<1>1. CASE StartLoaded
  <2>1. WalletTypeOK'
    <3>1. file[2] \in Key
      BY <1>1 DEF StartLoaded, FileInv, WalletTypeOK, Complete, Lines
    <3> QED BY <1>1, <3>1 DEF StartLoaded, FileInv, WalletTypeOK
  <2>2. \A l \in Needed : file'[l] = key'
    BY <1>1 DEF StartLoaded, FileInv, Complete
  <2> QED BY <1>1, <2>1, <2>2 DEF StartLoaded, FileInv, WalletTypeOK
<1>2. CASE Generate /\ unread' \in BOOLEAN
  <2>1. WalletTypeOK'
    BY <1>2, WalletAssumption DEF Generate, FileInv, WalletTypeOK
  <2>2. phase' = "starting" /\ pc'[Main] = "open" /\ file' = file
    BY <1>2, WalletAssumption DEF Generate, FileInv, WalletTypeOK
  <2>3. \A t \in Threads : pc'[t] # "write"
    BY <1>2, WalletAssumption DEF Generate, FileInv, WalletTypeOK
  <2> QED BY <2>1, <2>2, <2>3 DEF FileInv, ToCome
<1> QED BY <1>1, <1>2 DEF StartNew, StartUnreadable

\* A stop that does not meet the save that emptied the file leaves the key in it.
LEMMA StopKeeps ==
    ASSUME FileInv, Stop
    PROVE  FileInv'
<1>1. WalletTypeOK'
  BY WalletAssumption DEF Stop, FileInv, WalletTypeOK
<1>2. ASSUME key # NoKey, ~unsaved', ~cut', NEW l \in Needed
      PROVE  file'[l] = key'
  <2>1. ~ToCome(l)
    BY <1>2, WalletAssumption DEF Stop, FileInv, WalletTypeOK, ToCome, Owes
  <2> QED BY <1>2, <2>1 DEF Stop, FileInv
<1> QED BY <1>1, <1>2 DEF Stop, FileInv

\* Opening empties the file, and the thread that did it owes every line.
LEMMA OpenKeeps ==
    ASSUME FileInv, NEW t \in Threads, Open(t) \/ OpenFails(t) \/ SendMoney(t)
    PROVE  FileInv'
<1>1. CASE Open(t)
  <2>1. WalletTypeOK'
    <3>1. file' \in [Lines -> Key \cup {NoKey}]
      BY <1>1, NoFileType DEF Open
    <3>2. pc' \in [Threads -> {"idle", "open", "write"}] /\ written' \in [Threads -> 0 .. 4]
      BY <1>1 DEF Open, FileInv, WalletTypeOK
    <3>3. phase' = "down" => \A u \in Threads : pc'[u] = "idle"
      BY <1>1 DEF Open, FileInv, WalletTypeOK
    <3>4. phase' = "starting" => \A u \in Threads : pc'[u] # "idle" => u = Main
      BY <1>1 DEF Open, FileInv, WalletTypeOK
    <3> QED BY <1>1, <3>1, <3>2, <3>3, <3>4 DEF Open, FileInv, WalletTypeOK
  <2>2. \A l \in Needed : file'[l] = NoKey /\ ToCome(l)'
    BY <1>1 DEF Open, NoFile, Lines, ToCome, FileInv, WalletTypeOK
  <2>3. phase' = "starting" => pc'[Main] # "idle"
    BY <1>1, WalletAssumption DEF Open, FileInv, WalletTypeOK
  <2> QED BY <2>1, <2>2, <2>3 DEF FileInv
<1>2. CASE OpenFails(t)
  <2>1. WalletTypeOK'
    BY <1>2, WalletAssumption DEF OpenFails, FileInv, WalletTypeOK
  <2>2. \A u \in Threads : pc'[u] = "write" <=> pc[u] = "write"
    BY <1>2 DEF OpenFails, FileInv, WalletTypeOK
  <2>3. ~unsaved' => phase = "up" /\ ~unsaved
    BY <1>2 DEF OpenFails, FileInv, WalletTypeOK
  <2>4. emptier \in Threads
    BY DEF FileInv, WalletTypeOK
  <2> QED BY <1>2, <2>1, <2>2, <2>3, <2>4 DEF OpenFails, FileInv, ToCome
<1>3. CASE SendMoney(t)
  <2>1. WalletTypeOK'
    BY <1>3, WalletAssumption DEF SendMoney, FileInv, WalletTypeOK
  <2>2. \A u \in Threads : pc'[u] = "write" <=> pc[u] = "write"
    BY <1>3 DEF SendMoney, FileInv, WalletTypeOK
  <2>3. emptier \in Threads
    BY DEF FileInv, WalletTypeOK
  <2> QED BY <1>3, <2>1, <2>2, <2>3 DEF SendMoney, FileInv, ToCome
<1> QED BY <1>1, <1>2, <1>3

\* A line that is written has come, the others are still to come.
LEMMA WriteKeeps ==
    ASSUME FileInv, NEW t \in Threads, Write(t)
    PROVE  FileInv'
<1> DEFINE n == written[t] + 1
<1>1. n \in Lines /\ pc[t] = "write" /\ key \in Key
  BY DEF Write, FileInv, WalletTypeOK, Lines
<1>2. WalletTypeOK'
  BY <1>1, WalletAssumption DEF Write, FileInv, WalletTypeOK, Lines
<1>3. \A l \in Needed : file'[l] = IF l = n THEN key ELSE file[l]
  BY <1>1 DEF Write, FileInv, WalletTypeOK, Lines
<1>4. \A l \in Needed : file'[l] \in {key, NoKey}
  BY <1>1, <1>3 DEF FileInv
<1>5. ASSUME NEW l \in Needed, l # n, ToCome(l)
      PROVE  ToCome(l)'
  <2>1. written[emptier] < l => written'[emptier] < l
    BY <1>5, <1>1 DEF Write, FileInv, WalletTypeOK, Lines
  <2> QED BY <1>5, <2>1 DEF ToCome, Write
<1>6. /\ key' = key /\ phase' = phase /\ pc' = pc
      /\ unsaved' = unsaved /\ cut' = cut
  BY DEF Write
<1>7. ASSUME key # NoKey, ~unsaved, ~cut, NEW l \in Needed
      PROVE  file'[l] = key \/ ToCome(l)'
  BY <1>7, <1>3, <1>5 DEF FileInv
<1> QED BY <1>2, <1>4, <1>6, <1>7 DEF FileInv

\* A thread that ends its save has written every line, or another thread owes
\* the file its lines, or the save is one that was cut short.
LEMMA EndKeeps ==
    ASSUME FileInv, NEW t \in Threads, Close(t) \/ SaveFails(t)
    PROVE  FileInv'
<1>1. /\ pc[t] = "write" /\ phase' = "up" /\ pc' = [pc EXCEPT ![t] = "idle"]
      /\ key' = key /\ file' = file /\ written' = written
      /\ emptier' = emptier /\ unsaved' = unsaved
  BY DEF Close, SaveFails
<1>2. WalletTypeOK'
  BY <1>1, WalletAssumption DEF Close, SaveFails, FileInv, WalletTypeOK
<1>3. \A u \in Threads : pc'[u] = "write" => pc[u] = "write"
  BY <1>1 DEF FileInv, WalletTypeOK
<1>4. ASSUME key # NoKey, ~unsaved, ~cut', NEW l \in Needed
      PROVE  file[l] = key \/ ToCome(l)'
  <2>1. ~cut /\ ~(phase = "starting" /\ pc[Main] = "open")
    BY <1>1, <1>4, WalletAssumption DEF Close, SaveFails, FileInv, WalletTypeOK
  <2>2. t = emptier => ~(written[emptier] < l)
    <3>1. CASE Close(t)
      BY <3>1, <1>4 DEF Close, FileInv, WalletTypeOK
    <3>2. CASE SaveFails(t)
      BY <3>2, <1>1, <1>4 DEF SaveFails, Owes
    <3> QED BY <3>1, <3>2
  <2>3. file[l] = key \/ (pc[emptier] = "write" /\ written[emptier] < l)
    BY <1>4, <2>1 DEF FileInv, ToCome
  <2> QED BY <1>1, <2>2, <2>3 DEF ToCome, FileInv, WalletTypeOK
<1> QED BY <1>1, <1>2, <1>3, <1>4 DEF FileInv

\* Every step keeps the inductive invariant.
LEMMA FileInvNext == FileInv /\ [Next]_vars => FileInv'
<1> SUFFICES ASSUME FileInv, [Next]_vars PROVE FileInv'
  OBVIOUS
<1>1. CASE StartLoaded \/ StartNew \/ StartUnreadable
  BY <1>1, StartKeeps
<1>2. CASE Stop
  BY <1>2, StopKeeps
<1>3. ASSUME NEW t \in Threads, Save(t) PROVE FileInv'
  BY <1>3, OpenKeeps, WriteKeeps, EndKeeps DEF Save
<1>4. CASE UNCHANGED vars
  BY <1>4 DEF vars, FileInv, WalletTypeOK, ToCome
<1> QED BY <1>1, <1>2, <1>3, <1>4 DEF Next

-----------------------------------------------------------------------------
\* The variables have their types, and until the constructor has saved a new key
\* no thread but the one that runs it works on the file (the Wallet constructor).
THEOREM WalletTypeCorrect == Spec => []WalletTypeOK
<1>1. FileInv => WalletTypeOK
  BY DEF FileInv
<1> QED BY <1>1, InitFileInv, FileInvNext, PTL DEF Spec

\* Whatever the threads of a node do to its wallet file (saveToIniFile), and
\* whichever writes fail, once the thread that emptied it last has written its
\* lines the file holds the node's key.
THEOREM FileKeepsKey == Spec => []KeyFileComplete
<1>1. FileInv => KeyFileComplete
  BY WalletAssumption DEF FileInv, KeyFileComplete, ToCome, Owes, WalletTypeOK
<1> QED BY <1>1, InitFileInv, FileInvNext, PTL DEF Spec

\* A node that is started again has the key it had (loadFromHostPort), unless the
\* save that emptied the file last was cut short by a stop or an error, the file
\* was never opened for the key, or it cannot be read.
THEOREM KeyReturns == Spec => KeyComesBack
<1>1. ASSUME FileInv, Next, phase = "down", phase' # "down", key' # key, key # NoKey
      PROVE  cut \/ unsaved \/ unread'
  <2>1. SUFFICES ASSUME ~cut, ~unsaved, ~unread' PROVE FALSE
    OBVIOUS
  <2>2. \A l \in Needed : file[l] = key
    BY <1>1, <2>1 DEF FileInv, WalletTypeOK, ToCome
  <2>3. ~StartNew /\ ~StartLoaded /\ ~StartUnreadable
    BY <1>1, <2>1, <2>2 DEF StartNew, StartLoaded, StartUnreadable, Complete
  <2>4. ~Stop /\ \A t \in Threads : ~Save(t)
    BY <1>1 DEF Stop, Save, SendMoney, Open, OpenFails, Write, SaveFails, Close,
                FileInv, WalletTypeOK
  <2> QED BY <1>1, <2>3, <2>4 DEF Next
<1>2. FileInv /\ [Next]_vars =>
        [phase = "down" /\ phase' # "down" /\ key' # key /\ key # NoKey
           => cut \/ unsaved \/ unread']_vars
  BY <1>1
<1> QED BY <1>2, InitFileInv, FileInvNext, PTL DEF Spec, KeyComesBack
=============================================================================
