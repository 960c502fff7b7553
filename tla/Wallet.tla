------------------------------- MODULE Wallet -------------------------------
(***************************************************************************)
(* The wallet file of a node (wallet.cpp): the key that owns the node's    *)
(* coins is written when it is generated and again on every payment, into  *)
(* the same file, which opening it empties.  Payments come from the menu   *)
(* and from the API, on two threads that take no lock; the process may be  *)
(* stopped between any two writes, and a save may fail once it has emptied *)
(* the file.                                                               *)
(*                                                                         *)
(* The file has four lines that are flushed one by one, so a stopped       *)
(* process leaves what it had written: 1 the section header, 2 the private *)
(* and the public key, 3 the address, 4 the balance.  A key stands for     *)
(* itself, its public key and its address.                                 *)
(***************************************************************************)
EXTENDS Naturals

CONSTANTS Key,      \* key pairs
          NoKey,    \* a line that is not there
          Threads,  \* threads that run commands
          Main,     \* the one that starts the node
          MaxStops  \* bound: stops of the process

ASSUME WalletAssumption ==
    /\ NoKey \notin Key
    /\ Main \in Threads
    /\ MaxStops \in Nat

VARIABLES phase,    \* "down", "starting" (in Wallet's constructor) or "up"
          key,      \* Wallet::key_pair; of a stopped process: the last it had
          file,     \* whose key or address each line of the file holds
          pc,       \* where each thread is in saveToIniFile
          written,  \* the lines a thread has written since it opened the file
          used,     \* keys generated so far
          stops,    \* how often the process was stopped
          emptier,  \* history: the thread that emptied the file last
          cut,      \* history: its save ended before the address was written
          unsaved,  \* history: the file was never opened for this key
          unread    \* history: the last start could not read a whole file

vars == <<phase, key, file, pc, written, used, stops, emptier, cut, unsaved, unread>>

Lines == 1 .. 4
NoFile == [l \in Lines |-> NoKey]

\* What loadFromHostPort needs to find: all but the balance.
Needed == 1 .. 3
Complete == \A l \in Needed : file[l] # NoKey

\* The thread that emptied the file has lines to write that are needed.
Owes == pc[emptier] = "write" /\ \E l \in Needed : written[emptier] < l

Init ==
    /\ phase = "down"
    /\ key = NoKey
    /\ file = NoFile
    /\ pc = [t \in Threads |-> "idle"]
    /\ written = [t \in Threads |-> 0]
    /\ used = {}
    /\ stops = 0
    /\ emptier = Main
    /\ cut = FALSE
    /\ unsaved = FALSE
    /\ unread = FALSE

-----------------------------------------------------------------------------
(* The node starts *)

\* The wallet of the file is loaded.
StartLoaded ==
    /\ phase = "down"
    /\ Complete
    /\ key' = file[2]
    /\ phase' = "up"
    /\ cut' = FALSE
    /\ unsaved' = FALSE
    /\ unread' = FALSE
    /\ UNCHANGED <<file, pc, written, used, stops, emptier>>

\* A new key is generated, and the constructor goes on to save it over whatever
\* file there is.
Generate ==
    /\ phase = "down"
    /\ \E k \in Key \ used : key' = k /\ used' = used \cup {k}
    /\ pc' = [pc EXCEPT ![Main] = "open"]
    /\ phase' = "starting"
    /\ unsaved' = FALSE
    /\ UNCHANGED <<file, written, stops, emptier, cut>>

\* Mutant: the file is not read.
StartUnread == Generate /\ unread' = FALSE

\* There is no file, or it is not whole.
StartNew == ~Complete /\ Generate /\ unread' = FALSE

\* The file is whole, but it cannot be opened or its key is not accepted:
\* loadFromHostPort returns false as for a node that has none.
StartUnreadable == Complete /\ Generate /\ unread' = TRUE

\* The process is stopped, in whatever its threads are doing.
Stop ==
    /\ phase # "down"
    /\ stops < MaxStops
    /\ stops' = stops + 1
    /\ cut' = (cut \/ Owes)
    /\ unsaved' = (unsaved \/ \E t \in Threads : phase = "starting" /\ pc[t] = "open")
    /\ phase' = "down"
    /\ pc' = [t \in Threads |-> "idle"]
    /\ written' = [t \in Threads |-> 0]
    /\ UNCHANGED <<key, file, used, emptier, unread>>

-----------------------------------------------------------------------------
(* saveToIniFile *)

\* Mutant: the API takes payments before the wallet is there.
SendEarly(t) ==
    /\ phase # "down"
    /\ pc[t] = "idle"
    /\ pc' = [pc EXCEPT ![t] = "open"]
    /\ UNCHANGED <<phase, key, file, written, used, stops, emptier, cut, unsaved, unread>>

\* sendMoney has signed and debited, and saves the wallet.
SendMoney(t) ==
    /\ phase = "up"
    /\ pc[t] = "idle"
    /\ pc' = [pc EXCEPT ![t] = "open"]
    /\ UNCHANGED <<phase, key, file, written, used, stops, emptier, cut, unsaved, unread>>

\* The file is opened, which empties it.
Open(t) ==
    /\ pc[t] = "open"
    /\ file' = NoFile
    /\ written' = [written EXCEPT ![t] = 0]
    /\ pc' = [pc EXCEPT ![t] = "write"]
    /\ emptier' = t
    /\ cut' = FALSE
    /\ unsaved' = FALSE
    /\ UNCHANGED <<phase, key, used, stops, unread>>

\* "Failed to open wallet file": the caller does not look at the result.
OpenFails(t) ==
    /\ pc[t] = "open"
    /\ unsaved' = (unsaved \/ phase = "starting")
    /\ pc' = [pc EXCEPT ![t] = "idle"]
    /\ phase' = "up"
    /\ UNCHANGED <<key, file, written, used, stops, emptier, cut, unread>>

\* Mutant: the address is left out.
WriteNoAddress(t) ==
    /\ pc[t] = "write"
    /\ written[t] < 4
    /\ written' = [written EXCEPT ![t] = @ + 1]
    /\ file' = IF written[t] = 2 THEN file ELSE [file EXCEPT ![written[t] + 1] = key]
    /\ UNCHANGED <<phase, key, pc, used, stops, emptier, cut, unsaved, unread>>

\* The next line goes to the thread's own place in the file, whatever another
\* thread has done to the file meanwhile.
Write(t) ==
    /\ pc[t] = "write"
    /\ written[t] < 4
    /\ written' = [written EXCEPT ![t] = @ + 1]
    /\ file' = [file EXCEPT ![written[t] + 1] = key]
    /\ UNCHANGED <<phase, key, pc, used, stops, emptier, cut, unsaved, unread>>

\* The save ends with lines missing, and nobody looks: OpenSSL cannot export the
\* key, when the file is empty already, or a line cannot be written (a full
\* disk), after which the stream drops the others and the save reports success.
SaveFails(t) ==
    /\ pc[t] = "write"
    /\ written[t] < 4
    /\ cut' = (cut \/ (t = emptier /\ Owes))
    /\ pc' = [pc EXCEPT ![t] = "idle"]
    /\ phase' = "up"
    /\ UNCHANGED <<key, file, written, used, stops, emptier, unsaved, unread>>

Close(t) ==
    /\ pc[t] = "write"
    /\ written[t] = 4
    /\ pc' = [pc EXCEPT ![t] = "idle"]
    /\ phase' = "up"
    /\ UNCHANGED <<key, file, written, used, stops, emptier, cut, unsaved, unread>>

-----------------------------------------------------------------------------
Save(t) ==
    \/ SendMoney(t)
    \/ Open(t)
    \/ OpenFails(t)
    \/ Write(t)
    \/ SaveFails(t)
    \/ Close(t)

Next ==
    \/ StartLoaded
    \/ StartNew
    \/ StartUnreadable
    \/ Stop
    \/ \E t \in Threads : Save(t)

Spec == Init /\ [][Next]_vars

-----------------------------------------------------------------------------
(* Properties *)

\* The types of the variables; only a node that is up works on two threads.
WalletTypeOK ==
    /\ phase \in {"down", "starting", "up"}
    /\ key \in Key \cup {NoKey}
    /\ phase # "down" => key \in Key
    /\ file \in [Lines -> Key \cup {NoKey}]
    /\ pc \in [Threads -> {"idle", "open", "write"}]
    /\ written \in [Threads -> 0 .. 4]
    /\ used \subseteq Key
    /\ stops \in 0 .. MaxStops
    /\ emptier \in Threads
    /\ cut \in BOOLEAN /\ unsaved \in BOOLEAN /\ unread \in BOOLEAN
    /\ phase = "down" => \A t \in Threads : pc[t] = "idle"
    /\ phase = "starting" => \A t \in Threads : pc[t] # "idle" => t = Main

\* However the saves of two threads empty and overwrite the file between each
\* other's lines: once the thread that emptied it last has come to the end of its
\* lines, the file holds the node's key, whatever the others are still writing
\* and whichever of their writes fail.
KeyFileComplete ==
    (phase = "up" /\ ~unsaved /\ ~cut /\ ~Owes) => \A l \in Needed : file[l] = key

\* A node comes back with another key, and loses the coins of the one it had,
\* only for one of three reasons: the save that emptied the file last was cut
\* short of the address, by a stop or by an error; the file was never opened
\* for the key; or the file is whole and cannot be read.  A payment that found
\* the file closed to it, or whose writes failed in a file another thread had
\* emptied since, is none of them.
KeyComesBack ==
    [][phase = "down" /\ phase' # "down" /\ key' # key /\ key # NoKey
         => cut \/ unsaved \/ unread']_vars
=============================================================================
