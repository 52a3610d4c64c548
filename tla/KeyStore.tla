------------------------------ MODULE KeyStore ------------------------------
(***************************************************************************)
(* What the BLE task relies on of its storage, and what it has to expect:  *)
(* a map in memory, and behind it a file that the next process starts from *)
(* if it parses.  A save changes one entry in memory; then the file is     *)
(* rewritten in place, so that an error or a kill can leave it torn, and   *)
(* no process starts from a torn file.  Nothing is synced: a power loss    *)
(* may bring back an older file or leave a torn one.  And a start that     *)
(* fails to get the master key replaces it, which makes every entry        *)
(* unreadable.  Storage implements this while one process runs at a time   *)
(* (StorageHistory); BleSession takes no other steps of its store.         *)
(***************************************************************************)
CONSTANTS
    Ids,
    Values,
    NoEntry,    \* of Values: no entry
    Lost        \* of Values: an entry no master key opens any more

VARIABLES
    open,    \* a process has read the file
    stored,  \* the map in its memory
    disk,    \* the map in the file, when it was last whole
    torn,    \* the file does not parse
    older    \* the maps a power loss may bring back

fileVars  == <<disk, torn, older>>
storeVars == <<open, stored, fileVars>>

Blank == [i \in Ids |-> NoEntry]

StoreInit ==
    /\ open \in BOOLEAN
    /\ disk \in [Ids -> Values] /\ torn = FALSE /\ older = {}
    /\ stored = IF open THEN disk ELSE Blank

\* The whole maps the file has held since the last power loss.
Outdated == IF torn THEN older ELSE older \cup {disk}

\* A write that is cut short, by an error or by the end of the process, and one
\* that is not.
CutShort == torn' = TRUE /\ older' = Outdated /\ UNCHANGED disk
Complete == torn' = FALSE /\ older' = Outdated /\ disk' = stored'

\* The file has been emptied and will be filled.
BeginSave == open /\ UNCHANGED <<open, stored>> /\ CutShort

Save(i) ==
    /\ open /\ UNCHANGED open
    /\ stored' \in [Ids -> Values] /\ stored'[i] \notin {NoEntry, Lost}
    /\ \A j \in Ids \ {i} : stored'[j] = stored[j]
    /\ UNCHANGED fileVars \/ CutShort \/ Complete

CloseStore ==
    /\ open /\ open' = FALSE /\ stored' = Blank
    /\ UNCHANGED fileVars \/ CutShort

LosePower ==
    /\ open' = FALSE /\ stored' = Blank /\ older' = {}
    /\ \/ UNCHANGED <<disk, torn>>
       \/ (open \/ older # {}) /\ torn' = TRUE /\ UNCHANGED disk
       \/ disk' \in older /\ torn' = FALSE

Unreadable(m) == [i \in Ids |-> IF m[i] = NoEntry THEN NoEntry ELSE Lost]

LoseMaster ==
    /\ ~open /\ UNCHANGED <<open, stored, torn>>
    /\ disk' = Unreadable(disk) /\ older' = {Unreadable(m) : m \in older}

OpenStore == ~open /\ ~torn /\ open' = TRUE /\ stored' = disk /\ UNCHANGED fileVars

StoreNext == \/ BeginSave \/ CloseStore \/ LosePower \/ LoseMaster \/ OpenStore
             \/ \E i \in Ids : Save(i)

StoreSpec == StoreInit /\ [][StoreNext]_storeVars
=============================================================================
