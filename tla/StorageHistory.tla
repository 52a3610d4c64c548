--------------------------- MODULE StorageHistory ---------------------------
(***************************************************************************)
(* Storage with two history variables, which show that its steps amount to *)
(* those of KeyStore: a set that is in the map but not yet in the file     *)
(* counts only when the write is over, and a torn file is one no process   *)
(* opens, with the map it last held whole beside it.  An entry counts as   *)
(* its value only for who has the master key it is sealed with.            *)
(***************************************************************************)
EXTENDS Storage

VARIABLES
    settled,  \* the map of each process without the set in progress
    intact    \* the map the file last held whole

historyVars == <<vars, settled, intact>>

Setting == {"flush", "write"}

HistoryInit == Init /\ settled = db /\ intact = EmptyMap

HistoryNext ==
    /\ Next
    /\ settled' = [p \in Procs |-> IF pc'[p] \in Setting THEN settled[p] ELSE db'[p]]
    /\ intact' = IF file'.state = "torn" THEN intact ELSE file'.map

HistorySpec == HistoryInit /\ [][HistoryNext]_historyVars

-----------------------------------------------------------------------------
(* Properties *)

NoEntry == 0
Lost    == -1

\* A map as who has master key k can read it.
View(k, m) == [i \in Ids |-> IF m[i] = Empty THEN NoEntry
                             ELSE IF m[i].by = k THEN m[i].val ELSE Lost]

Runner == CHOOSE p \in Procs : pc[p] \in Running
IsOpen == \E p \in Procs : pc[p] \in Running
Memory == IF IsOpen THEN View(master[Runner], settled[Runner])
                    ELSE View(keyring, EmptyMap)
Disk   == View(keyring, intact)
OlderDisks == {View(keyring, m) : m \in older}

\* One process at a time sees a store that saves an entry in memory and then
\* rewrites its file, starts from what was saved last if the file parses, and
\* loses what it had only to a power loss or with its master key, however a
\* set() and its steps are interrupted (StorageService::set, flush and new).
Store == INSTANCE KeyStore WITH
             Values <- Nat \cup {Lost}, open <- IsOpen, stored <- Memory,
             disk <- Disk, torn <- file.state = "torn", older <- OlderDisks
ImplementsKeyStore ==
    Store!StoreInit /\ [][~shared' => Store!StoreNext]_(Store!storeVars)

-----------------------------------------------------------------------------
(* The inductive invariant: why it does *)

\* A set in progress changed one entry, under the cipher of its process; a file
\* that parses is the last intact.
SetIsOne ==
    \A p \in Procs :
        IF pc[p] \in Setting
        THEN /\ db[p][pending[p]].by = master[p]
             /\ \A i \in Ids \ {pending[p]} : settled[p][i] = db[p][i]
        ELSE settled[p] = db[p]
FileIsIntact == file.state # "torn" => file.map = intact
HistoryTypeOK == settled \in [Procs -> Maps] /\ intact \in Maps

\* A master key that is generated is one no entry is sealed with yet, and
\* processes that take turns all read the one in the keyring.
Sealing == {intact} \cup older
MasterIsNew ==
    /\ keyring <= lastMaster /\ \A p \in Procs : master[p] <= lastMaster
    /\ \A i \in Ids : /\ \A m \in Sealing : m[i].by <= lastMaster
                      /\ \A p \in Procs : db[p][i].by <= lastMaster
    /\ ~shared => \A p \in Procs :
          /\ pc[p] = "setkey" => \A i \in Ids, m \in Sealing : m[i].by < master[p]
          /\ pc[p] \in {"load"} \cup Running => master[p] = keyring
=============================================================================
