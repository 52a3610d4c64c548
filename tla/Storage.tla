------------------------------- MODULE Storage -------------------------------
(***************************************************************************)
(* The encrypted key-value store (storage.rs): a master key in the OS      *)
(* keyring, a file that is rewritten as a whole, and per service process a *)
(* map in memory.  The steps of opening and of writing are apart, because  *)
(* a process can be killed between them and because nothing keeps a second *)
(* service process from running (main.rs opens the storage before it finds *)
(* the IPC socket taken, and goes on without it).  Nothing is synced, so a *)
(* power loss may take the file back to any state since the last one.      *)
(* The keyring and the file system are external; what the keyring accepts  *)
(* is taken to last.                                                       *)
(***************************************************************************)
EXTENDS Integers

CONSTANTS
    Procs,          \* service processes
    Ids,            \* keys of the map, one per device ("session_" and its MAC)
    MaxMasters,     \* bound: master keys generated
    MaxValues       \* bound: values set

ASSUME BoundAssumption == MaxMasters \in Nat /\ MaxValues \in Nat

VARIABLES
    keyring,    \* the persisted master key, 0: none
    file,       \* the db file: its state and, when intact, the map it holds
    pc,         \* where each process is
    master,     \* the master key each process made its cipher from
    db,         \* the map in memory of each process
    pending,    \* the id a process is writing
    older,      \* the maps the file has held whole, before, since the last power loss
    lastMaster, lastValue,   \* the newest master key and value
    (* history *)
    acked,      \* per id the last value whose set() returned Ok, and which no
                \* power loss took back
    replaced,   \* a master key of the keyring was overwritten
    shared      \* two processes were up at the same time

history == <<acked, replaced, shared>>
vars == <<keyring, file, older, pc, master, db, pending, lastMaster, lastValue, history>>

\* An entry: the value and the master key it is sealed with.
Empty == [by |-> 0, val |-> 0]
Entries == {Empty} \cup [by : Nat \ {0}, val : Nat \ {0}]
EmptyMap == [i \in Ids |-> Empty]
AbsentFile == [state |-> "absent", map |-> EmptyMap]
TornFile   == [state |-> "torn", map |-> EmptyMap]
Intact(m)  == [state |-> "intact", map |-> m]

\* What "older" is once the file is written to.
Outdated == IF file.state = "torn" THEN older ELSE older \cup {file.map}

Running == {"ready", "flush", "write"}
Points == {"off", "setkey", "load", "refused"} \cup Running

At(p, here, next) == pc[p] = here /\ pc' = [pc EXCEPT ![p] = next]

\* A process leaves "off".
Starts(p, next) == /\ At(p, "off", next)
                   /\ shared' = (shared \/ \E q \in Procs \ {p} : pc[q] # "off")

Init == /\ keyring \in {0, 1}
        /\ lastMaster = keyring
        /\ file = AbsentFile /\ older = {}
        /\ pc = [p \in Procs |-> "off"]
        /\ master = [p \in Procs |-> 0]
        /\ db = [p \in Procs |-> EmptyMap]
        /\ pending \in [Procs -> Ids] /\ \A p, q \in Procs : pending[p] = pending[q]
        /\ lastValue = 0
        /\ acked = [i \in Ids |-> 0] /\ replaced = FALSE /\ shared = FALSE

-----------------------------------------------------------------------------
(* StorageService::new *)

\* get_secret returned a key of the right length.
FindMaster(p) ==
    /\ Starts(p, "load") /\ keyring # 0
    /\ master' = [master EXCEPT ![p] = keyring]
    /\ UNCHANGED <<keyring, file, older, db, pending, lastMaster, lastValue, acked, replaced>>

\* Any other outcome, an error of a keyring that has a key included, makes a
\* new one.
GenerateMaster(p) ==
    /\ Starts(p, "setkey") /\ lastMaster < MaxMasters
    /\ lastMaster' = lastMaster + 1
    /\ master' = [master EXCEPT ![p] = lastMaster']
    /\ UNCHANGED <<keyring, file, older, db, pending, lastValue, acked, replaced>>

\* Faulty: without a keyring the process goes on without a key.
SaveMasterOptional(p) ==
    /\ At(p, "setkey", "load")
    /\ \/ keyring' = master[p] /\ UNCHANGED master
       \/ master' = [master EXCEPT ![p] = 0] /\ UNCHANGED keyring
    /\ replaced' = (replaced \/ keyring # 0)
    /\ UNCHANGED <<file, older, db, pending, lastMaster, lastValue, acked, shared>>

\* Faulty: the error of set_secret is ignored.
SaveMasterIgnored(p) ==
    /\ At(p, "setkey", "load") /\ keyring' \in {keyring, master[p]}
    /\ replaced' = (replaced \/ keyring # 0)
    /\ UNCHANGED <<file, older, master, db, pending, lastMaster, lastValue, acked, shared>>

\* set_secret overwrites what is there; its error ends the process.
SaveMaster(p) ==
    /\ \/ /\ At(p, "setkey", "load") /\ keyring' = master[p]
          /\ replaced' = (replaced \/ keyring # 0)
       \/ At(p, "setkey", "off") /\ UNCHANGED <<keyring, replaced>>
    /\ UNCHANGED <<file, older, master, db, pending, lastMaster, lastValue, acked, shared>>

\* Faulty: a file that does not parse counts as an empty one.
LoadFileAnyway(p) ==
    /\ At(p, "load", "ready")
    /\ db' = [db EXCEPT ![p] = file.map]
    /\ UNCHANGED <<keyring, file, older, master, pending, lastMaster, lastValue, history>>

\* A file that does not parse is an error, and main returns.
LoadFile(p) ==
    /\ \/ /\ file.state # "torn" /\ At(p, "load", "ready")
          /\ db' = [db EXCEPT ![p] = file.map]
       \/ file.state = "torn" /\ At(p, "load", "refused") /\ UNCHANGED db
    /\ UNCHANGED <<keyring, file, older, master, pending, lastMaster, lastValue, history>>

-----------------------------------------------------------------------------
(* get, set and flush; nothing in the program calls delete *)

\* get: the entry is there and this process's cipher opens it.
Readable(p, i) == db[p][i] # Empty /\ db[p][i].by = master[p]

\* set: into the map first, then the whole map is written.
Set(p, i) ==
    /\ At(p, "ready", "flush") /\ lastValue < MaxValues
    /\ lastValue' = lastValue + 1
    /\ db' = [db EXCEPT ![p][i] = [by |-> master[p], val |-> lastValue']]
    /\ pending' = [pending EXCEPT ![p] = i]
    /\ UNCHANGED <<keyring, file, older, master, lastMaster, history>>

\* fs::write empties the file, or fails before it does.
OpenFile(p) ==
    /\ \/ At(p, "flush", "write") /\ file' = TornFile /\ older' = Outdated
       \/ At(p, "flush", "ready") /\ UNCHANGED <<file, older>>
    /\ UNCHANGED <<keyring, master, db, pending, lastMaster, lastValue, history>>

\* Faulty: only the entry that was set is written.
WriteEntry(p) ==
    /\ At(p, "write", "ready") /\ older' = Outdated
    /\ file' = Intact([EmptyMap EXCEPT ![pending[p]] = db[p][pending[p]]])
    /\ acked' = [acked EXCEPT ![pending[p]] = db[p][pending[p]].val]
    /\ UNCHANGED <<keyring, master, db, pending, lastMaster, lastValue, replaced, shared>>

\* ... and fills it, or fails half way. Two processes that write at the same
\* time may leave a mixture: both still write, or the other one is done and
\* what it wrote was longer.
WriteFile(p) ==
    /\ At(p, "write", "ready") /\ older' = Outdated
    /\ \/ /\ file' = Intact(db[p])
          /\ acked' = [acked EXCEPT ![pending[p]] = db[p][pending[p]].val]
       \/ file' = TornFile /\ UNCHANGED acked
       \/ /\ (\E q \in Procs \ {p} : pc[q] = "write") \/ file.state = "intact"
          /\ file' = TornFile
          /\ acked' = [acked EXCEPT ![pending[p]] = db[p][pending[p]].val]
    /\ UNCHANGED <<keyring, master, db, pending, lastMaster, lastValue, replaced, shared>>

\* The process ends, killed or because opening failed.
Stop(p) ==
    /\ pc[p] # "off"
    /\ pc' = [pc EXCEPT ![p] = "off"]
    /\ master' = [master EXCEPT ![p] = 0]
    /\ db' = [db EXCEPT ![p] = EmptyMap]
    /\ UNCHANGED <<keyring, file, older, pending, lastMaster, lastValue, history>>

\* The machine loses power: of what was written, some states of the file may not
\* have reached the medium.
LosePower ==
    /\ pc' = [p \in Procs |-> "off"]
    /\ master' = [p \in Procs |-> 0] /\ db' = [p \in Procs |-> EmptyMap]
    /\ older' = {}
    /\ \/ UNCHANGED <<file, acked>>
       \/ older # {} /\ file' = TornFile /\ UNCHANGED acked
       \/ \E m \in older :
             /\ file' = Intact(m)
             /\ acked' = [i \in Ids |-> IF m[i].val < acked[i] THEN m[i].val ELSE acked[i]]
    /\ UNCHANGED <<keyring, pending, lastMaster, lastValue, replaced, shared>>

Open(p)  == FindMaster(p) \/ GenerateMaster(p) \/ SaveMaster(p) \/ LoadFile(p)
Write(p) == OpenFile(p) \/ WriteFile(p) \/ \E i \in Ids : Set(p, i)

Next == LosePower \/ \E p \in Procs : Open(p) \/ Write(p) \/ Stop(p)

Spec == Init /\ [][Next]_vars

-----------------------------------------------------------------------------
(* Properties *)

Maps == [Ids -> Entries]

\* Types; an entry is never half there: it has a value exactly when it has a seal.
TypeOK ==
    /\ keyring \in Nat /\ lastMaster \in Nat /\ lastValue \in Nat
    /\ file \in [state : {"absent", "torn", "intact"}, map : Maps]
    /\ pc \in [Procs -> Points]
    /\ master \in [Procs -> Nat]
    /\ db \in [Procs -> Maps]
    /\ pending \in [Procs -> Ids] /\ older \subseteq Maps
    /\ acked \in [Ids -> Nat] /\ replaced \in BOOLEAN /\ shared \in BOOLEAN

\* Whatever is in a map can be decrypted, as long as no master key of the
\* keyring was overwritten, as a keyring error and racing first starts do: no
\* refused key, failed write, kill or power loss strands a pairing under a key
\* nobody has (new, get and set).
EntriesReadable ==
    ~replaced => \A p \in Procs : pc[p] \in Running =>
                    \A i \in Ids : db[p][i] # Empty => Readable(p, i)

\* A set() that returned Ok is kept until a power loss takes the file back, as
\* long as no two processes ran at once: a running process has that value or a
\* newer attempt in memory, and a file that parses has it too, or a newer value
\* (set, flush and new; no start parses a torn file).
AckedIsKept ==
    ~shared => \A i \in Ids :
        /\ \A p \in Procs : pc[p] \in Running => db[p][i].val >= acked[i]
        /\ file.state # "torn" => file.map[i].val >= acked[i]

=============================================================================
