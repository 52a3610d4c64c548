---------------------------- MODULE StorageProofs ----------------------------
(***************************************************************************)
(* Proofs about Storage for any number of service processes, devices,      *)
(* master keys and values.                                                 *)
(***************************************************************************)
EXTENDS StorageHistory, TLAPS

-----------------------------------------------------------------------------
(* Types *)

\* A process past the keyring has a cipher.
HasCipher == {"setkey", "load"} \cup Running
CiphersMade == \A p \in Procs : pc[p] \in HasCipher => master[p] # 0

TypeInv == TypeOK /\ CiphersMade

LEMMA MapsOfEntries ==
    /\ EmptyMap \in Maps
    /\ AbsentFile \in [state : {"absent", "torn", "intact"}, map : Maps]
    /\ TornFile \in [state : {"absent", "torn", "intact"}, map : Maps]
    /\ \A m \in Maps : Intact(m) \in [state : {"absent", "torn", "intact"}, map : Maps]
BY DEF EmptyMap, Maps, Entries, Empty, AbsentFile, TornFile, Intact

\* A process that starts notes whether another is up.
LEMMA Noted ==
    ASSUME NEW p \in Procs, NEW next, Starts(p, next), shared \in BOOLEAN
    PROVE  /\ shared' \in BOOLEAN /\ pc[p] = "off" /\ pc' = [pc EXCEPT ![p] = next]
           /\ ~shared' => ~shared /\ \A q \in Procs \ {p} : pc[q] = "off"
<1>1. shared' \in BOOLEAN
  BY DEF Starts
<1>2. ~shared' => ~shared /\ \A q \in Procs \ {p} : pc[q] = "off"
  BY DEF Starts
<1>3. pc[p] = "off" /\ pc' = [pc EXCEPT ![p] = next]
  BY DEF Starts, At
<1> QED
  BY <1>1, <1>2, <1>3

\* What SaveMaster does to the keyring and to the history of it.
LEMMA Saved ==
    ASSUME NEW p \in Procs, SaveMaster(p), replaced \in BOOLEAN
    PROVE  /\ replaced' \in BOOLEAN
           /\ \/ /\ At(p, "setkey", "load") /\ keyring' = master[p]
                 /\ ~replaced' => ~replaced /\ keyring = 0
              \/ At(p, "setkey", "off") /\ UNCHANGED <<keyring, replaced>>
<1>1. CASE /\ At(p, "setkey", "load") /\ keyring' = master[p]
           /\ replaced' = (replaced \/ keyring # 0)
  <2>1. replaced' \in BOOLEAN /\ (~replaced' => ~replaced /\ keyring = 0)
    BY <1>1
  <2> QED
    BY <1>1, <2>1
<1>2. CASE At(p, "setkey", "off") /\ UNCHANGED <<keyring, replaced>>
  BY <1>2
<1> QED
  BY <1>1, <1>2 DEF SaveMaster

LEMMA TypeInit == Init => TypeInv
<1> SUFFICES ASSUME Init PROVE TypeInv
  OBVIOUS
<1>0. "off" \in Points
  BY DEF Points, Running
<1>1. TypeOK
  <2>1. keyring \in Nat /\ lastMaster \in Nat /\ lastValue \in Nat
    BY DEF Init
  <2>2. /\ pc \in [Procs -> Points] /\ master \in [Procs -> Nat] /\ acked \in [Ids -> Nat]
        /\ pending \in [Procs -> Ids] /\ replaced \in BOOLEAN /\ shared \in BOOLEAN
        /\ older \subseteq Maps
    BY <1>0 DEF Init
  <2>3. file \in [state : {"absent", "torn", "intact"}, map : Maps] /\ db \in [Procs -> Maps]
    BY MapsOfEntries DEF Init
  <2> QED
    BY <2>1, <2>2, <2>3 DEF TypeOK
<1>2. CiphersMade
  BY DEF Init, CiphersMade, HasCipher, Running
<1> QED
  BY <1>1, <1>2 DEF TypeInv

LEMMA TypeStep == TypeInv /\ [Next]_vars => TypeInv'
<1> SUFFICES ASSUME TypeInv, [Next]_vars PROVE TypeInv'
  OBVIOUS
<1> USE DEF TypeInv, TypeOK, CiphersMade, HasCipher, Points, Running, At
<1>1. ASSUME NEW p \in Procs, FindMaster(p) \/ GenerateMaster(p) PROVE TypeInv'
  <2>1. CASE FindMaster(p)
    <3>1. shared' \in BOOLEAN /\ pc' = [pc EXCEPT ![p] = "load"]
      BY <2>1, Noted DEF FindMaster
    <3> QED
      BY <2>1, <3>1 DEF FindMaster
  <2>2. CASE GenerateMaster(p)
    <3>1. shared' \in BOOLEAN /\ pc' = [pc EXCEPT ![p] = "setkey"]
      BY <2>2, Noted DEF GenerateMaster
    <3> QED
      BY <2>2, <3>1 DEF GenerateMaster
  <2> QED
    BY <1>1, <2>1, <2>2
<1>2. ASSUME NEW p \in Procs, SaveMaster(p) PROVE TypeInv'
  <2>1. /\ replaced' \in BOOLEAN /\ keyring' \in Nat
        /\ pc[p] = "setkey"
        /\ pc' = [pc EXCEPT ![p] = "load"] \/ pc' = [pc EXCEPT ![p] = "off"]
    BY <1>2, Saved
  <2> QED
    BY <1>2, <2>1 DEF SaveMaster
<1>3. ASSUME NEW p \in Procs, LoadFile(p) PROVE TypeInv'
  BY <1>3 DEF LoadFile, history
<1>4. ASSUME NEW p \in Procs, NEW i \in Ids, Set(p, i) PROVE TypeInv'
  <2>1. master[p] \in Nat \ {0} /\ lastValue' \in Nat \ {0}
    BY <1>4 DEF Set
  <2>2. [by |-> master[p], val |-> lastValue'] \in Entries
    BY <2>1 DEF Entries
  <2>3. db' \in [Procs -> Maps]
    BY <1>4, <2>2 DEF Set, Maps
  <2> QED
    BY <1>4, <2>1, <2>3 DEF Set, history
<1>0. Outdated \subseteq Maps
  BY DEF Outdated
<1>5. ASSUME NEW p \in Procs, OpenFile(p) PROVE TypeInv'
  BY <1>0, <1>5, MapsOfEntries DEF OpenFile, history
<1>6. ASSUME NEW p \in Procs, WriteFile(p) PROVE TypeInv'
  <2>1. db[p] \in Maps /\ db[p][pending[p]] \in Entries
    BY <1>6 DEF Maps
  <2>2. db[p][pending[p]].val \in Nat
    BY <2>1 DEF Entries, Empty
  <2>3. acked' \in [Ids -> Nat]
    BY <1>6, <2>2 DEF WriteFile
  <2>4. file' \in [state : {"absent", "torn", "intact"}, map : Maps]
    BY <1>6, <2>1, MapsOfEntries DEF WriteFile
  <2> QED
    BY <1>0, <1>6, <2>3, <2>4 DEF WriteFile
<1>7. ASSUME NEW p \in Procs, Stop(p) PROVE TypeInv'
  BY <1>7, MapsOfEntries DEF Stop, history
<1>8. CASE LosePower
  <2>1. file' \in [state : {"absent", "torn", "intact"}, map : Maps]
    BY <1>8, MapsOfEntries DEF LosePower
  <2>2. \A m \in older, i \in Ids : m[i].val \in Nat
    BY DEF Maps, Entries, Empty
  <2>3. acked' \in [Ids -> Nat]
    BY <1>8, <2>2 DEF LosePower
  <2> QED
    BY <1>8, <2>1, <2>3, MapsOfEntries DEF LosePower
<1>9. CASE UNCHANGED vars
  BY <1>9 DEF vars, history
<1> QED
  BY <1>1, <1>2, <1>3, <1>4, <1>5, <1>6, <1>7, <1>8, <1>9 DEF Next, Open, Write

\* No start, failed write, kill or power loss makes an entry that has a seal and no value, or
\* a value and no seal.
THEOREM StorageTypeCorrectness == Spec => []TypeOK
<1>1. TypeInv => TypeOK
  BY DEF TypeInv
<1> QED
  BY <1>1, TypeInit, TypeStep, PTL DEF Spec

-----------------------------------------------------------------------------
(* One master key *)

\* A process that has read the keyring was served by it, and unless the key in
\* the keyring was overwritten, whatever is in a map, in the file or in one a power
\* loss may bring back is sealed with it, and each process has it.
SealInv ==
    /\ \A p \in Procs : pc[p] \in {"load"} \cup Running => keyring # 0
    /\ ~replaced =>
          /\ \A p \in Procs : pc[p] \in {"load"} \cup Running => master[p] = keyring
          /\ \A p \in Procs : pc[p] \in Running =>
                \A i \in Ids : db[p][i] # Empty => db[p][i].by = keyring
          /\ \A m \in {file.map} \cup older : \A i \in Ids : m[i] # Empty => m[i].by = keyring

LEMMA SealInit == Init => SealInv
BY DEF Init, SealInv, AbsentFile, EmptyMap, Running

LEMMA SealStep == TypeInv /\ SealInv /\ [Next]_vars => SealInv'
<1> SUFFICES ASSUME TypeInv, SealInv, [Next]_vars PROVE SealInv'
  OBVIOUS
<1>0. /\ keyring \in Nat /\ pc \in [Procs -> Points] /\ master \in [Procs -> Nat]
      /\ db \in [Procs -> [Ids -> Entries]] /\ replaced \in BOOLEAN
      /\ \A p \in Procs : pc[p] = "setkey" => master[p] # 0
      /\ \A m \in {file.map} \cup older : \A i \in Ids : m[i] \in Entries
  BY DEF TypeInv, TypeOK, CiphersMade, HasCipher, Maps
<1>00. \A m \in Outdated : m \in {file.map} \cup older
  BY DEF Outdated
<1> USE DEF SealInv, Running, At
<1>1. ASSUME NEW p \in Procs, FindMaster(p) \/ GenerateMaster(p) PROVE SealInv'
  <2>1. CASE FindMaster(p)
    <3>1. pc' = [pc EXCEPT ![p] = "load"]
      BY <2>1 DEF FindMaster, Starts
    <3> QED
      BY <1>0, <2>1, <3>1 DEF FindMaster
  <2>2. CASE GenerateMaster(p)
    <3>1. pc' = [pc EXCEPT ![p] = "setkey"]
      BY <2>2 DEF GenerateMaster, Starts
    <3> QED
      BY <1>0, <2>2, <3>1 DEF GenerateMaster
  <2> QED
    BY <1>1, <2>1, <2>2
<1>2. ASSUME NEW p \in Procs, SaveMaster(p) PROVE SealInv'
  <2>1. CASE At(p, "setkey", "load") /\ keyring' = master[p] /\ keyring = 0
    <3>1. \A q \in Procs : pc[q] \notin {"load"} \cup Running
      BY <2>1
    <3>2. ~replaced => \A m \in {file.map} \cup older : \A i \in Ids : m[i] = Empty
      BY <1>0, <2>1 DEF Entries
    <3> QED
      BY <1>0, <1>2, <2>1, <3>1, <3>2 DEF SaveMaster
  <2>2. CASE At(p, "setkey", "load") /\ keyring' = master[p] /\ keyring # 0
    BY <1>0, <1>2, <2>2 DEF SaveMaster
  <2>3. CASE At(p, "setkey", "off")
    BY <1>0, <1>2, <2>3 DEF SaveMaster
  <2> QED
    BY <1>2, <2>1, <2>2, <2>3 DEF SaveMaster
<1>3. ASSUME NEW p \in Procs, LoadFile(p) PROVE SealInv'
  BY <1>0, <1>3 DEF LoadFile, history
<1>4. ASSUME NEW p \in Procs, NEW i \in Ids, Set(p, i) PROVE SealInv'
  <2>1. \A q \in Procs, j \in Ids :
           db'[q][j] = db[q][j] \/ (q = p /\ j = i /\ db'[q][j].by = master[p])
    BY <1>0, <1>4 DEF Set
  <2> QED
    BY <1>0, <1>4, <2>1 DEF Set, history
<1>5. ASSUME NEW p \in Procs, OpenFile(p) PROVE SealInv'
  <2>1. \A m \in {file'.map} \cup older' : m \in {file.map} \cup older \/ m = EmptyMap
    BY <1>00, <1>5 DEF OpenFile, TornFile
  <2> QED
    BY <1>0, <1>5, <2>1 DEF OpenFile, history, EmptyMap
<1>6. ASSUME NEW p \in Procs, WriteFile(p) PROVE SealInv'
  <2>1. \A m \in {file'.map} \cup older' :
           m \in {file.map} \cup older \/ m = db[p] \/ m = EmptyMap
    BY <1>00, <1>6 DEF WriteFile, Intact, TornFile
  <2> QED
    BY <1>0, <1>6, <2>1 DEF WriteFile, EmptyMap
<1>7. ASSUME NEW p \in Procs, Stop(p) PROVE SealInv'
  BY <1>0, <1>7 DEF Stop, history
<1>8. CASE LosePower
  <2>1. \A m \in {file'.map} \cup older' : m \in {file.map} \cup older \/ m = EmptyMap
    BY <1>8 DEF LosePower, Intact, TornFile
  <2>2. UNCHANGED <<keyring, replaced>> /\ \A p \in Procs : pc'[p] = "off"
    BY <1>8 DEF LosePower
  <2> QED
    BY <1>0, <2>1, <2>2 DEF EmptyMap
<1>9. CASE UNCHANGED vars
  BY <1>9 DEF vars, history
<1> QED
  BY <1>1, <1>2, <1>3, <1>4, <1>5, <1>6, <1>7, <1>8, <1>9 DEF Next, Open, Write

\* As long as no master key of the keyring is overwritten, no sequence of starts,
\* failed writes, kills and power losses strands an entry under a key nobody has any more.
THEOREM EntriesStayReadable == Spec => []EntriesReadable
<1>1. SealInv => EntriesReadable
  BY DEF SealInv, EntriesReadable, Readable, Running
<1> QED
  BY <1>1, TypeInit, TypeStep, SealInit, SealStep, PTL DEF Spec

-----------------------------------------------------------------------------
(* What was acknowledged *)

ValuesGrow ==
    \A i \in Ids : /\ acked[i] <= lastValue /\ file.map[i].val <= lastValue
                   /\ \A p \in Procs : db[p][i].val <= lastValue
                   /\ \A m \in older : m[i].val <= lastValue

\* Processes that never ran at once took turns.
OneAtATime == ~shared => \A p, q \in Procs : pc[p] # "off" /\ pc[q] # "off" => p = q

\* While a process that never met another writes, the file is torn.
WriteTears == ~shared => \A p \in Procs : pc[p] = "write" => file.state = "torn"

KeptInv == ValuesGrow /\ OneAtATime /\ WriteTears /\ AckedIsKept

LEMMA Numbers ==
    TypeInv => /\ acked \in [Ids -> Nat] /\ lastValue \in Nat /\ pending \in [Procs -> Ids]
               /\ \A i \in Ids : file.map[i].val \in Nat
               /\ \A p \in Procs, i \in Ids : db[p][i].val \in Nat
               /\ \A m \in older, i \in Ids : m[i].val \in Nat
               /\ db \in [Procs -> [Ids -> Entries]] /\ pc \in [Procs -> Points]
               /\ shared \in BOOLEAN /\ file.state \in {"absent", "torn", "intact"}
<1> SUFFICES ASSUME TypeInv
             PROVE  /\ \A i \in Ids : file.map[i].val \in Nat
                    /\ \A p \in Procs, i \in Ids : db[p][i].val \in Nat
                    /\ \A m \in older, i \in Ids : m[i].val \in Nat
  BY DEF TypeInv, TypeOK, Maps
<1>1. \A e \in Entries : e.val \in Nat
  BY DEF Entries, Empty
<1> QED
  BY <1>1 DEF TypeInv, TypeOK, Maps

LEMMA KeptInit == Init => KeptInv
BY DEF Init, KeptInv, ValuesGrow, OneAtATime, WriteTears, AckedIsKept, AbsentFile, EmptyMap, Empty, Running

LEMMA KeptStep == TypeInv /\ KeptInv /\ [Next]_vars => KeptInv'
<1> SUFFICES ASSUME TypeInv, KeptInv, [Next]_vars PROVE KeptInv'
  OBVIOUS
<1>0. /\ acked \in [Ids -> Nat] /\ lastValue \in Nat /\ pending \in [Procs -> Ids]
      /\ \A i \in Ids : file.map[i].val \in Nat
      /\ \A p \in Procs, i \in Ids : db[p][i].val \in Nat
      /\ \A m \in older, i \in Ids : m[i].val \in Nat
      /\ db \in [Procs -> [Ids -> Entries]] /\ pc \in [Procs -> Points]
      /\ shared \in BOOLEAN /\ file.state \in {"absent", "torn", "intact"}
  BY Numbers
<1>00. \A i \in Ids : EmptyMap[i].val = 0
  BY DEF EmptyMap, Empty
<1>01. \A m \in Outdated, i \in Ids : m[i].val <= lastValue
  BY DEF Outdated, KeptInv, ValuesGrow
<1> USE DEF KeptInv, ValuesGrow, OneAtATime, WriteTears, AckedIsKept, Running, At
<1>1. ASSUME NEW p \in Procs, FindMaster(p) \/ GenerateMaster(p) PROVE KeptInv'
  <2>1. PICK next \in {"load", "setkey"} : Starts(p, next)
    BY <1>1 DEF FindMaster, GenerateMaster
  <2>2. /\ pc' = [pc EXCEPT ![p] = next] /\ pc[p] = "off"
        /\ ~shared' => ~shared /\ \A q \in Procs \ {p} : pc[q] = "off"
    BY <1>0, <2>1, Noted
  <2>3. UNCHANGED <<db, file, older, acked, lastValue>>
    BY <1>1 DEF FindMaster, GenerateMaster
  <2> QED
    BY <1>0, <2>2, <2>3
<1>2. ASSUME NEW p \in Procs, SaveMaster(p) PROVE KeptInv'
  BY <1>0, <1>2 DEF SaveMaster
<1>3. ASSUME NEW p \in Procs, LoadFile(p) PROVE KeptInv'
  BY <1>0, <1>3 DEF LoadFile, history
<1>4. ASSUME NEW p \in Procs, NEW i \in Ids, Set(p, i) PROVE KeptInv'
  <2>1. \A q \in Procs, j \in Ids :
           db'[q][j] = db[q][j] \/ (q = p /\ j = i /\ db'[q][j].val = lastValue')
    BY <1>0, <1>4 DEF Set
  <2>2. lastValue' = lastValue + 1
    BY <1>4 DEF Set
  <2> QED
    BY <1>0, <1>4, <2>1, <2>2 DEF Set, history
<1>5. ASSUME NEW p \in Procs, OpenFile(p) PROVE KeptInv'
  <2>1. /\ pc[p] = "flush"
        /\ pc' = [pc EXCEPT ![p] = "write"] \/ pc' = [pc EXCEPT ![p] = "ready"]
        /\ UNCHANGED <<db, acked, lastValue, shared>>
    BY <1>5 DEF OpenFile, history
  <2>2. \/ file' = file
        \/ file'.state = "torn" /\ \A i \in Ids : file'.map[i].val = 0
    BY <1>00, <1>5 DEF OpenFile, TornFile
  <2>3. \A q \in Procs : (pc'[q] \in Running <=> pc[q] \in Running)
                         /\ (pc'[q] # "off" <=> pc[q] # "off")
    BY <1>0, <2>1
  <2>4. \A m \in older', i \in Ids : m[i].val <= lastValue
    BY <1>01, <1>5 DEF OpenFile
  <2>5. ValuesGrow' /\ OneAtATime'
    BY <1>0, <2>1, <2>2, <2>3, <2>4
  <2>6. WriteTears'
    BY <1>0, <1>5, <2>1 DEF OpenFile, TornFile
  <2>7. AckedIsKept'
    BY <1>0, <2>1, <2>2, <2>3
  <2> QED
    BY <2>5, <2>6, <2>7
<1>6. ASSUME NEW p \in Procs, WriteFile(p) PROVE KeptInv'
  <2>1. /\ pc[p] = "write" /\ pc' = [pc EXCEPT ![p] = "ready"]
        /\ UNCHANGED <<db, lastValue, shared>>
    BY <1>6 DEF WriteFile
  <2>2. \/ /\ file'.state = "intact" /\ file'.map = db[p]
           /\ acked' = [acked EXCEPT ![pending[p]] = db[p][pending[p]].val]
        \/ file'.state = "torn" /\ file'.map = EmptyMap /\ acked' = acked
        \/ /\ file'.state = "torn" /\ file'.map = EmptyMap /\ shared
           /\ acked' = [acked EXCEPT ![pending[p]] = db[p][pending[p]].val]
    <3>1. ASSUME NEW q \in Procs \ {p}, pc[q] = "write" PROVE shared
      BY <1>0, <2>1, <3>1
    <3>2. file.state = "intact" => shared
      BY <1>0, <2>1
    <3> QED
      BY <1>6, <3>1, <3>2 DEF WriteFile, Intact, TornFile
  <2>3. \A m \in older', i \in Ids : m[i].val <= lastValue
    BY <1>01, <1>6 DEF WriteFile
  <2>4. ValuesGrow' /\ OneAtATime'
    BY <1>0, <1>00, <2>1, <2>2, <2>3
  <2>5. WriteTears'
    <3>1. ASSUME ~shared, NEW q \in Procs PROVE pc'[q] # "write"
      BY <1>0, <2>1, <3>1
    <3> QED
      BY <2>1, <3>1
  <2>6. AckedIsKept'
    BY <1>0, <2>1, <2>2
  <2> QED
    BY <2>4, <2>5, <2>6
<1>7. ASSUME NEW p \in Procs, Stop(p) PROVE KeptInv'
  BY <1>0, <1>00, <1>7 DEF Stop, history
<1>8. CASE LosePower
  <2>1. /\ \A p \in Procs : pc'[p] = "off" /\ db'[p] = EmptyMap
        /\ older' = {} /\ UNCHANGED <<lastValue, shared>>
    BY <1>8 DEF LosePower
  <2>2. CASE UNCHANGED <<file, acked>>
    BY <1>0, <1>00, <2>1, <2>2
  <2>3. CASE file' = TornFile /\ UNCHANGED acked
    BY <1>0, <1>00, <2>1, <2>3 DEF TornFile
  <2>4. ASSUME NEW m \in older, file' = Intact(m),
               acked' = [i \in Ids |-> IF m[i].val < acked[i] THEN m[i].val ELSE acked[i]]
        PROVE  KeptInv'
    <3>1. \A i \in Ids : acked'[i] <= acked[i] /\ acked'[i] <= m[i].val
      BY <1>0, <2>4
    <3>2. file'.map = m
      BY <2>4 DEF Intact
    <3> QED
      BY <1>0, <1>00, <2>1, <2>4, <3>1, <3>2
  <2> QED
    BY <1>8, <2>2, <2>3, <2>4 DEF LosePower
<1>9. CASE UNCHANGED vars
  BY <1>9 DEF vars, history
<1> QED
  BY <1>1, <1>2, <1>3, <1>4, <1>5, <1>6, <1>7, <1>8, <1>9 DEF Next, Open, Write

\* A value whose set() returned Ok is not lost to any sequence of starts, failed
\* writes and kills, unless two processes ran at once or a power loss took the
\* file back to an earlier state.
THEOREM AckedStaysKept == Spec => []AckedIsKept
<1>1. KeptInv => AckedIsKept
  BY DEF KeptInv
<1> QED
  BY <1>1, TypeInit, TypeStep, KeptInit, KeptStep, PTL DEF Spec

-----------------------------------------------------------------------------
(* What the BLE task relies on *)

HistoryInv == TypeInv /\ KeptInv /\ HistoryTypeOK /\ SetIsOne /\ FileIsIntact /\ MasterIsNew

LEMMA HistoryInitial == HistoryInit => HistoryInv
<1> SUFFICES ASSUME HistoryInit PROVE HistoryInv
  OBVIOUS
<1>1. Init
  BY DEF HistoryInit
<1>2. HistoryTypeOK
  BY <1>1, MapsOfEntries DEF HistoryInit, Init, HistoryTypeOK
<1>3. SetIsOne /\ FileIsIntact
  BY <1>1 DEF HistoryInit, Init, SetIsOne, FileIsIntact, Setting, AbsentFile
<1>4. MasterIsNew
  BY <1>1 DEF HistoryInit, Init, MasterIsNew, Sealing, EmptyMap, Empty, Running
<1> QED
  BY <1>1, <1>2, <1>3, <1>4, TypeInit, KeptInit DEF HistoryInv

\* A set that begins puts one entry, under its own cipher, into the map of one
\* process, and only then does a process come to be setting.
LEMMA SettingStep ==
    ASSUME TypeInv, Next, NEW p \in Procs, pc'[p] \in Setting
    PROVE  /\ master'[p] = master[p]
           /\ \/ pc[p] \in Setting /\ db'[p] = db[p] /\ pending'[p] = pending[p]
              \/ /\ pc[p] = "ready" /\ db'[p][pending'[p]].by = master[p]
                 /\ \A i \in Ids \ {pending'[p]} : db'[p][i] = db[p][i]
<1>0. /\ pc \in [Procs -> Points] /\ db \in [Procs -> Maps] /\ pending \in [Procs -> Ids]
      /\ master \in [Procs -> Nat]
  BY DEF TypeInv, TypeOK
<1> USE DEF Setting, At
<1>1. ASSUME NEW q \in Procs, FindMaster(q) \/ GenerateMaster(q) \/ SaveMaster(q)
      PROVE  pc[p] \in Setting /\ master'[p] = master[p] /\ UNCHANGED <<db, pending>>
  BY <1>0, <1>1 DEF FindMaster, GenerateMaster, SaveMaster, Starts
<1>2. ASSUME NEW q \in Procs, LoadFile(q) \/ Stop(q)
      PROVE  /\ pc[p] \in Setting /\ master'[p] = master[p]
             /\ db'[p] = db[p] /\ pending' = pending
  BY <1>0, <1>2 DEF LoadFile, Stop
<1>3. ASSUME NEW q \in Procs, OpenFile(q) \/ WriteFile(q)
      PROVE  pc[p] \in Setting /\ UNCHANGED <<master, db, pending>>
  BY <1>0, <1>3 DEF OpenFile, WriteFile
<1>4. ASSUME NEW q \in Procs, NEW i \in Ids, Set(q, i)
      PROVE  /\ master' = master
             /\ \/ pc[p] \in Setting /\ db'[p] = db[p] /\ pending'[p] = pending[p]
                \/ /\ pc[p] = "ready" /\ db'[p][pending'[p]].by = master[p]
                   /\ \A j \in Ids \ {pending'[p]} : db'[p][j] = db[p][j]
  BY <1>0, <1>4 DEF Set, Maps
<1>5. ~LosePower
  BY DEF LosePower
<1> QED
  BY <1>1, <1>2, <1>3, <1>4, <1>5 DEF Next, Open, Write

\* The maps that may be in the file after a step: those before it, that of a
\* process that writes, and none.
LEMMA SealingStep ==
    ASSUME HistoryInv, HistoryNext, NEW m \in Sealing'
    PROVE  \/ m \in Sealing
           \/ \E p \in Procs : WriteFile(p) /\ m = db[p]
<1>1. intact' = IF file'.state = "torn" THEN intact ELSE file'.map
  BY DEF HistoryNext
<1>2. file.state # "torn" => file.map = intact
  BY DEF HistoryInv, FileIsIntact
<1>3. Outdated \subseteq Sealing
  BY <1>2 DEF Outdated, Sealing
<1>4. older' \subseteq Sealing
  BY <1>3
     DEF HistoryNext, Next, Open, Write, FindMaster, GenerateMaster, SaveMaster, LoadFile, Set,
         OpenFile, WriteFile, Stop, LosePower, Sealing
<1>5. CASE LosePower
  <2>1. intact' \in Sealing
    BY <1>1, <1>2, <1>5 DEF LosePower, Intact, TornFile, Sealing
  <2> QED
    BY <1>4, <2>1 DEF Sealing
<1>6. CASE ~LosePower
  <2>1. \/ UNCHANGED file
        \/ file'.state = "torn"
        \/ \E p \in Procs : WriteFile(p) /\ file' = Intact(db[p])
    BY <1>6
       DEF HistoryNext, Next, Open, Write, FindMaster, GenerateMaster, SaveMaster, LoadFile,
           Set, OpenFile, WriteFile, Stop, TornFile
  <2>2. intact' \in Sealing \/ \E p \in Procs : WriteFile(p) /\ intact' = db[p]
    BY <1>1, <1>2, <2>1 DEF Intact, Sealing
  <2> QED
    BY <1>4, <2>2 DEF Sealing
<1> QED
  BY <1>5, <1>6

\* The numbers of master keys: those of the sealed entries are generated ones.
LEMMA SealNumbers ==
    ASSUME HistoryInv
    PROVE  /\ keyring \in Nat /\ lastMaster \in Nat /\ master \in [Procs -> Nat]
           /\ pc \in [Procs -> Points] /\ db \in [Procs -> [Ids -> Entries]]
           /\ shared \in BOOLEAN
           /\ \A i \in Ids : /\ \A m \in Sealing : m[i].by \in Nat
                             /\ \A p \in Procs : db[p][i].by \in Nat
<1>1. \A e \in Entries : e.by \in Nat
  BY DEF Entries, Empty
<1>2. Sealing \subseteq [Ids -> Entries]
  BY DEF HistoryInv, TypeInv, TypeOK, HistoryTypeOK, Sealing, Maps
<1> QED
  BY <1>1, <1>2 DEF HistoryInv, TypeInv, TypeOK, Maps

\* A master key that is generated stays new while it is brought to the keyring.
LEMMA MasterStep == HistoryInv /\ HistoryNext => MasterIsNew'
<1> SUFFICES ASSUME HistoryInv, HistoryNext PROVE MasterIsNew'
  OBVIOUS
<1>0. /\ keyring \in Nat /\ lastMaster \in Nat /\ master \in [Procs -> Nat]
      /\ pc \in [Procs -> Points] /\ db \in [Procs -> [Ids -> Entries]]
      /\ shared \in BOOLEAN
      /\ \A i \in Ids : /\ \A m \in Sealing : m[i].by \in Nat
                        /\ \A p \in Procs : db[p][i].by \in Nat
  BY SealNumbers
<1>1. \A m \in Sealing' : m \in Sealing \/ \E p \in Procs : WriteFile(p) /\ m = db[p]
  BY SealingStep
<1>2. /\ keyring <= lastMaster /\ \A p \in Procs : master[p] <= lastMaster
      /\ \A i \in Ids : /\ \A m \in Sealing : m[i].by <= lastMaster
                        /\ \A p \in Procs : db[p][i].by <= lastMaster
      /\ ~shared => \A p \in Procs :
            /\ pc[p] = "setkey" => \A i \in Ids, m \in Sealing : m[i].by < master[p]
            /\ pc[p] \in {"load"} \cup Running => master[p] = keyring
  BY DEF HistoryInv, MasterIsNew
<1>3. ~shared => \A p, q \in Procs : pc[p] # "off" /\ pc[q] # "off" => p = q
  BY DEF HistoryInv, KeptInv, OneAtATime
<1> USE DEF MasterIsNew, Running, At
<1>4. ASSUME NEW p \in Procs, FindMaster(p) PROVE MasterIsNew'
  <2>1. pc' = [pc EXCEPT ![p] = "load"] /\ (~shared' => ~shared)
    BY <1>0, <1>4, Noted DEF FindMaster
  <2>2. \A m \in Sealing' : m \in Sealing
    BY <1>0, <1>1, <1>4 DEF FindMaster, WriteFile, Starts
  <2> QED
    BY <1>0, <1>2, <1>4, <2>1, <2>2 DEF FindMaster
<1>5. ASSUME NEW p \in Procs, GenerateMaster(p) PROVE MasterIsNew'
  <2>1. pc' = [pc EXCEPT ![p] = "setkey"] /\ (~shared' => ~shared)
    BY <1>0, <1>5, Noted DEF GenerateMaster
  <2>2. \A m \in Sealing' : m \in Sealing
    BY <1>0, <1>1, <1>5 DEF GenerateMaster, WriteFile, Starts
  <2> QED
    BY <1>0, <1>2, <1>5, <2>1, <2>2 DEF GenerateMaster
<1>6. ASSUME NEW p \in Procs, SaveMaster(p) PROVE MasterIsNew'
  <2>1. \A m \in Sealing' : m \in Sealing
    BY <1>0, <1>1, <1>6 DEF SaveMaster, WriteFile
  <2> QED
    BY <1>0, <1>2, <1>3, <1>6, <2>1 DEF SaveMaster
<1>7. ASSUME NEW p \in Procs, LoadFile(p) PROVE MasterIsNew'
  <2>1. \A m \in Sealing' : m \in Sealing
    BY <1>0, <1>1, <1>7 DEF LoadFile, WriteFile
  <2>2. file.state # "torn" => file.map \in Sealing
    BY DEF HistoryInv, FileIsIntact, Sealing
  <2>3. \A q \in Procs : db'[q] = db[q] \/ db'[q] \in Sealing
    BY <1>0, <1>7, <2>2 DEF LoadFile
  <2> QED
    BY <1>0, <1>2, <1>7, <2>1, <2>3 DEF LoadFile, history
<1>8. ASSUME NEW p \in Procs, NEW i \in Ids, Set(p, i) PROVE MasterIsNew'
  <2>1. \A m \in Sealing' : m \in Sealing
    BY <1>0, <1>1, <1>8 DEF Set, WriteFile
  <2>2. \A q \in Procs, j \in Ids : db'[q][j] = db[q][j] \/ db'[q][j].by = master[p]
    BY <1>0, <1>8 DEF Set
  <2> QED
    BY <1>0, <1>2, <1>8, <2>1, <2>2 DEF Set, history
<1>9. ASSUME NEW p \in Procs, OpenFile(p) PROVE MasterIsNew'
  <2>1. \A m \in Sealing' : m \in Sealing
    BY <1>0, <1>1, <1>9 DEF OpenFile, WriteFile
  <2> QED
    BY <1>0, <1>2, <1>9, <2>1 DEF OpenFile, history
<1>10. ASSUME NEW p \in Procs, WriteFile(p) PROVE MasterIsNew'
  <2>1. UNCHANGED <<keyring, master, db, lastMaster, shared>>
        /\ pc[p] = "write" /\ pc' = [pc EXCEPT ![p] = "ready"]
    BY <1>10 DEF WriteFile
  <2>2. \A m \in Sealing' : m \in Sealing \/ \E q \in Procs : m = db[q]
    BY <1>1
  <2>3. ~shared => \A q \in Procs : pc'[q] # "setkey"
    BY <1>0, <1>3, <2>1
  <2> QED
    BY <1>0, <1>2, <2>1, <2>2, <2>3
<1>11. ASSUME NEW p \in Procs, Stop(p) PROVE MasterIsNew'
  <2>1. ~\E q \in Procs : WriteFile(q)
    <3>1. pc' = [pc EXCEPT ![p] = "off"]
      BY <1>11 DEF Stop
    <3>2. \A q \in Procs : WriteFile(q) => pc[q] = "write" /\ pc'[q] = "ready"
      BY <1>0 DEF WriteFile
    <3> QED
      BY <1>0, <3>1, <3>2
  <2>2. \A m \in Sealing' : m \in Sealing
    BY <1>1, <2>1
  <2> QED
    BY <1>0, <1>2, <1>11, <2>2 DEF Stop, history, EmptyMap, Empty
<1>12. CASE LosePower
  <2>1. \A m \in Sealing' : m \in Sealing
    BY <1>0, <1>1, <1>12 DEF LosePower, WriteFile
  <2> QED
    BY <1>0, <1>2, <1>12, <2>1 DEF LosePower, EmptyMap, Empty
<1> QED
  BY <1>4, <1>5, <1>6, <1>7, <1>8, <1>9, <1>10, <1>11, <1>12
     DEF HistoryNext, Next, Open, Write

LEMMA HistoryStep == HistoryInv /\ [HistoryNext]_historyVars => HistoryInv'
<1> SUFFICES ASSUME HistoryInv, [HistoryNext]_historyVars PROVE HistoryInv'
  OBVIOUS
<1>1. CASE UNCHANGED historyVars
  <2>1. UNCHANGED vars /\ UNCHANGED <<settled, intact, pc, db, pending, file, older, keyring,
                                      master, lastMaster, shared>>
    BY <1>1 DEF historyVars, vars, history
  <2>2. TypeInv' /\ KeptInv'
    BY <2>1, TypeStep, KeptStep DEF HistoryInv
  <2> QED
    BY <2>1, <2>2
       DEF HistoryInv, HistoryTypeOK, SetIsOne, FileIsIntact, MasterIsNew, Sealing
<1>2. CASE HistoryNext
  <2>1. TypeInv' /\ KeptInv'
    BY <1>2, TypeStep, KeptStep DEF HistoryNext, HistoryInv
  <2>2. HistoryTypeOK'
    BY <1>2, <2>1 DEF HistoryNext, HistoryInv, HistoryTypeOK, TypeInv, TypeOK
  <2>3. SetIsOne'
    <3> SUFFICES ASSUME NEW p \in Procs
                 PROVE  IF pc'[p] \in Setting
                        THEN /\ db'[p][pending'[p]].by = master'[p]
                             /\ \A i \in Ids \ {pending'[p]} : settled'[p][i] = db'[p][i]
                        ELSE settled'[p] = db'[p]
      BY DEF SetIsOne
    <3>1. settled'[p] = IF pc'[p] \in Setting THEN settled[p] ELSE db'[p]
      BY <1>2 DEF HistoryNext
    <3>2. CASE pc'[p] \in Setting
      <4>1. /\ master'[p] = master[p]
            /\ \/ pc[p] \in Setting /\ db'[p] = db[p] /\ pending'[p] = pending[p]
               \/ /\ pc[p] = "ready" /\ db'[p][pending'[p]].by = master[p]
                  /\ \A i \in Ids \ {pending'[p]} : db'[p][i] = db[p][i]
        BY <1>2, <3>2, SettingStep DEF HistoryNext, HistoryInv
      <4> QED
        BY <3>1, <3>2, <4>1 DEF HistoryInv, SetIsOne, Setting
    <3> QED
      BY <3>1, <3>2
  <2>4. FileIsIntact'
    BY <1>2 DEF HistoryNext, FileIsIntact
  <2>5. MasterIsNew'
    BY <1>2, MasterStep
  <2> QED
    BY <2>1, <2>2, <2>3, <2>4, <2>5 DEF HistoryInv
<1> QED
  BY <1>1, <1>2

\* With the other processes off, one process's map is the store's memory.
LEMMA Alone ==
    ASSUME NEW p \in Procs, \A q \in Procs \ {p} : pc[q] = "off"
    PROVE  /\ IsOpen <=> pc[p] \in Running
           /\ Memory = IF pc[p] \in Running THEN View(master[p], settled[p])
                                            ELSE View(keyring, EmptyMap)
<1>1. \A q \in Procs : pc[q] \in Running => q = p
  BY DEF Running
<1>2. CASE pc[p] \in Running
  <2>1. Runner = p
    BY <1>1, <1>2 DEF Runner
  <2> QED
    BY <1>2, <2>1 DEF IsOpen, Memory
<1> QED
  BY <1>1, <1>2 DEF IsOpen, Memory

LEMMA AloneAfter ==
    ASSUME NEW p \in Procs, \A q \in Procs \ {p} : pc'[q] = "off"
    PROVE  /\ IsOpen' <=> pc'[p] \in Running
           /\ Memory' = IF pc'[p] \in Running THEN View(master[p], settled[p])'
                                              ELSE View(keyring, EmptyMap)'
<1>1. \A q \in Procs : pc'[q] \in Running => q = p
  BY DEF Running
<1>2. CASE pc'[p] \in Running
  <2>1. Runner' = p
    BY <1>1, <1>2 DEF Runner
  <2> QED
    BY <1>2, <2>1 DEF IsOpen, Memory
<1> QED
  BY <1>1, <1>2 DEF IsOpen, Memory

\* A master key opens the entries that are sealed with it, and a new one none.
LEMMA Views ==
    /\ \A k : View(k, EmptyMap) = Store!Blank
    /\ \A k : \A m \in Maps : View(k, m) \in [Ids -> Nat \cup {Lost}]
    /\ \A k, l : \A m \in Maps :
          (\A i \in Ids : m[i].by # l) => View(l, m) = Store!Unreadable(View(k, m))
<1>1. \A e \in Entries : e.val \in Nat /\ (e # Empty => e.val # 0)
  BY DEF Entries, Empty
<1>2. ASSUME NEW k PROVE View(k, EmptyMap) = Store!Blank
  BY DEF View, EmptyMap, Store!Blank
<1>3. ASSUME NEW k, NEW m \in Maps PROVE View(k, m) \in [Ids -> Nat \cup {Lost}]
  BY <1>1 DEF View, Maps, NoEntry
<1>4. ASSUME NEW k, NEW l, NEW m \in Maps, \A i \in Ids : m[i].by # l
      PROVE  View(l, m) = Store!Unreadable(View(k, m))
  <2>1. \A i \in Ids : View(k, m)[i] = NoEntry <=> m[i] = Empty
    BY <1>1 DEF View, Maps, NoEntry, Lost
  <2> QED
    BY <1>4, <2>1 DEF View, Store!Unreadable
<1> QED
  BY <1>2, <1>3, <1>4

\* As long as no two processes run at once, the others are off in every step of
\* one.
LEMMA OthersOff ==
    ASSUME TypeInv, KeptInv, NEW p \in Procs, Open(p) \/ Write(p) \/ Stop(p), ~shared'
    PROVE  ~shared /\ \A q \in Procs \ {p} : pc[q] = "off" /\ pc'[q] = "off"
<1>0. pc \in [Procs -> Points] /\ shared \in BOOLEAN
  BY DEF TypeInv, TypeOK
<1>1. \E next : pc' = [pc EXCEPT ![p] = next]
  BY DEF Open, Write, FindMaster, GenerateMaster, SaveMaster, LoadFile, OpenFile, WriteFile,
         Set, Stop, Starts, At
<1>2. ~shared /\ \A q \in Procs \ {p} : pc[q] = "off"
  <2>1. ASSUME NEW next, Starts(p, next) PROVE ~shared /\ \A q \in Procs \ {p} : pc[q] = "off"
    BY <1>0, <2>1, Noted
  <2>2. ASSUME shared' = shared, pc[p] # "off"
        PROVE  ~shared /\ \A q \in Procs \ {p} : pc[q] = "off"
    BY <2>2 DEF KeptInv, OneAtATime
  <2> QED
    BY <2>1, <2>2 DEF Open, Write, FindMaster, GenerateMaster, SaveMaster, LoadFile, OpenFile,
         WriteFile, Set, Stop, At, history
<1> QED
  BY <1>0, <1>1, <1>2

\* Each step of a process that runs alone is one of the store, or invisible to
\* who uses it.
LEMMA ProcessStep ==
    ASSUME HistoryInv, HistoryNext, NEW p \in Procs, Open(p) \/ Write(p) \/ Stop(p), ~shared'
    PROVE  Store!StoreNext \/ UNCHANGED (Store!storeVars)
<1>0. /\ pc \in [Procs -> Points] /\ db \in [Procs -> Maps] /\ pending \in [Procs -> Ids]
      /\ settled \in [Procs -> Maps] /\ intact \in Maps /\ older \subseteq Maps
      /\ master \in [Procs -> Nat]
      /\ file.state # "torn" => file.map = intact
      /\ IF pc[p] \in Setting
         THEN /\ db[p][pending[p]].by = master[p]
              /\ \A i \in Ids \ {pending[p]} : settled[p][i] = db[p][i]
         ELSE settled[p] = db[p]
  BY DEF HistoryInv, TypeInv, TypeOK, HistoryTypeOK, FileIsIntact, SetIsOne
<1>1. ~shared /\ \A q \in Procs \ {p} : pc[q] = "off" /\ pc'[q] = "off"
  BY OthersOff DEF HistoryInv
<1>2. /\ IsOpen <=> pc[p] \in Running
      /\ Memory = IF pc[p] \in Running THEN View(master[p], settled[p]) ELSE Store!Blank
  BY <1>1, Alone, Views
<1>3. /\ IsOpen' <=> pc'[p] \in Running
      /\ Memory' = IF pc'[p] \in Running THEN View(master'[p], settled'[p]) ELSE Store!Blank
  <2>1. View(master[p], settled[p])' = View(master'[p], settled'[p])
    BY DEF View, Empty
  <2>2. View(keyring, EmptyMap)' = View(keyring', EmptyMap)
    BY DEF View, EmptyMap, Empty
  <2> QED
    BY <1>1, <2>1, <2>2, AloneAfter, Views
<1>4. settled'[p] = IF pc'[p] \in Setting THEN settled[p] ELSE db'[p]
  BY DEF HistoryNext
<1>5. /\ UNCHANGED file => intact' = intact
      /\ file'.state = "torn" => intact' = intact
  BY <1>0 DEF HistoryNext
<1>6. IsOpen \in BOOLEAN /\ IsOpen' \in BOOLEAN
  BY DEF IsOpen
<1>7. /\ pc[p] \in {"load"} \cup Running => master[p] = keyring
      /\ pc[p] = "setkey" => \A i \in Ids, m \in Sealing : m[i].by < master[p]
      /\ pc[p] = "write" => file.state = "torn"
      /\ pc[p] \in Running => master[p] # 0
  BY <1>1
     DEF HistoryInv, MasterIsNew, KeptInv, WriteTears, TypeInv, CiphersMade, HasCipher
<1>8. /\ Disk = View(keyring, intact) /\ Disk' = View(keyring', intact')
      /\ OlderDisks = {View(keyring, m) : m \in older}
      /\ OlderDisks' = {View(keyring', m) : m \in older'}
  BY DEF Disk, OlderDisks, View, Empty
<1> USE DEF Running, Setting, At
<1>9. CASE FindMaster(p) \/ GenerateMaster(p)
  <2>1. pc[p] \notin Running /\ pc'[p] \notin Running /\ UNCHANGED <<file, older, keyring>>
    BY <1>0, <1>9 DEF FindMaster, GenerateMaster, Starts
  <2> QED
    BY <1>2, <1>3, <1>5, <1>6, <1>8, <2>1 DEF Store!storeVars, Store!fileVars
<1>10. CASE SaveMaster(p)
  <2>1. /\ pc[p] = "setkey" /\ pc'[p] \notin Running /\ UNCHANGED <<file, older>>
        /\ keyring' \in {keyring, master[p]}
    BY <1>0, <1>10 DEF SaveMaster
  <2>2. ~IsOpen /\ UNCHANGED <<IsOpen, Memory, intact>>
    BY <1>2, <1>3, <1>5, <1>6, <2>1
  <2>3. CASE keyring' = keyring
    BY <1>8, <2>1, <2>2, <2>3 DEF Store!storeVars, Store!fileVars
  <2>4. CASE keyring' = master[p]
    <3>1. \A m \in Sealing : \A i \in Ids : m[i].by # keyring'
      <4>1. \A m \in Sealing, i \in Ids : m[i].by \in Nat
        BY SealNumbers
      <4> QED
        BY <1>0, <1>7, <2>1, <2>4, <4>1
    <3>2. Sealing \subseteq Maps
      BY <1>0 DEF Sealing
    <3>3. \A m \in Sealing : View(keyring', m) = Store!Unreadable(View(keyring, m))
      BY <3>1, <3>2, Views
    <3>4. Disk' = Store!Unreadable(Disk)
      BY <1>8, <2>2, <3>3 DEF Sealing
    <3>5. OlderDisks' = {Store!Unreadable(m) : m \in OlderDisks}
      BY <1>8, <2>1, <3>3 DEF Sealing
    <3>6. Store!LoseMaster
      BY <2>1, <2>2, <3>4, <3>5 DEF Store!LoseMaster
    <3> QED
      BY <3>6 DEF Store!StoreNext
  <2> QED
    BY <2>1, <2>3, <2>4
<1>11. CASE ~SaveMaster(p) /\ ~FindMaster(p) /\ ~GenerateMaster(p)
  <2>0. UNCHANGED keyring
    BY <1>11 DEF Open, Write, LoadFile, OpenFile, WriteFile, Set, Stop
  <2>1. CASE LoadFile(p)
    <3>1. CASE pc'[p] = "ready" /\ file.state # "torn" /\ db'[p] = file.map
      <4>1. pc[p] = "load" /\ UNCHANGED <<file, older, master>>
        BY <2>1 DEF LoadFile
      <4>2. Memory' = View(keyring, intact)
        BY <1>0, <1>3, <1>4, <1>7, <3>1, <4>1
      <4>3. Store!OpenStore
        BY <1>2, <1>3, <1>5, <1>6, <1>8, <2>0, <3>1, <4>1, <4>2
           DEF Store!OpenStore, Store!fileVars
      <4> QED
        BY <4>3 DEF Store!StoreNext
    <3>2. CASE pc'[p] = "refused" /\ pc[p] = "load" /\ UNCHANGED <<file, older>>
      BY <1>2, <1>3, <1>5, <1>6, <1>8, <2>0, <3>2 DEF Store!storeVars, Store!fileVars
    <3> QED
      BY <1>0, <2>1, <3>1, <3>2 DEF LoadFile
  <2>2. ASSUME NEW i \in Ids, Set(p, i) PROVE UNCHANGED (Store!storeVars)
    <3>1. pc[p] = "ready" /\ pc'[p] = "flush" /\ UNCHANGED <<file, older, master>>
      BY <1>0, <2>2 DEF Set
    <3> QED
      BY <1>0, <1>2, <1>3, <1>4, <1>5, <1>6, <1>8, <2>0, <3>1
         DEF Store!storeVars, Store!fileVars
  <2>3. CASE OpenFile(p) /\ pc'[p] = "write"
    <3>1. /\ pc[p] = "flush" /\ file' = TornFile /\ older' = Outdated
          /\ UNCHANGED <<db, master>>
      BY <1>0, <2>3 DEF OpenFile
    <3>2. file'.state = "torn" /\ intact' = intact
      BY <1>5, <3>1 DEF TornFile
    <3>3. OlderDisks' = Store!Outdated
      BY <1>0, <1>8, <2>0, <3>1, <3>2 DEF Outdated, Store!Outdated
    <3>4. Store!BeginSave
      BY <1>2, <1>3, <1>4, <1>6, <1>8, <2>0, <2>3, <3>1, <3>2, <3>3
         DEF Store!BeginSave, Store!CutShort
    <3> QED
      BY <3>4 DEF Store!StoreNext
  <2>4. CASE (OpenFile(p) /\ pc'[p] = "ready") \/ WriteFile(p)
    <3>1. pc[p] \in Setting /\ pc'[p] = "ready" /\ UNCHANGED <<db, master>>
      BY <1>0, <2>4 DEF OpenFile, WriteFile
    <3>2. Memory = View(master[p], settled[p]) /\ Memory' = View(master[p], db[p])
      BY <1>2, <1>3, <1>4, <3>1
    <3>3. Memory'[pending[p]] \notin {NoEntry, Lost}
      <4>1. db[p][pending[p]] \in Entries /\ db[p][pending[p]].by = master[p]
        BY <1>0, <3>1 DEF Maps
      <4>2. db[p][pending[p]] # Empty
        BY <1>7, <3>1, <4>1 DEF Empty
      <4>3. db[p][pending[p]].val \in Nat \ {0}
        BY <4>1, <4>2 DEF Entries
      <4> QED
        BY <1>0, <3>2, <4>1, <4>2, <4>3 DEF View, NoEntry, Lost
    <3>4. \A j \in Ids \ {pending[p]} : Memory'[j] = Memory[j]
      BY <1>0, <3>1, <3>2 DEF View
    <3>5. Memory' \in [Ids -> Nat \cup {Lost}]
      <4>1. db[p] \in Maps
        BY <1>0
      <4> QED
        BY <3>2, <4>1, Views
    <3>6. UNCHANGED Store!fileVars \/ Store!Complete
      <4>1. CASE UNCHANGED <<file, older>>
        BY <1>5, <1>8, <2>0, <4>1 DEF Store!fileVars
      <4>2. CASE WriteFile(p) /\ file' = TornFile
        <5>1. file.state = "torn" /\ file'.state = "torn" /\ older' = older
          BY <1>7, <4>2 DEF WriteFile, Outdated, TornFile
        <5> QED
          BY <1>5, <1>8, <2>0, <5>1 DEF Store!fileVars
      <4>3. CASE WriteFile(p) /\ file' = Intact(db[p])
        <5>1. file.state = "torn" /\ file'.state = "intact" /\ older' = older
          BY <1>7, <4>3 DEF WriteFile, Outdated, Intact
        <5>2. intact' = db[p]
          BY <4>3, <5>1 DEF HistoryNext, Intact
        <5>3. Disk' = Memory'
          BY <1>7, <1>8, <2>0, <3>1, <3>2, <5>2
        <5> QED
          BY <1>8, <2>0, <5>1, <5>3 DEF Store!Complete, Store!Outdated
      <4> QED
        BY <1>0, <2>4, <3>1, <4>1, <4>2, <4>3 DEF OpenFile, WriteFile
    <3>7. Store!Save(pending[p])
      BY <1>2, <1>3, <1>6, <3>1, <3>3, <3>4, <3>5, <3>6 DEF Store!Save
    <3> QED
      BY <1>0, <3>7 DEF Store!StoreNext
  <2>5. CASE Stop(p)
    <3>1. pc'[p] = "off" /\ UNCHANGED <<file, older>>
      BY <1>0, <2>5 DEF Stop
    <3>2. UNCHANGED Store!fileVars
      BY <1>5, <1>8, <2>0, <3>1 DEF Store!fileVars
    <3> QED
      BY <1>2, <1>3, <1>6, <3>1, <3>2 DEF Store!StoreNext, Store!CloseStore, Store!storeVars
  <2>6. OpenFile(p) => pc'[p] \in {"write", "ready"}
    BY <1>0 DEF OpenFile
  <2> QED
    BY <1>11, <2>1, <2>2, <2>3, <2>4, <2>5, <2>6 DEF Open, Write
<1> QED
  BY <1>9, <1>10, <1>11

\* So is a power loss: the maps it may bring back are those the store says.
LEMMA PowerStep == HistoryInv /\ HistoryNext /\ LosePower => Store!LosePower
<1> SUFFICES ASSUME HistoryInv, HistoryNext, LosePower PROVE Store!LosePower
  OBVIOUS
<1>0. file.state # "torn" => file.map = intact
  BY DEF HistoryInv, FileIsIntact
<1>1. IsOpen' = FALSE
  BY DEF LosePower, IsOpen, Running
<1>2. Memory' = Store!Blank
  <2>1. View(keyring, EmptyMap)' = View(keyring', EmptyMap)
    BY DEF View, EmptyMap, Empty
  <2> QED
    BY <1>1, <2>1, Views DEF Memory
<1>3. intact' = IF file'.state = "torn" THEN intact ELSE file'.map
  BY DEF HistoryNext
<1>4. keyring' = keyring /\ older' = {}
  BY DEF LosePower
<1>5. Disk' = View(keyring, intact') /\ OlderDisks' = {}
  BY <1>4 DEF Disk, OlderDisks, View, Empty
<1>6. CASE UNCHANGED file
  BY <1>0, <1>1, <1>2, <1>3, <1>5, <1>6 DEF Store!LosePower, Disk
<1>7. CASE older # {} /\ file' = TornFile
  BY <1>1, <1>2, <1>3, <1>5, <1>7 DEF Store!LosePower, Disk, OlderDisks, TornFile
<1>8. CASE \E m \in older : file' = Intact(m)
  <2>1. PICK m \in older : file' = Intact(m)
    BY <1>8
  <2>2. file'.state = "intact" /\ intact' = m
    BY <1>3, <2>1 DEF Intact
  <2>3. Disk' \in OlderDisks
    BY <1>5, <2>2 DEF OlderDisks
  <2> QED
    BY <1>1, <1>2, <1>5, <2>2, <2>3 DEF Store!LosePower
<1> QED
  BY <1>6, <1>7, <1>8 DEF LosePower

LEMMA StoreStep ==
    HistoryInv /\ [HistoryNext]_historyVars
        => [~shared' => Store!StoreNext]_(Store!storeVars)
<1> SUFFICES ASSUME HistoryInv, [HistoryNext]_historyVars
             PROVE  [~shared' => Store!StoreNext]_(Store!storeVars)
  OBVIOUS
<1>1. CASE UNCHANGED historyVars
  <2>1. UNCHANGED <<pc, settled, intact, master, keyring, file, older>>
    BY <1>1 DEF historyVars, vars
  <2>2. UNCHANGED <<IsOpen, Runner>>
    BY <2>1 DEF IsOpen, Runner
  <2>3. UNCHANGED <<Memory, Disk, OlderDisks>>
    BY <2>1, <2>2 DEF Memory, Disk, OlderDisks, View, Empty, EmptyMap
  <2> QED
    BY <2>1, <2>2, <2>3 DEF Store!storeVars, Store!fileVars
<1>2. CASE HistoryNext
  <2>1. CASE LosePower
    BY <1>2, <2>1, PowerStep DEF Store!StoreNext
  <2>2. ASSUME NEW p \in Procs, Open(p) \/ Write(p) \/ Stop(p), ~shared'
        PROVE  Store!StoreNext \/ UNCHANGED (Store!storeVars)
    BY <1>2, <2>2, ProcessStep
  <2> QED
    BY <1>2, <2>1, <2>2 DEF HistoryNext, Next
<1> QED
  BY <1>1, <1>2

\* The steps of opening, of setting and of writing, failed, cut short by the end
\* of the process or taken back by a power loss, are to a process that runs alone
\* those of KeyStore. What it relies on is no more: the file it starts from may be
\* torn or older, and an overwritten master key makes every entry unreadable.
THEOREM KeyStoreRefinement == HistorySpec => ImplementsKeyStore
<1>1. HistoryInit => Store!StoreInit
  <2> SUFFICES ASSUME HistoryInit PROVE Store!StoreInit
    OBVIOUS
  <2>1. IsOpen = FALSE
    BY DEF HistoryInit, Init, IsOpen, Running
  <2>2. intact = EmptyMap /\ older = {} /\ file.state = "absent"
    BY DEF HistoryInit, Init, AbsentFile
  <2>3. Memory = Store!Blank /\ Disk = Store!Blank /\ OlderDisks = {}
    BY <2>1, <2>2, Views DEF Memory, Disk, OlderDisks
  <2>4. Store!Blank \in [Ids -> Nat \cup {Lost}]
    BY DEF Store!Blank, NoEntry
  <2> QED
    BY <2>1, <2>2, <2>3, <2>4 DEF Store!StoreInit
<1> QED
  BY <1>1, HistoryInitial, HistoryStep, StoreStep, PTL DEF HistorySpec, ImplementsKeyStore
=============================================================================
