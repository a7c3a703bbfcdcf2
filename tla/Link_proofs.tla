----------------------------- MODULE Link_proofs -----------------------------
(***************************************************************************)
(* The two ends and the line between them, for any number of ids, faults,  *)
(* attempts, jobs and databases.                                           *)
(*                                                                         *)
(* RanInOrder is about the commands executed; it is invariant because of   *)
(* the commands on their way: those on the line were issued in the order   *)
(* they are in, none of them before a command that was executed, and the   *)
(* one the host is about to send is the last one issued. No loss, damage,  *)
(* retransmission or abandoned job changes that: all they do to the line   *)
(* is to take packets away, to spoil them, or to append the last command.  *)
(*                                                                         *)
(* Without faults (NoFault) an exchange is a conversation, of which Phases *)
(* lists the states: who is to speak, what is on the line, and which id    *)
(* both ends hold. IdsAgree and the refinement of Exchange follow from it. *)
(* Content adds what each packet of a download brings, and what the host   *)
(* has of it at each of those states; DownloadExact follows.               *)
(***************************************************************************)
EXTENDS Link, SequenceTheorems, WellFoundedInduction, TLAPS

\* The shell job that issued a command
JobOf(p) == p.body[1][2]

\* A command of one of the jobs from low to high, as the host crafts it
Carries(p, low, high) ==
    /\ p.cmd \in Commands /\ p.body = Argument(JobOf(p))
    /\ JobOf(p) \in Nat /\ low <= JobOf(p) /\ JobOf(p) <= high

InOrder(queue) ==
    \A i, k \in DOMAIN queue :
        i < k /\ queue[i].type = "CMD" /\ queue[k].type = "CMD"
            => JobOf(queue[i]) <= JobOf(queue[k])

Sound(queue, low, high) ==
    /\ queue \in Seq(Packets)
    /\ \A i \in DOMAIN queue : queue[i].type = "CMD" => Carries(queue[i], low, high)
    /\ InOrder(queue)

\* The job of the command executed last
LastRan == IF ran = <<>> THEN 0 ELSE ran[Len(ran)]

Commanding ==
    /\ Sound(toAvr, LastRan, Len(jobs))
    /\ hpkt.type = "CMD" => Carries(hpkt, Len(jobs), Len(jobs))
    /\ RanInOrder /\ LastRan <= Len(jobs)

\* A job is in progress, and the place of the download is in its database
Underway == (hpc # "shell" => jobs # <<>>) /\ temp_idx <= temp_count

\* The inductive invariant
LinkInv == TypeOK /\ Underway /\ Commanding

-----------------------------------------------------------------------------

(***************************************************************************)
(* What can happen to a queue: packets are taken away from it or spoiled.  *)
(* Each entry of what is left is bad or one of the queue, at its place or  *)
(* one place further: one receiver or one fault takes away at most one.    *)
(***************************************************************************)
Thinned(queue, left) ==
    /\ left \in Seq(Packets)
    /\ \A i \in DOMAIN left :
          \/ left[i].type = "BAD"
          \/ i \in DOMAIN queue /\ left[i] = queue[i]
          \/ (i + 1) \in DOMAIN queue /\ left[i] = queue[i + 1]

\* The packets that are crafted are packets
LEMMA PacketType ==
    ASSUME NEW type \in {"HND", "ACK", "ERR", "CTR", "DAT", "BAD"},
           NEW id \in Ids, NEW body \in Data
    PROVE  Packet(type, id, body) \in Packets
BY DEF Packet, Packets

\* and have an id and data
LEMMA PacketId == ASSUME NEW p \in Packets PROVE p.id \in Ids /\ p.body \in Data
BY DEF Packets

\* No data is data
LEMMA NoData == <<>> \in Data
BY DEF Data

\* So is the argument of a command
LEMMA ArgumentType == ASSUME NEW n \in Nat PROVE Argument(n) \in Data
BY DEF Argument, Data, ArgTag

\* A bad entry carries nothing
LEMMA BadType ==
    ASSUME NEW id \in Ids
    PROVE  Bad(id) \in Packets /\ Bad(id).type = "BAD"
<1>1. Bad(id) \in Packets  BY PacketType, NoData DEF Bad
<1>2. QED  BY <1>1 DEF Bad, Packet

\* The next id is an id
LEMMA NextIdType == ASSUME NEW id \in Ids PROVE packet_next_id(id) \in Ids
BY LineAssumption DEF Ids, packet_next_id

\* Taking the packet at the head
LEMMA TailThins ==
    ASSUME NEW queue \in Seq(Packets), queue # <<>>
    PROVE  Thinned(queue, Tail(queue))
<1>1. Tail(queue) \in Seq(Packets) /\ Len(Tail(queue)) = Len(queue) - 1
      /\ \A i \in 1 .. Len(queue) - 1 : Tail(queue)[i] = queue[i + 1]
    OBVIOUS
<1>2. QED  BY <1>1 DEF Thinned

\* Leaving a queue as it is
LEMMA SameThins == ASSUME NEW queue \in Seq(Packets) PROVE Thinned(queue, queue)
BY DEF Thinned

\* Stopping in the middle of the packet at the head
LEMMA LeftoversThin ==
    ASSUME NEW queue \in Seq(Packets), queue # <<>>, NEW left \in Leftovers(queue)
    PROVE  Thinned(queue, left)
<1>1. CASE left = Tail(queue)
    BY <1>1, TailThins
<1>2. CASE left = <<Bad(Head(queue).id)>> \o Tail(queue)
    <2>1. Head(queue) \in Packets  OBVIOUS
    <2>2. DEFINE bad == Bad(Head(queue).id)
    <2>3. bad \in Packets /\ bad.type = "BAD"  BY <2>1, PacketId, BadType
    <2> HIDE DEF bad
    <2>4. left = <<bad>> \o Tail(queue)  BY <1>2 DEF bad
    <2>5. left \in Seq(Packets) /\ Len(left) = Len(queue) /\ left[1] = bad
          /\ \A i \in 2 .. Len(queue) : left[i] = queue[i]
        BY <2>3, <2>4
    <2>6. QED  BY <2>3, <2>5 DEF Thinned
<1>3. QED  BY <1>1, <1>2 DEF Leftovers

\* What is there when the timer fires
LEMMA CutShortThins ==
    ASSUME NEW queue \in Seq(Packets), NEW left \in CutShort(queue)
    PROVE  Thinned(queue, left)
BY SameThins, LeftoversThin DEF CutShort

\* A fault of the line
LEMMA DamageThins ==
    ASSUME NEW queue \in Seq(Packets), NEW left \in Damaged(queue)
    PROVE  Thinned(queue, left)
<1>1. PICK i \in DOMAIN queue : left \in {RemoveFrom(queue, i)} \cup Spoiled(queue, i)
    BY DEF Damaged
<1>2. i \in 1 .. Len(queue) /\ queue[i] \in Packets /\ queue[i].id \in Ids
    <2>1. i \in 1 .. Len(queue) /\ queue[i] \in Packets  OBVIOUS
    <2>2. QED  BY <2>1, PacketId
<1>3. CASE left = RemoveFrom(queue, i)
    <2>1. DEFINE before == SubSeq(queue, 1, i - 1)
                 after  == SubSeq(queue, i + 1, Len(queue))
    <2>2. /\ before \in Seq(Packets) /\ Len(before) = i - 1
          /\ \A k \in 1 .. i - 1 : before[k] = queue[k]
        BY <1>2
    <2>3. /\ after \in Seq(Packets) /\ Len(after) = Len(queue) - i
          /\ \A k \in 1 .. Len(queue) - i : after[k] = queue[k + i]
        BY <1>2
    <2>4. left = before \o after  BY <1>3 DEF RemoveFrom
    <2> HIDE DEF before, after
    <2>5. left \in Seq(Packets) /\ Len(left) = Len(queue) - 1
        BY <1>2, <2>2, <2>3, <2>4
    <2>6. \A k \in 1 .. i - 1 : left[k] = before[k]
        BY <1>2, <2>2, <2>3, <2>4
    <2>7. ASSUME NEW k \in i .. Len(queue) - 1
          PROVE  left[k] = queue[k + 1]
        <3>1. DEFINE place == k - Len(before)
        <3>2. /\ k \in 1 .. Len(before) + Len(after) /\ ~(k <= Len(before))
              /\ place \in 1 .. Len(queue) - i /\ place + i = k + 1
            BY SMTT(20), <1>2, <2>2, <2>3, <2>7
        <3>3. left[k] = after[place]
            <4>1. /\ before \in Seq(Packets) /\ after \in Seq(Packets)
                BY <2>2, <2>3
            <4>2. (before \o after)[k] = IF k <= Len(before) THEN before[k]
                                                             ELSE after[k - Len(before)]
                BY <3>2, <4>1, ConcatProperties
            <4>3. QED  BY <2>4, <3>2, <4>2
        <3> HIDE DEF place
        <3>4. after[place] = queue[place + i]  BY <2>3, <3>2
        <3>5. QED  BY <3>2, <3>3, <3>4
    <2>8. ASSUME NEW k \in DOMAIN left
          PROVE  \/ k \in DOMAIN queue /\ left[k] = queue[k]
                 \/ (k + 1) \in DOMAIN queue /\ left[k] = queue[k + 1]
        <3>1. k \in 1 .. Len(queue) - 1  BY <1>2, <2>5, <2>8
        <3>2. CASE k < i  BY <1>2, <2>2, <2>6, <3>1, <3>2
        <3>3. CASE k >= i  BY <1>2, <2>7, <3>1, <3>3
        <3>4. QED  BY <1>2, <3>1, <3>2, <3>3
    <2>9. QED  BY <2>5, <2>8 DEF Thinned
<1>4. CASE left \in Spoiled(queue, i)
    <2>1. PICK id \in {queue[i].id, packet_next_id(queue[i].id)} :
                left = [queue EXCEPT ![i] = Bad(id)]
        BY <1>4 DEF Spoiled
    <2>2. Bad(id) \in Packets /\ Bad(id).type = "BAD"
        BY <1>2, <2>1, NextIdType, BadType
    <2>3. left \in Seq(Packets) /\ DOMAIN left = DOMAIN queue /\ left[i] = Bad(id)
          /\ \A k \in DOMAIN queue : k # i => left[k] = queue[k]
        BY <1>2, <2>1, <2>2
    <2>4. QED  BY <2>2, <2>3 DEF Thinned
<1>5. QED  BY <1>1, <1>3, <1>4

\* A flush leaves nothing, the last packet or a piece of it
LEMMA FlushType ==
    ASSUME NEW queue \in Seq(Packets), NEW left \in Flushed(queue)
    PROVE  left \in Seq(Packets)
<1>1. CASE queue = <<>>  BY <1>1 DEF Flushed
<1>2. CASE queue # <<>>
    <2>1. DEFINE last == queue[Len(queue)]
                 bad  == Bad(last.id)
    <2>2. last \in Packets  BY <1>2
    <2>3. bad \in Packets  BY <2>2, PacketId, BadType
    <2>4. left \in {<<>>, <<last>>, <<bad>>}  BY <1>2 DEF Flushed
    <2> HIDE DEF last, bad
    <2>5. <<>> \in Seq(Packets)  OBVIOUS
    <2>6. <<last>> \in Seq(Packets)  BY <2>2
    <2>7. <<bad>> \in Seq(Packets)  BY <2>3
    <2>8. QED  BY <2>4, <2>5, <2>6, <2>7
<1>3. QED  BY <1>1, <1>2

-----------------------------------------------------------------------------

\* A queue that is thinned stays sound
LEMMA SoundThinned ==
    ASSUME NEW queue, NEW left, NEW low \in Nat, NEW high \in Nat,
           Sound(queue, low, high), Thinned(queue, left)
    PROVE  Sound(left, low, high)
<1>1. \A i \in DOMAIN left : left[i].type = "CMD" =>
          \/ i \in DOMAIN queue /\ left[i] = queue[i]
          \/ (i + 1) \in DOMAIN queue /\ left[i] = queue[i + 1]
    BY DEF Thinned
<1>2. \A i \in DOMAIN left : left[i].type = "CMD" => Carries(left[i], low, high)
    BY <1>1 DEF Sound
<1>3. ASSUME NEW i \in DOMAIN left, NEW k \in DOMAIN left, i < k,
             left[i].type = "CMD", left[k].type = "CMD"
      PROVE  JobOf(left[i]) <= JobOf(left[k])
    <2>1. i \in Nat /\ k \in Nat  BY DEF Thinned
    <2>2. PICK a \in {i, i + 1} : a \in DOMAIN queue /\ left[i] = queue[a]
        BY <1>1, <1>3
    <2>3. PICK b \in {k, k + 1} : b \in DOMAIN queue /\ left[k] = queue[b]
        BY <1>1, <1>3
    <2>4. JobOf(left[i]) \in Nat  BY <1>2, <1>3 DEF Carries
    <2>5. CASE a = b  BY <2>2, <2>3, <2>4, <2>5
    <2>6. CASE a # b
        <3>1. a < b  BY <1>3, <2>1, <2>2, <2>3, <2>6
        <3>2. QED  BY <1>3, <2>2, <2>3, <3>1 DEF Sound, InOrder
    <2>7. QED  BY <2>5, <2>6
<1>4. QED  BY <1>2, <1>3 DEF Sound, InOrder, Thinned

\* A packet that is no command, or the last command, may follow a sound queue
LEMMA SoundAppend ==
    ASSUME NEW queue, NEW low \in Nat, NEW high \in Nat, NEW p \in Packets,
           Sound(queue, low, high), low <= high,
           p.type = "CMD" => Carries(p, high, high)
    PROVE  Sound(Append(queue, p), low, high)
<1>1. DEFINE longer == Append(queue, p)
<1>2. longer \in Seq(Packets) /\ Len(longer) = Len(queue) + 1
      /\ longer[Len(queue) + 1] = p
      /\ \A i \in 1 .. Len(queue) : longer[i] = queue[i]
    BY DEF Sound
<1>3. Len(queue) \in Nat /\ DOMAIN queue = 1 .. Len(queue)
      /\ DOMAIN longer = 1 .. Len(queue) + 1
    BY <1>2 DEF Sound
<1> HIDE DEF longer
<1>4. p.type = "CMD" => Carries(p, low, high) /\ JobOf(p) = high
    BY DEF Carries
<1>5. \A i \in DOMAIN longer : longer[i].type = "CMD" => Carries(longer[i], low, high)
    BY <1>2, <1>3, <1>4 DEF Sound
<1>6. \A i \in DOMAIN longer : longer[i].type = "CMD" => JobOf(longer[i]) <= high
    BY <1>5 DEF Carries
<1>7. InOrder(longer)
    <2>1. ASSUME NEW i \in DOMAIN longer, NEW k \in DOMAIN longer, i < k,
                 longer[i].type = "CMD", longer[k].type = "CMD"
          PROVE  JobOf(longer[i]) <= JobOf(longer[k])
        <3>1. i \in DOMAIN queue  BY <1>3, <2>1
        <3>2. CASE k \in DOMAIN queue
            BY <1>2, <1>3, <2>1, <3>1, <3>2 DEF Sound, InOrder
        <3>3. CASE k = Len(queue) + 1
            BY <1>2, <1>4, <1>6, <2>1, <3>3
        <3>4. QED  BY <1>3, <3>2, <3>3
    <2>2. QED  BY <2>1 DEF InOrder
<1>8. Sound(longer, low, high)  BY <1>2, <1>5, <1>7 DEF Sound
<1>9. QED  BY <1>8 DEF longer

\* One more job
LEMMA SoundRaise ==
    ASSUME NEW queue, NEW low \in Nat, NEW high \in Nat, Sound(queue, low, high)
    PROVE  Sound(queue, low, high + 1)
<1>1. ASSUME NEW i \in DOMAIN queue, queue[i].type = "CMD"
      PROVE  Carries(queue[i], low, high + 1)
    <2>1. Carries(queue[i], low, high)  BY <1>1 DEF Sound
    <2>2. QED  BY <2>1 DEF Carries
<1>2. QED  BY <1>1 DEF Sound

\* The command at the head is taken: none of those behind it is older
LEMMA SoundTake ==
    ASSUME NEW queue, NEW low \in Nat, NEW high \in Nat, Sound(queue, low, high),
           queue # <<>>, Head(queue).type = "CMD"
    PROVE  Sound(Tail(queue), JobOf(Head(queue)), high)
<1>1. Tail(queue) \in Seq(Packets) /\ DOMAIN Tail(queue) = 1 .. Len(queue) - 1
      /\ \A i \in 1 .. Len(queue) - 1 : Tail(queue)[i] = queue[i + 1]
    BY DEF Sound
<1>2. Len(queue) \in Nat /\ DOMAIN queue = 1 .. Len(queue) /\ 1 \in DOMAIN queue
      /\ Head(queue) = queue[1]
    BY DEF Sound
<1>3. ASSUME NEW i \in DOMAIN Tail(queue), Tail(queue)[i].type = "CMD"
      PROVE  Carries(Tail(queue)[i], JobOf(Head(queue)), high)
    <2>1. (i + 1) \in DOMAIN queue /\ 1 < i + 1 /\ Tail(queue)[i] = queue[i + 1]
        BY <1>1, <1>2, <1>3
    <2>2. Carries(queue[i + 1], low, high)  BY <1>3, <2>1 DEF Sound
    <2>3. JobOf(queue[1]) <= JobOf(queue[i + 1])
        BY <1>2, <1>3, <2>1 DEF Sound, InOrder
    <2>4. QED  BY <1>2, <2>1, <2>2, <2>3 DEF Carries
<1>4. InOrder(Tail(queue))
    <2>1. ASSUME NEW i \in DOMAIN Tail(queue), NEW k \in DOMAIN Tail(queue), i < k,
                 Tail(queue)[i].type = "CMD", Tail(queue)[k].type = "CMD"
          PROVE  JobOf(Tail(queue)[i]) <= JobOf(Tail(queue)[k])
        <3>1. (i + 1) \in DOMAIN queue /\ (k + 1) \in DOMAIN queue /\ i + 1 < k + 1
              /\ Tail(queue)[i] = queue[i + 1] /\ Tail(queue)[k] = queue[k + 1]
            BY <1>1, <1>2, <2>1
        <3>2. QED  BY <2>1, <3>1 DEF Sound, InOrder
    <2>2. QED  BY <2>1 DEF InOrder
<1>5. QED  BY <1>1, <1>3, <1>4 DEF Sound

-----------------------------------------------------------------------------

\* A database of a download in progress
Database == [id : Nat \cup {ArgTag}, size : Nat, items : Data]

\* temperature_db_new and list_add keep the list a list of databases
LEMMA ListAddType ==
    ASSUME dbList \in DbLists, NEW body \in Data, body # <<>>
    PROVE  ListAdd(NewDb(body[1])) \in DbLists
<1>1. body[1] \in (Nat \cup {ArgTag}) \X Nat  BY DEF Data
<1>2. NewDb(body[1]) \in Database  BY <1>1, NoData DEF NewDb, Database
<1>3. DbLists = Seq(Database)  BY DEF DbLists, Database
<1>4. QED  BY <1>2, <1>3 DEF ListAdd

\* and so does temperature_register_bulk
LEMMA RegisterBulkType ==
    ASSUME dbList \in DbLists, dbList # <<>>, NEW burst \in Data
    PROVE  RegisterBulk(burst) \in DbLists
<1>1. DEFINE db  == dbList[Len(dbList)]
             new == [db EXCEPT !.items = db.items \o burst]
<1>2. DbLists = Seq(Database)  BY DEF DbLists, Database
<1>3. db \in Database  BY <1>2
<1>4. db.items \o burst \in Data
    <2>1. db.items \in Data  BY <1>3 DEF Database
    <2> HIDE DEF db
    <2>2. QED  BY <2>1 DEF Data
<1>5. new \in Database
    <2> HIDE DEF db
    <2>1. QED  BY <1>3, <1>4 DEF Database
<1>6. RegisterBulk(burst) = [dbList EXCEPT ![Len(dbList)] = new]
    BY <1>2 DEF RegisterBulk
<1>7. QED
    <2> HIDE DEF new
    <2>1. QED  BY <1>2, <1>5, <1>6

\* list_concat keeps the storage a sequence of such lists
LEMMA ListConcatType ==
    ASSUME dbList \in DbLists, storage \in Seq(DbLists)
    PROVE  ListConcat \in Seq(DbLists)
BY DEF ListConcat

\* The next database is the first one from there that is not empty.
LEMMA NextDbLeast ==
    ASSUME NEW db \in Nat, NonEmptyFrom(db) # {}
    PROVE  /\ NextDb(db) \in NonEmptyFrom(db)
           /\ \A e \in NonEmptyFrom(db) : NextDb(db) <= e
<1>1. NonEmptyFrom(db) \subseteq Nat  BY AvrAssumption DEF NonEmptyFrom
<1>2. \E d \in NonEmptyFrom(db) :
            \A e \in NonEmptyFrom(db) : ~(<<e, d>> \in OpToRel(<, Nat))
    BY <1>1, NatLessThanWellFounded, WFMin
<1>3. \E d \in NonEmptyFrom(db) : \A e \in NonEmptyFrom(db) : d <= e
    <2>1. \A e, d \in Nat : e < d => <<e, d>> \in OpToRel(<, Nat)
        BY DEF OpToRel
    <2>2. PICK d \in NonEmptyFrom(db) :
                \A e \in NonEmptyFrom(db) : ~(<<e, d>> \in OpToRel(<, Nat))
        BY <1>2
    <2>3. \A e \in NonEmptyFrom(db) : ~(e < d)  BY <1>1, <2>1, <2>2
    <2>4. \A e \in NonEmptyFrom(db) : d <= e  BY <1>1, <2>3
    <2>5. QED  BY <2>4
<1>4. QED  BY <1>3 DEF NextDb

\* It has a size
LEMMA NextDbType ==
    ASSUME NEW db \in Nat, NonEmptyFrom(db) # {}
    PROVE  NextDb(db) \in Nat /\ DbSizes[NextDb(db) + 1] \in Nat
BY NextDbLeast, AvrAssumption DEF NonEmptyFrom

\* A burst never goes past the end of the database
LEMMA BurstBounds ==
    ASSUME temp_idx \in Nat, temp_count \in Nat, temp_idx <= temp_count
    PROVE  BurstLength \in Nat /\ temp_idx + BurstLength <= temp_count
BY AvrAssumption DEF BurstLength

\* and is data
LEMMA BurstType ==
    ASSUME temp_db_id \in Nat, temp_idx \in Nat, temp_count \in Nat,
           temp_idx <= temp_count
    PROVE  Burst \in Data
<1>1. BurstLength \in Nat  BY BurstBounds
<1>2. \A i \in 1 .. BurstLength :
          <<temp_db_id, temp_idx + i - 1>> \in (Nat \cup {ArgTag}) \X Nat
    BY <1>1
<1>3. QED  BY <1>1, <1>2 DEF Burst, Data

-----------------------------------------------------------------------------

(***************************************************************************)
(* The steps of the host.  While a job is in progress they change nothing  *)
(* of what Commanding is about, but that the packet being sent, or one     *)
(* that is no command, is appended to the line.                            *)
(***************************************************************************)
Sent ==
    \/ UNCHANGED toAvr
    \/ \E p \in Packets : /\ toAvr' = Append(toAvr, p)
                          /\ p.type = "CMD" => p = hpkt

HostMoves ==
    /\ LineTypes' /\ HostTypes' /\ Sent
    /\ jobs # <<>> /\ Len(jobs') = Len(jobs) /\ hpkt' = hpkt

\* The result of a job is a result, and adds no job
LEMMA ResultType ==
    ASSUME HostTypes, jobs # <<>>,
           NEW result \in {"ok", "wrong", "failed"}, SetResult(result)
    PROVE  /\ jobs' \in Seq([cmd : Commands \cup {"connect"},
                             result : {"running", "ok", "wrong", "failed"}])
           /\ Len(jobs') = Len(jobs)
<1>1. DEFINE Job == [cmd : Commands \cup {"connect"},
                     result : {"running", "ok", "wrong", "failed"}]
             done == [jobs[job] EXCEPT !.result = result]
<1>2. jobs \in Seq(Job) /\ job \in 1 .. Len(jobs)  BY DEF HostTypes, job
<1>3. done \in Job
    <2>1. jobs[job] \in Job
        <3> HIDE DEF Job
        <3>1. QED  BY <1>2
    <2>2. QED  BY <2>1
<1>4. jobs' = [jobs EXCEPT ![job] = done]  BY DEF SetResult
<1>5. QED
    <2> HIDE DEF Job, done
    <2>1. jobs' \in Seq(Job) /\ Len(jobs') = Len(jobs)  BY <1>2, <1>3, <1>4
    <2>2. QED  BY <2>1 DEF Job

\* The shell command returns
LEMMA ReturnType ==
    ASSUME HostTypes, jobs # <<>>,
           NEW result \in {"ok", "wrong", "failed"}, ShellReturn(result),
           hgid' \in Ids, hpkt' = hpkt, storage' \in Seq(DbLists)
    PROVE  HostTypes' /\ Len(jobs') = Len(jobs)
<1>1. /\ jobs' \in Seq([cmd : Commands \cup {"connect"},
                        result : {"running", "ok", "wrong", "failed"}])
      /\ Len(jobs') = Len(jobs)
    BY ResultType DEF ShellReturn
<1>2. dbList' \in DbLists  BY DEF ShellReturn, DbLists
<1>3. QED  BY <1>1, <1>2, HostAssumption DEF HostTypes, ShellReturn

\* The next attempt begins or the job fails
LEMMA NextAttemptType ==
    ASSUME HostTypes, jobs # <<>>, hpkt' = hpkt, storage' = storage,
           \/ /\ hpc \in {"send", "await", "sendwait"}
              /\ NextAttempt(MAXIMUM_SEND_ATTEMPTS, "send")
           \/ /\ hpc \in {"recv", "recvwait"}
              /\ NextAttempt(MAXIMUM_RECV_ATTEMPTS, "recv")
    PROVE  HostTypes' /\ Len(jobs') = Len(jobs)
<1>1. CASE hgid' = 0 /\ ShellReturn("failed")
    <2>1. hgid' \in Ids  BY <1>1, LineAssumption DEF Ids
    <2>2. storage' \in Seq(DbLists)  BY DEF HostTypes
    <2>3. QED  BY <1>1, <2>1, <2>2, ReturnType
<1>2. CASE /\ hpc \in {"send", "await", "sendwait"}
           /\ hattempt + 1 < MAXIMUM_SEND_ATTEMPTS
           /\ hattempt' = hattempt + 1 /\ hpc' = "send"
           /\ UNCHANGED <<hgid, jobs, dbList>>
    BY <1>2, HostAssumption DEF HostTypes
<1>3. CASE /\ hpc \in {"recv", "recvwait"}
           /\ hattempt + 1 < MAXIMUM_RECV_ATTEMPTS
           /\ hattempt' = hattempt + 1 /\ hpc' = "recv"
           /\ UNCHANGED <<hgid, jobs, dbList>>
    BY <1>3, HostAssumption DEF HostTypes
<1>4. QED  BY <1>1, <1>2, <1>3 DEF NextAttempt

\* communication_send transmits the packet
LEMMA HostTransmitMoves ==
    ASSUME TypeOK, jobs # <<>>, HostTransmit
    PROVE  HostMoves
<1>1. HostTypes'  BY DEF TypeOK, HostTypes, HostTransmit
<1>2. LineTypes'  BY DEF TypeOK, HostTypes, LineTypes, HostTransmit
<1>3. Sent  BY DEF TypeOK, HostTypes, HostTransmit, Sent
<1>4. QED  BY <1>1, <1>2, <1>3 DEF HostMoves, HostTransmit

\* The packet is acknowledged
LEMMA HostAckedMoves ==
    ASSUME TypeOK, jobs # <<>>, HostAcked
    PROVE  HostMoves
<1>1. LineTypes'  BY TailThins DEF TypeOK, LineTypes, Thinned, HostAcked
<1>2. hgid' \in Ids  BY NextIdType DEF TypeOK, HostTypes, HostAcked
<1>3. HostTypes' /\ Len(jobs') = Len(jobs)
    <2>1. CASE ShellReturn("ok")
        <3>1. storage' \in Seq(DbLists)  BY DEF TypeOK, HostTypes, HostAcked
        <3>2. QED  BY <1>2, <2>1, <3>1, ReturnType DEF TypeOK, HostAcked
    <2>2. CASE hpc' = "recv" /\ hattempt' = 0 /\ UNCHANGED <<jobs, dbList>>
        BY <1>2, <2>2, HostAssumption DEF TypeOK, HostTypes, HostAcked
    <2>3. QED  BY <2>1, <2>2 DEF HostAcked
<1>4. QED  BY <1>1, <1>3 DEF HostMoves, Sent, HostAcked

\* It is not
LEMMA HostNotAckedMoves ==
    ASSUME TypeOK, jobs # <<>>, HostNotAcked
    PROVE  HostMoves
<1>1. LineTypes'
    <2>1. toHost \in Seq(Packets) /\ toHost # <<>>
        BY DEF TypeOK, LineTypes, HostNotAcked
    <2>2. Thinned(toHost, toHost')
        BY <2>1, TailThins, LeftoversThin DEF HostNotAcked
    <2>3. QED  BY <2>2 DEF TypeOK, LineTypes, Thinned, HostNotAcked
<1>2. HostTypes'  BY DEF TypeOK, HostTypes, HostNotAcked
<1>3. QED  BY <1>1, <1>2 DEF HostMoves, Sent, HostNotAcked

\* The RTO elapses while the host sends
LEMMA HostSendTimeoutMoves ==
    ASSUME TypeOK, jobs # <<>>, HostSendTimeout
    PROVE  HostMoves
<1>1. LineTypes'
    <2>1. toHost \in Seq(Packets)  BY DEF TypeOK, LineTypes
    <2>2. Thinned(toHost, toHost')
        BY <2>1, SameThins, CutShortThins DEF HostSendTimeout
    <2>3. QED  BY <2>2 DEF TypeOK, LineTypes, Thinned, HostSendTimeout
<1>2. HostTypes' /\ Len(jobs') = Len(jobs)
    <2>1. hpc \in {"await", "sendwait"} /\ hpkt' = hpkt /\ storage' = storage
          /\ NextAttempt(MAXIMUM_SEND_ATTEMPTS, "send")
        BY DEF HostSendTimeout
    <2>2. QED  BY <2>1, NextAttemptType DEF TypeOK
<1>3. QED  BY <1>1, <1>2 DEF HostMoves, Sent, HostSendTimeout

\* The RTO elapses while the host receives
LEMMA HostRecvTimeoutMoves ==
    ASSUME TypeOK, jobs # <<>>, HostRecvTimeout
    PROVE  HostMoves
<1>1. LineTypes'
    <2>1. toHost \in Seq(Packets)  BY DEF TypeOK, LineTypes
    <2>2. Thinned(toHost, toHost')
        BY <2>1, SameThins, CutShortThins DEF HostRecvTimeout
    <2>3. QED  BY <2>2 DEF TypeOK, LineTypes, Thinned, HostRecvTimeout
<1>2. HostTypes' /\ Len(jobs') = Len(jobs)
    <2>1. hpc \in {"recv", "recvwait"} /\ hpkt' = hpkt /\ storage' = storage
          /\ NextAttempt(MAXIMUM_RECV_ATTEMPTS, "recv")
        BY DEF HostRecvTimeout
    <2>2. QED  BY <2>1, NextAttemptType DEF TypeOK
<1>3. QED  BY <1>1, <1>2 DEF HostMoves, Sent, HostRecvTimeout

\* The signal of the timer of an earlier exchange ends the first attempt
LEMMA HostStaleSignalMoves ==
    ASSUME TypeOK, jobs # <<>>, HostStaleSignal
    PROVE  HostMoves
<1>1. hpkt \in Packets /\ toAvr \in Seq(Packets) /\ faults \in 0 .. MaxFaults
    BY DEF TypeOK, HostTypes, LineTypes
<1>2. toAvr' = toAvr \/ toAvr' = Append(toAvr, hpkt)  BY DEF HostStaleSignal
<1>3. LineTypes'
    <2>1. toAvr' \in Seq(Packets)  BY <1>1, <1>2
    <2>2. faults' \in 0 .. MaxFaults  BY <1>1, LineAssumption DEF HostStaleSignal
    <2>3. QED  BY <2>1, <2>2 DEF TypeOK, LineTypes, HostStaleSignal
<1>4. HostTypes' /\ Len(jobs') = Len(jobs)
    <2>1. /\ hpkt' = hpkt /\ storage' = storage
          /\ \/ hpc = "send" /\ NextAttempt(MAXIMUM_SEND_ATTEMPTS, "send")
             \/ hpc = "recv" /\ NextAttempt(MAXIMUM_RECV_ATTEMPTS, "recv")
        BY DEF HostStaleSignal
    <2>2. QED  BY <2>1, NextAttemptType DEF TypeOK
<1>5. QED  BY <1>1, <1>2, <1>3, <1>4 DEF HostMoves, Sent, HostStaleSignal

\* The answer to a packet is a packet, and no command
LEMMA AnswerType ==
    ASSUME NEW p \in Packets
    PROVE  /\ packet_ack(p) \in Packets /\ packet_ack(p).type = "ACK"
           /\ packet_err(p) \in Packets /\ packet_err(p).type = "ERR"
<1>1. packet_ack(p) \in Packets /\ packet_err(p) \in Packets
    BY PacketId, PacketType, NoData DEF packet_ack, packet_err
<1>2. QED  BY <1>1 DEF packet_ack, packet_err, Packet

\* A packet is received and rejected
LEMMA HostRejectMoves ==
    ASSUME TypeOK, jobs # <<>>, HostReject
    PROVE  HostMoves
<1>1. toHost \in Seq(Packets) /\ toHost # <<>> /\ Head(toHost) \in Packets
    BY DEF TypeOK, LineTypes, HostReject
<1>2. DEFINE err == packet_err(Head(toHost))
<1>3. err \in Packets /\ err.type = "ERR" /\ toAvr' = Append(toAvr, err)
    BY <1>1, AnswerType DEF HostReject
<1>4. toHost' \in Seq(Packets)  BY <1>1, LeftoversThin DEF Thinned, HostReject
<1> HIDE DEF err
<1>5. LineTypes'  BY <1>3, <1>4 DEF TypeOK, LineTypes, HostReject
<1>6. HostTypes'  BY DEF TypeOK, HostTypes, HostReject
<1>7. Sent  BY <1>3 DEF Sent
<1>8. QED  BY <1>5, <1>6, <1>7 DEF HostMoves, HostReject

\* What an echo and a download do with a packet
LEMMA ReplyType ==
    ASSUME HostTypes, jobs # <<>>, hpc = "recv", hgid' \in Ids, hpkt' = hpkt,
           NEW p \in Packets, EchoReply(p) \/ DownloadReply(p)
    PROVE  HostTypes' /\ Len(jobs') = Len(jobs)
<1>1. dbList \in DbLists /\ storage \in Seq(DbLists) /\ p.body \in Data
    BY PacketId DEF HostTypes
<1>2. ASSUME NEW result \in {"ok", "wrong", "failed"}, ShellReturn(result),
             storage' = storage \/ storage' = ListConcat
      PROVE  HostTypes' /\ Len(jobs') = Len(jobs)
    <2>1. storage' \in Seq(DbLists)  BY <1>1, <1>2, ListConcatType
    <2>2. QED  BY <1>2, <2>1, ReturnType
<1>3. ASSUME dbList' \in DbLists, hpc' = "recv", hattempt' = 0,
             UNCHANGED <<jobs, storage>>
      PROVE  HostTypes' /\ Len(jobs') = Len(jobs)
    BY <1>3, HostAssumption DEF HostTypes
<1>4. CASE EchoReply(p)
    BY <1>2, <1>4 DEF EchoReply
<1>5. CASE /\ p.body # <<>> /\ dbList' = ListAdd(NewDb(p.body[1]))
           /\ hpc' = "recv" /\ hattempt' = 0 /\ UNCHANGED <<jobs, storage>>
    <2>1. dbList' \in DbLists  BY <1>1, <1>5, ListAddType
    <2>2. QED  BY <1>3, <1>5, <2>1
<1>6. CASE /\ dbList # <<>> /\ dbList' = RegisterBulk(p.body)
           /\ hpc' = "recv" /\ hattempt' = 0 /\ UNCHANGED <<jobs, storage>>
    <2>1. dbList' \in DbLists  BY <1>1, <1>6, RegisterBulkType
    <2>2. QED  BY <1>3, <1>6, <2>1
<1>7. CASE \/ storage' = ListConcat /\ ShellReturn("ok")
           \/ storage' = storage /\ ShellReturn("failed")
    BY <1>2, <1>7
<1>8. QED  BY <1>4, <1>5, <1>6, <1>7 DEF DownloadReply

\* A packet is received, accepted and handled
LEMMA HostReceiveMoves ==
    ASSUME TypeOK, jobs # <<>>, HostReceive
    PROVE  HostMoves
<1>1. toHost \in Seq(Packets) /\ toHost # <<>> /\ Head(toHost) \in Packets
    BY DEF TypeOK, LineTypes, HostReceive
<1>2. DEFINE ack == packet_ack(Head(toHost))
<1>3. ack \in Packets /\ ack.type = "ACK" /\ toAvr' = Append(toAvr, ack)
    BY <1>1, AnswerType DEF HostReceive
<1>4. toHost' \in Seq(Packets)  BY <1>1, TailThins DEF Thinned, HostReceive
<1> HIDE DEF ack
<1>5. LineTypes'  BY <1>3, <1>4 DEF TypeOK, LineTypes, HostReceive
<1>6. hgid' \in Ids  BY NextIdType DEF TypeOK, HostTypes, HostReceive
<1>7. HostTypes' /\ Len(jobs') = Len(jobs)
    BY <1>1, <1>6, ReplyType DEF TypeOK, HostReceive
<1>8. Sent  BY <1>3 DEF Sent
<1>9. QED  BY <1>5, <1>7, <1>8 DEF HostMoves, HostReceive

-----------------------------------------------------------------------------

\* A shell command is issued: the packet crafted for it carries the new job
LEMMA IssueKeeps ==
    ASSUME LinkInv, NEW cmd \in Commands \cup {"connect"}, Issue(cmd),
           UNCHANGED avrVars, due' \in {"none", "host", "avr"}
    PROVE  LinkInv'
<1>1. DEFINE new == [cmd |-> cmd, result |-> "running"]
             Job == [cmd : Commands \cup {"connect"},
                     result : {"running", "ok", "wrong", "failed"}]
<1>2. jobs \in Seq(Job) /\ Len(jobs) \in Nat  BY DEF LinkInv, TypeOK, HostTypes
<1>3. new \in Job  OBVIOUS
<1>4. jobs' = Append(jobs, new)  BY DEF Issue
<1>5. jobs' \in Seq(Job) /\ Len(jobs') = Len(jobs) + 1 /\ jobs' # <<>>
    <2> HIDE DEF new, Job
    <2>1. QED  BY <1>2, <1>3, <1>4
<1>6. \/ hpkt' = Packet("HND", 0, <<>>) /\ hgid' = 0
      \/ cmd \in Commands /\ hpkt' = CmdPacket(hgid, cmd, Len(jobs) + 1) /\ hgid' = hgid
    BY DEF Issue, job
<1>7. hpkt' \in Packets /\ hgid' \in Ids
      /\ (hpkt'.type = "CMD" => Carries(hpkt', Len(jobs) + 1, Len(jobs) + 1))
    <2>1. CASE hpkt' = Packet("HND", 0, <<>>) /\ hgid' = 0
        <3>1. hgid' \in Ids  BY <2>1, LineAssumption DEF Ids
        <3>2. hpkt' \in Packets  BY <2>1, <3>1, PacketType, NoData
        <3>3. QED  BY <2>1, <3>1, <3>2 DEF Packet
    <2>2. CASE /\ cmd \in Commands /\ hgid' = hgid
               /\ hpkt' = CmdPacket(hgid, cmd, Len(jobs) + 1)
        <3>1. hgid \in Ids  BY DEF LinkInv, TypeOK, HostTypes
        <3>2. hpkt'.cmd = cmd /\ hpkt'.body = Argument(Len(jobs) + 1)
            BY <2>2 DEF CmdPacket
        <3>3. JobOf(hpkt') = Len(jobs) + 1  BY <3>2 DEF JobOf, Argument
        <3>4. Carries(hpkt', Len(jobs) + 1, Len(jobs) + 1)
            BY <1>2, <2>2, <3>2, <3>3 DEF Carries
        <3>5. Argument(Len(jobs) + 1) \in Data  BY <1>2, ArgumentType
        <3>6. hpkt' \in Packets  BY <2>2, <3>1, <3>5 DEF CmdPacket, Packets
        <3>7. QED  BY <2>2, <3>1, <3>4, <3>6
    <2>3. QED  BY <1>6, <2>1, <2>2
<1>8. LineTypes'
    BY FlushType DEF LinkInv, TypeOK, LineTypes, Issue
<1>9. HostTypes'
    BY <1>5, <1>7, HostAssumption DEF LinkInv, TypeOK, HostTypes, Issue
<1>10. TypeOK' /\ Underway'
    BY <1>5, <1>8, <1>9 DEF LinkInv, TypeOK, AvrTypes, Underway, avrVars
<1>11. LastRan \in Nat /\ LastRan' = LastRan
    BY DEF LinkInv, TypeOK, AvrTypes, LastRan, avrVars
<1>12. Sound(toAvr', LastRan', Len(jobs'))
    BY <1>2, <1>5, <1>11, SoundRaise DEF LinkInv, Commanding, Issue
<1>13. Commanding'
    BY <1>2, <1>5, <1>7, <1>11, <1>12 DEF LinkInv, Commanding, RanInOrder, avrVars
<1>14. QED  BY <1>10, <1>13 DEF LinkInv

\* A step of a job in progress
LEMMA HostMovesKeep ==
    ASSUME LinkInv, HostMoves, UNCHANGED avrVars, due' \in {"none", "host", "avr"}
    PROVE  LinkInv'
<1>1. Len(jobs) \in Nat /\ Len(jobs') = Len(jobs) /\ jobs' # <<>>
    BY DEF LinkInv, TypeOK, HostTypes, HostMoves
<1>2. LastRan \in Nat /\ LastRan' = LastRan
    BY DEF LinkInv, TypeOK, AvrTypes, LastRan, avrVars
<1>3. TypeOK' /\ Underway'
    BY <1>1 DEF LinkInv, TypeOK, AvrTypes, Underway, HostMoves, avrVars
<1>4. Sound(toAvr', LastRan, Len(jobs))
    <2>1. Sound(toAvr, LastRan, Len(jobs)) /\ LastRan <= Len(jobs)
        BY DEF LinkInv, Commanding
    <2>2. CASE UNCHANGED toAvr  BY <2>1, <2>2
    <2>3. ASSUME NEW p \in Packets, toAvr' = Append(toAvr, p), p.type = "CMD" => p = hpkt
          PROVE  Sound(toAvr', LastRan, Len(jobs))
        <3>1. p.type = "CMD" => Carries(p, Len(jobs), Len(jobs))
            BY <2>3 DEF LinkInv, Commanding
        <3>2. QED  BY <1>1, <1>2, <2>1, <2>3, <3>1, SoundAppend
    <2>4. QED  BY <2>2, <2>3 DEF HostMoves, Sent
<1>5. Commanding'
    BY <1>1, <1>2, <1>4 DEF LinkInv, Commanding, RanInOrder, HostMoves, avrVars
<1>6. QED  BY <1>3, <1>5 DEF LinkInv

-----------------------------------------------------------------------------

(***************************************************************************)
(* The steps of the AVR.  They take packets from the line; the one that    *)
(* executes a command takes it from the head of the line.                  *)
(***************************************************************************)
Place ==
    /\ temp_db_id \in Nat /\ temp_idx \in Nat /\ temp_count \in Nat
    /\ temp_idx <= temp_count

AvrMoves ==
    LineTypes' /\ AvrTypes' /\ Place' /\ Thinned(toAvr, toAvr') /\ ran' = ran

AvrRuns ==
    /\ LineTypes' /\ AvrTypes' /\ Place'
    /\ toAvr # <<>> /\ Head(toAvr).type = "CMD" /\ toAvr' = Tail(toAvr)
    /\ ran' = Append(ran, JobOf(Head(toAvr)))

\* A packet is about to be sent
Sending ==
    apkt' \in Packets /\ apc' = "send" /\ aattempt' = 0 /\ back' \in {"top", "rx"}

\* communication_craft_and_send
LEMMA SendType ==
    ASSUME NEW id \in Ids, NEW type \in {"CTR", "DAT"}, NEW body \in Data,
           NEW return \in {"top", "rx"}, Send(id, type, body, return)
    PROVE  Sending
BY PacketType DEF Send, Sending

\* _change_current_db
LEMMA ChangeDbType ==
    ASSUME NEW id \in Ids, NEW db \in Nat, NEW return \in {"top", "rx"}, Place,
           ChangeDb(id, db, return)
    PROVE  Sending /\ Place'
<1>1. CASE NonEmptyFrom(db) = {}
    <2>1. Send(id, "CTR", <<>>, return) /\ UNCHANGED download
        BY <1>1 DEF ChangeDb
    <2>2. Sending  BY <2>1, NoData, SendType
    <2>3. QED  BY <2>1, <2>2 DEF Place, download
<1>2. CASE NonEmptyFrom(db) # {}
    <2>1. DEFINE next  == NextDb(db)
                 count == DbSizes[next + 1]
                 info  == <<<<next, count>>>>
    <2>2. next \in Nat /\ count \in Nat  BY <1>2, NextDbType
    <2>3. temp_db_id' = next /\ temp_idx' = 0 /\ temp_count' = count
          /\ Send(id, "CTR", info, return)
        BY <1>2 DEF ChangeDb
    <2>4. info \in Data
        <3> HIDE DEF next, count
        <3>1. QED  BY <2>2 DEF Data
    <2> HIDE DEF next, count, info
    <2>5. Sending  BY <2>3, <2>4, SendType
    <2>6. QED  BY <2>2, <2>3, <2>5 DEF Place
<1>3. QED  BY <1>1, <1>2

\* The parts of AvrTypes and Place that a send changes are given
LEMMA SendingTypes ==
    ASSUME AvrTypes, Sending, Place', agid' \in Ids,
           command_current' \in {"none", "download"}, command_notified' \in BOOLEAN,
           ran' \in Seq(Nat)
    PROVE  AvrTypes'
BY AvrAssumption DEF AvrTypes, Sending, Place

\* communication_handler iterates the command
LEMMA AvrIterateMoves ==
    ASSUME TypeOK, Place, AvrIterate
    PROVE  AvrMoves
<1>1. LineTypes' /\ Thinned(toAvr, toAvr') /\ ran' = ran
    BY SameThins DEF TypeOK, LineTypes, lineVars, AvrIterate
<1>2. agid \in Ids /\ agid' \in Ids /\ command_notified' \in BOOLEAN
      /\ ran' \in Seq(Nat)
    BY DEF TypeOK, AvrTypes, AvrIterate
<1>3. AvrTypes' /\ Place'
    <2>1. CASE command_current # "download"
        BY <2>1 DEF TypeOK, AvrTypes, Place, download, AvrIterate
    <2>2. CASE command_current = "download" /\ temp_idx = temp_count
        <3>1. ChangeDb(agid, temp_db_id + 1, "rx")
              /\ command_current' \in {"none", "download"}
            BY <2>2 DEF AvrIterate, DownloadIterate
        <3>2. temp_db_id + 1 \in Nat  BY DEF Place
        <3>3. Sending /\ Place'  BY <1>2, <3>1, <3>2, ChangeDbType
        <3>4. QED  BY <1>2, <3>1, <3>3, SendingTypes DEF TypeOK
    <2>3. CASE command_current = "download" /\ temp_idx # temp_count
        <3>1. Send(agid, "DAT", Burst, "rx") /\ temp_idx' = temp_idx + BurstLength
              /\ UNCHANGED <<temp_db_id, temp_count, command_current>>
            BY <2>3 DEF AvrIterate, DownloadIterate
        <3>2. Sending  BY <1>2, <3>1, BurstType, SendType DEF Place
        <3>3. Place'  BY <3>1, BurstBounds DEF Place
        <3>4. QED
            BY <1>2, <3>1, <3>2, <3>3, SendingTypes DEF TypeOK, AvrTypes
    <2>4. QED  BY <2>1, <2>2, <2>3
<1>4. QED  BY <1>1, <1>3 DEF AvrMoves

\* communication_handler looks for data
LEMMA AvrPollMoves ==
    ASSUME TypeOK, Place, AvrPoll
    PROVE  AvrMoves
<1>1. LineTypes' /\ Thinned(toAvr, toAvr') /\ ran' = ran
    BY SameThins DEF TypeOK, LineTypes, lineVars, AvrPoll
<1>2. AvrTypes' /\ Place'
    <2>1. CASE apc' = "recv" /\ aattempt' = 0
        BY <2>1, AvrAssumption DEF TypeOK, AvrTypes, Place, download, AvrPoll
    <2>2. CASE apc = "rx" /\ apc' = "top" /\ UNCHANGED aattempt
        BY <2>2 DEF TypeOK, AvrTypes, Place, download, AvrPoll
    <2>3. QED  BY <2>1, <2>2 DEF AvrPoll
<1>3. QED  BY <1>1, <1>2 DEF AvrMoves

\* An acknowledgement or an ERR is appended to the line to the host
LEMMA AnswerToHost ==
    ASSUME LineTypes, NEW p \in Packets, toHost' = Append(toHost, p),
           toAvr' \in Seq(Packets), faults' = faults
    PROVE  LineTypes'
BY DEF LineTypes

\* The id after a packet is received
LEMMA IdAfterType ==
    ASSUME agid \in Ids, NEW p
    PROVE  IdAfter(p) \in Ids
BY NextIdType, LineAssumption DEF IdAfter, Ids

\* A packet is received and a command executed
LEMMA AvrReceiveCommand ==
    ASSUME TypeOK, Place, NEW low \in Nat, NEW high \in Nat,
           Sound(toAvr, low, high), AvrReceive, Head(toAvr).type = "CMD"
    PROVE  AvrRuns
<1>1. DEFINE p   == Head(toAvr)
             id  == IdAfter(p)
             ack == packet_ack(p)
<1>2. toAvr \in Seq(Packets) /\ toAvr # <<>> /\ p = toAvr[1] /\ 1 \in DOMAIN toAvr
    BY DEF TypeOK, LineTypes, AvrReceive
<1>3. p \in Packets /\ Carries(p, low, high)  BY <1>2 DEF Sound
<1>4. ack \in Packets /\ id \in Ids
    BY <1>3, AnswerType, IdAfterType DEF TypeOK, AvrTypes
<1>5. toAvr' = Tail(toAvr) /\ toHost' = Append(toHost, ack) /\ agid' = id
      /\ OpCmd(id, p) /\ UNCHANGED <<faults, command_notified>>
    BY DEF AvrReceive
<1>6. Tail(toAvr) \in Seq(Packets)  BY <1>2
<1> HIDE DEF p, id, ack
<1>7. LineTypes'  BY <1>4, <1>5, <1>6, AnswerToHost DEF TypeOK
<1>8. ran' = Append(ran, JobOf(p)) /\ JobOf(p) \in Nat
    BY <1>3, <1>5 DEF OpCmd, JobOf, Carries
<1>9. ran' \in Seq(Nat)  BY <1>8 DEF TypeOK, AvrTypes
<1>10. AvrTypes' /\ Place'
    <2>1. p.cmd \in {"set", "echo", "download"} /\ p.body \in Data
        BY <1>3, PacketId DEF Carries, Commands
    <2>2. CASE p.cmd = "set"
        <3>1. /\ apc' = "top" /\ aattempt' = 0
              /\ UNCHANGED <<back, apkt, command_current, download>>
            BY <1>5, <2>2 DEF OpCmd
        <3>2. QED
            BY <1>4, <1>5, <1>9, <3>1, AvrAssumption
            DEF TypeOK, AvrTypes, Place, download
    <2>3. CASE p.cmd = "echo"
        <3>1. Send(id, "DAT", p.body, "top") /\ UNCHANGED <<command_current, download>>
            BY <1>5, <2>3 DEF OpCmd
        <3>2. Sending  BY <1>4, <2>1, <3>1, SendType
        <3>3. Place'  BY <3>1 DEF Place, download
        <3>4. command_current' \in {"none", "download"} /\ command_notified' \in BOOLEAN
            BY <1>5, <3>1 DEF TypeOK, AvrTypes
        <3>5. QED  BY <1>4, <1>5, <1>9, <3>2, <3>3, <3>4, SendingTypes DEF TypeOK
    <2>4. CASE p.cmd = "download"
        <3>1. /\ ChangeDb(id, 0, "top")
              /\ command_current' \in {command_current, "download"}
            BY <1>5, <2>4 DEF OpCmd
        <3>2. Sending /\ Place'  BY <1>4, <3>1, ChangeDbType
        <3>3. command_current' \in {"none", "download"} /\ command_notified' \in BOOLEAN
            BY <1>5, <3>1 DEF TypeOK, AvrTypes
        <3>4. QED  BY <1>4, <1>5, <1>9, <3>2, <3>3, SendingTypes DEF TypeOK
    <2>5. QED  BY <2>1, <2>2, <2>3, <2>4
<1>11. QED  BY <1>2, <1>5, <1>7, <1>8, <1>10 DEF AvrRuns, p

\* Any other packet is received
LEMMA AvrReceiveOther ==
    ASSUME TypeOK, Place, AvrReceive, Head(toAvr).type # "CMD"
    PROVE  AvrMoves
<1>1. DEFINE p   == Head(toAvr)
             id  == IdAfter(p)
             ack == packet_ack(p)
<1>2. toAvr \in Seq(Packets) /\ toAvr # <<>> /\ p \in Packets
    BY DEF TypeOK, LineTypes, AvrReceive
<1>3. ack \in Packets /\ id \in Ids
    BY <1>2, AnswerType, IdAfterType DEF TypeOK, AvrTypes
<1>4. Thinned(toAvr, Tail(toAvr))  BY <1>2, TailThins
<1>5. toAvr' = Tail(toAvr) /\ toHost' = Append(toHost, ack) /\ agid' = id
      /\ apc' = "top" /\ aattempt' = 0
      /\ UNCHANGED <<back, apkt, command_current, download, ran>>
      /\ UNCHANGED <<faults, command_notified>>
    BY DEF AvrReceive
<1> HIDE DEF p, id, ack
<1>6. LineTypes'
    BY <1>3, <1>4, <1>5, AnswerToHost DEF TypeOK, Thinned
<1>7. AvrTypes' /\ Place'
    BY <1>3, <1>5, AvrAssumption DEF TypeOK, AvrTypes, Place, download
<1>8. QED  BY <1>4, <1>5, <1>6, <1>7 DEF AvrMoves

\* A packet is received and rejected, with all that follows it
LEMMA AvrRejectMoves ==
    ASSUME TypeOK, Place, AvrReject
    PROVE  AvrMoves
<1>1. DEFINE err == packet_err(Head(toAvr))
<1>2. toAvr \in Seq(Packets) /\ toAvr # <<>> /\ Head(toAvr) \in Packets
    BY DEF TypeOK, LineTypes, AvrReject
<1>3. err \in Packets /\ toHost' = Append(toHost, err) /\ toAvr' = <<>>
      /\ faults' = faults
    BY <1>2, AnswerType DEF AvrReject
<1>4. Thinned(toAvr, toAvr')  BY <1>3 DEF Thinned
<1> HIDE DEF err
<1>5. LineTypes'  BY <1>3, <1>4, AnswerToHost DEF TypeOK, Thinned
<1>6. AvrTypes' /\ Place' /\ ran' = ran
    BY DEF TypeOK, AvrTypes, Place, download, AvrReject
<1>7. QED  BY <1>4, <1>5, <1>6 DEF AvrMoves

\* The next attempt begins or the AVR gives up
LEMMA AvrNextAttemptType ==
    ASSUME AvrTypes, Place, UNCHANGED AvrUndelivered, NEW return \in {"top", "rx"},
           \/ /\ apc \in {"await", "sendwait"}
              /\ AvrNextAttempt(AVR_SEND_ATTEMPTS, "send", return)
           \/ /\ apc \in {"recv", "recvwait"}
              /\ AvrNextAttempt(AVR_RECV_ATTEMPTS, "recv", return)
    PROVE  AvrTypes' /\ Place' /\ ran' = ran
<1>1. CASE aattempt' = 0 /\ apc' = return /\ agid' = 0
    BY <1>1, AvrAssumption, LineAssumption
    DEF AvrTypes, Place, Ids, AvrUndelivered, download
<1>2. CASE /\ apc \in {"await", "sendwait"}
           /\ aattempt + 1 < AVR_SEND_ATTEMPTS
           /\ aattempt' = aattempt + 1 /\ apc' = "send" /\ UNCHANGED agid
    BY <1>2, AvrAssumption DEF AvrTypes, Place, AvrUndelivered, download
<1>3. CASE /\ apc \in {"recv", "recvwait"}
           /\ aattempt + 1 < AVR_RECV_ATTEMPTS
           /\ aattempt' = aattempt + 1 /\ apc' = "recv" /\ UNCHANGED agid
    BY <1>3, AvrAssumption DEF AvrTypes, Place, AvrUndelivered, download
<1>4. QED  BY <1>1, <1>2, <1>3 DEF AvrNextAttempt

\* The RTO elapses while the AVR receives
LEMMA AvrRecvTimeoutMoves ==
    ASSUME TypeOK, Place, AvrRecvTimeout
    PROVE  AvrMoves
<1>1. toAvr \in Seq(Packets)  BY DEF TypeOK, LineTypes
<1>2. Thinned(toAvr, toAvr')
    <2>1. CASE toAvr' \in CutShort(toAvr)  BY <1>1, <2>1, CutShortThins
    <2>2. CASE toAvr' = <<>>  BY <2>2 DEF Thinned
    <2>3. QED  BY <2>1, <2>2 DEF AvrRecvTimeout
<1>3. LineTypes'  BY <1>2 DEF TypeOK, LineTypes, Thinned, AvrRecvTimeout
<1>4. AvrTypes' /\ Place' /\ ran' = ran
    BY AvrNextAttemptType DEF TypeOK, AvrRecvTimeout
<1>5. QED  BY <1>2, <1>3, <1>4 DEF AvrMoves

\* A match of the timer since the last interrupt ends the attempt
LEMMA AvrStaleMatchMoves ==
    ASSUME TypeOK, Place, AvrStaleMatch
    PROVE  AvrMoves
<1>1. LineTypes' /\ Thinned(toAvr, toAvr')
    BY SameThins DEF TypeOK, LineTypes, lineVars, AvrStaleMatch
<1>2. AvrTypes' /\ Place' /\ ran' = ran
    BY AvrNextAttemptType DEF TypeOK, AvrStaleMatch
<1>3. QED  BY <1>1, <1>2 DEF AvrMoves

\* communication_send transmits the packet
LEMMA AvrTransmitMoves ==
    ASSUME TypeOK, Place, AvrTransmit
    PROVE  AvrMoves
<1>1. apkt \in Packets  BY DEF TypeOK, AvrTypes
<1>2. LineTypes' /\ Thinned(toAvr, toAvr')
    BY <1>1, SameThins DEF TypeOK, LineTypes, AvrTransmit
<1>3. AvrTypes' /\ Place' /\ ran' = ran
    BY DEF TypeOK, AvrTypes, Place, AvrUndelivered, download, AvrTransmit
<1>4. QED  BY <1>2, <1>3 DEF AvrMoves

\* The packet is acknowledged
LEMMA AvrAckedMoves ==
    ASSUME TypeOK, Place, AvrAcked
    PROVE  AvrMoves
<1>1. LineTypes' /\ Thinned(toAvr, toAvr')
    BY TailThins DEF TypeOK, LineTypes, Thinned, AvrAcked
<1>2. agid' \in Ids  BY NextIdType DEF TypeOK, AvrTypes, AvrAcked
<1>3. AvrTypes' /\ Place' /\ ran' = ran
    BY <1>2, AvrAssumption DEF TypeOK, AvrTypes, Place, download, AvrAcked
<1>4. QED  BY <1>1, <1>3 DEF AvrMoves

\* It is not
LEMMA AvrNotAckedMoves ==
    ASSUME TypeOK, Place, AvrNotAcked
    PROVE  AvrMoves
<1>1. toAvr \in Seq(Packets) /\ toAvr # <<>>
    BY DEF TypeOK, LineTypes, AvrNotAcked
<1>2. Thinned(toAvr, toAvr')
    BY <1>1, TailThins, LeftoversThin DEF AvrNotAcked
<1>3. LineTypes'  BY <1>2 DEF TypeOK, LineTypes, Thinned, AvrNotAcked
<1>4. AvrTypes' /\ Place' /\ ran' = ran
    BY DEF TypeOK, AvrTypes, Place, AvrUndelivered, download, AvrNotAcked
<1>5. QED  BY <1>2, <1>3, <1>4 DEF AvrMoves

\* The RTO elapses while the AVR sends
LEMMA AvrSendTimeoutMoves ==
    ASSUME TypeOK, Place, AvrSendTimeout
    PROVE  AvrMoves
<1>1. toAvr \in Seq(Packets) /\ back \in {"top", "rx"}
    BY DEF TypeOK, LineTypes, AvrTypes
<1>2. Thinned(toAvr, toAvr')
    BY <1>1, SameThins, CutShortThins DEF AvrSendTimeout
<1>3. LineTypes'  BY <1>2 DEF TypeOK, LineTypes, Thinned, AvrSendTimeout
<1>4. AvrTypes' /\ Place' /\ ran' = ran
    BY <1>1, AvrNextAttemptType DEF TypeOK, AvrSendTimeout
<1>5. QED  BY <1>2, <1>3, <1>4 DEF AvrMoves

\* A step that only takes packets away
LEMMA AvrMovesKeep ==
    ASSUME LinkInv, AvrMoves, UNCHANGED hostVars, due' \in {"none", "host", "avr"}
    PROVE  LinkInv'
<1>1. LastRan \in Nat /\ LastRan' = LastRan /\ Len(jobs) \in Nat
    BY DEF LinkInv, TypeOK, AvrTypes, HostTypes, LastRan, AvrMoves
<1>2. TypeOK' /\ Underway'
    BY DEF LinkInv, TypeOK, HostTypes, Underway, Place, AvrMoves, hostVars
<1>3. Sound(toAvr', LastRan, Len(jobs))
    BY <1>1, SoundThinned DEF LinkInv, Commanding, AvrMoves
<1>4. Commanding'
    BY <1>1, <1>3 DEF LinkInv, Commanding, RanInOrder, AvrMoves, hostVars
<1>5. QED  BY <1>2, <1>4 DEF LinkInv

\* A step that executes a command
LEMMA AvrRunsKeep ==
    ASSUME LinkInv, AvrRuns, UNCHANGED hostVars, due' \in {"none", "host", "avr"}
    PROVE  LinkInv'
<1>1. DEFINE n == JobOf(Head(toAvr))
<1>2. LastRan \in Nat /\ Len(jobs) \in Nat /\ ran \in Seq(Nat)
    BY DEF LinkInv, TypeOK, AvrTypes, HostTypes, LastRan
<1>3. Sound(toAvr, LastRan, Len(jobs)) /\ toAvr # <<>> /\ Head(toAvr).type = "CMD"
    BY DEF LinkInv, Commanding, AvrRuns
<1>4. n \in Nat /\ LastRan <= n /\ n <= Len(jobs)
    <2>1. 1 \in DOMAIN toAvr /\ Head(toAvr) = toAvr[1]  BY <1>3 DEF Sound
    <2>2. Carries(Head(toAvr), LastRan, Len(jobs))  BY <1>3, <2>1 DEF Sound
    <2>3. QED  BY <2>2 DEF Carries
<1>5. Sound(toAvr', n, Len(jobs))  BY <1>2, <1>3, SoundTake DEF AvrRuns
<1> HIDE DEF n
<1>6. ran' = Append(ran, n)  BY DEF AvrRuns, n
<1>7. Len(ran') = Len(ran) + 1 /\ ran'[Len(ran) + 1] = n /\ ran' # <<>>
      /\ (\A i \in 1 .. Len(ran) : ran'[i] = ran[i]) /\ DOMAIN ran' = 1 .. Len(ran) + 1
    BY <1>2, <1>4, <1>6
<1>8. LastRan' = n  BY <1>2, <1>7 DEF LastRan
<1>9. \A i \in 1 .. Len(ran) : ran[i] <= LastRan
    <2>1. ASSUME NEW i \in 1 .. Len(ran)  PROVE ran[i] <= LastRan
        <3>1. ran # <<>> /\ LastRan = ran[Len(ran)] /\ Len(ran) \in DOMAIN ran
            BY <1>2, <2>1 DEF LastRan
        <3>2. CASE i < Len(ran)
            BY <1>2, <2>1, <3>1, <3>2 DEF LinkInv, Commanding, RanInOrder
        <3>3. CASE i = Len(ran)  BY <1>2, <3>1, <3>3
        <3>4. QED  BY <1>2, <2>1, <3>2, <3>3
    <2>2. QED  BY <2>1
<1>10. RanInOrder'
    <2>1. ASSUME NEW i \in DOMAIN ran', NEW k \in DOMAIN ran', i < k
          PROVE  ran'[i] <= ran'[k]
        <3>1. i \in 1 .. Len(ran) /\ ran'[i] = ran[i] /\ ran[i] \in Nat
            BY <1>2, <1>7, <2>1
        <3>2. CASE k = Len(ran) + 1
            BY <1>2, <1>4, <1>7, <1>9, <3>1, <3>2
        <3>3. CASE k \in 1 .. Len(ran)
            BY SMTT(20), <1>2, <1>7, <2>1, <3>1, <3>3 DEF LinkInv, Commanding, RanInOrder
        <3>4. QED  BY <1>2, <1>7, <2>1, <3>2, <3>3
    <2>2. QED  BY <2>1 DEF RanInOrder
<1>11. TypeOK' /\ Underway'
    BY DEF LinkInv, TypeOK, HostTypes, Underway, Place, AvrRuns, hostVars
<1>12. Commanding'
    BY <1>4, <1>5, <1>8, <1>10 DEF LinkInv, Commanding, hostVars
<1>13. QED  BY <1>11, <1>12 DEF LinkInv

-----------------------------------------------------------------------------

\* A fault of the line
LEMMA FaultKeeps ==
    ASSUME LinkInv, LineFault, UNCHANGED <<hostVars, avrVars, due>>
    PROVE  LinkInv'
<1>1. toAvr \in Seq(Packets) /\ toHost \in Seq(Packets) /\ faults \in 0 .. MaxFaults
    BY DEF LinkInv, TypeOK, LineTypes
<1>2. Thinned(toAvr, toAvr') /\ Thinned(toHost, toHost')
    BY <1>1, SameThins, DamageThins DEF LineFault
<1>3. faults' \in 0 .. MaxFaults  BY <1>1, LineAssumption DEF LineFault
<1>4. LineTypes'  BY <1>2, <1>3 DEF LineTypes, Thinned
<1>5. AvrTypes' /\ Place' /\ ran' = ran
    BY DEF LinkInv, TypeOK, AvrTypes, Underway, Place, avrVars
<1>6. AvrMoves  BY <1>2, <1>4, <1>5 DEF AvrMoves
<1>7. QED  BY <1>6, AvrMovesKeep DEF LinkInv, TypeOK

\* The steps of the host but the first of a job
LEMMA HostStepsMove ==
    ASSUME LinkInv, HostProgress \/ HostTimeout \/ HostStaleSignal
    PROVE  HostMoves
<1>1. TypeOK /\ (hpc # "shell" => jobs # <<>>)  BY DEF LinkInv, Underway
<1>2. CASE HostTransmit
    BY <1>1, <1>2, HostTransmitMoves DEF HostTransmit
<1>3. CASE HostAcked
    BY <1>1, <1>3, HostAckedMoves DEF HostAcked
<1>4. CASE HostNotAcked
    BY <1>1, <1>4, HostNotAckedMoves DEF HostNotAcked
<1>5. CASE HostReceive
    BY <1>1, <1>5, HostReceiveMoves DEF HostReceive
<1>6. CASE HostReject
    BY <1>1, <1>6, HostRejectMoves DEF HostReject
<1>7. CASE HostSendTimeout
    BY <1>1, <1>7, HostSendTimeoutMoves DEF HostSendTimeout
<1>8. CASE HostRecvTimeout
    BY <1>1, <1>8, HostRecvTimeoutMoves DEF HostRecvTimeout
<1>9. CASE HostStaleSignal
    BY <1>1, <1>9, HostStaleSignalMoves DEF HostStaleSignal
<1>10. QED
    BY <1>2, <1>3, <1>4, <1>5, <1>6, <1>7, <1>8, <1>9 DEF HostProgress, HostTimeout

\* The steps of the AVR
LEMMA AvrStepsMove ==
    ASSUME LinkInv, AvrProgress \/ AvrTimeout
    PROVE  AvrMoves \/ AvrRuns
<1>1. TypeOK /\ Place
    BY DEF LinkInv, TypeOK, AvrTypes, Underway, Place
<1>2. CASE AvrReceive
    <2>1. Sound(toAvr, LastRan, Len(jobs)) /\ LastRan \in Nat /\ Len(jobs) \in Nat
        BY DEF LinkInv, Commanding, TypeOK, AvrTypes, HostTypes, LastRan
    <2>2. QED  BY <1>1, <1>2, <2>1, AvrReceiveCommand, AvrReceiveOther
<1>3. CASE AvrIterate  BY <1>1, <1>3, AvrIterateMoves
<1>4. CASE AvrPoll  BY <1>1, <1>4, AvrPollMoves
<1>5. CASE AvrReject  BY <1>1, <1>5, AvrRejectMoves
<1>6. CASE AvrStaleMatch  BY <1>1, <1>6, AvrStaleMatchMoves
<1>7. CASE AvrTransmit  BY <1>1, <1>7, AvrTransmitMoves
<1>8. CASE AvrAcked  BY <1>1, <1>8, AvrAckedMoves
<1>9. CASE AvrNotAcked  BY <1>1, <1>9, AvrNotAckedMoves
<1>10. CASE AvrRecvTimeout  BY <1>1, <1>10, AvrRecvTimeoutMoves
<1>11. CASE AvrSendTimeout  BY <1>1, <1>11, AvrSendTimeoutMoves
<1>12. QED
    BY <1>2, <1>3, <1>4, <1>5, <1>6, <1>7, <1>8, <1>9, <1>10, <1>11
    DEF AvrProgress, AvrTimeout

\* LinkInv holds at first: nothing is on the line and no job was issued
LEMMA InvInit ==
    ASSUME Init
    PROVE  LinkInv
<1>1. 0 \in Ids  BY LineAssumption DEF Ids
<1>2. Packet("HND", 0, <<>>) \in Packets /\ Packet("ACK", 0, <<>>) \in Packets
    BY <1>1, PacketType, NoData
<1>3. LineTypes  BY LineAssumption DEF Init, LineInit, LineTypes
<1>4. HostTypes
    BY <1>1, <1>2, HostAssumption DEF Init, HostInit, HostTypes, DbLists
<1>5. AvrTypes
    <2>1. apc = "top" /\ aattempt = 0 /\ ran \in Seq(Nat)  BY DEF Init, AvrInit
    <2>2. aattempt \in 0 .. (IF apc \in {"recv", "recvwait"}
                               THEN AVR_RECV_ATTEMPTS ELSE AVR_SEND_ATTEMPTS) - 1
        BY <2>1, AvrAssumption
    <2>3. QED  BY <1>1, <1>2, <2>1, <2>2 DEF Init, AvrInit, AvrTypes
<1>6. TypeOK /\ Underway
    BY <1>3, <1>4, <1>5 DEF Init, HostInit, AvrInit, TypeOK, Underway
<1>7. hpkt.type # "CMD"  BY DEF Init, HostInit, Packet
<1>8. Commanding
    BY <1>7 DEF Init, LineInit, HostInit, AvrInit, Commanding, Sound, InOrder,
                LastRan, RanInOrder
<1>9. QED  BY <1>6, <1>8 DEF LinkInv

\* Every step keeps LinkInv
LEMMA InvNext ==
    ASSUME LinkInv, [Next]_vars
    PROVE  LinkInv'
<1>1. due \in {"none", "host", "avr"}  BY DEF LinkInv, TypeOK
<1>2. CASE HostStep
    <2>1. due' \in {"none", "host", "avr"} /\ UNCHANGED avrVars
        BY <1>1, <1>2 DEF HostStep
    <2>2. CASE \E cmd \in Commands \cup {"connect"} : Issue(cmd)
        BY <2>1, <2>2, IssueKeeps
    <2>3. CASE HostProgress
        BY <2>1, <2>3, HostStepsMove, HostMovesKeep
    <2>4. QED  BY <1>2, <2>2, <2>3 DEF HostStep
<1>3. CASE HostTimerFires
    <2>1. due' \in {"none", "host", "avr"} /\ UNCHANGED avrVars /\ HostTimeout
        BY <1>3 DEF HostTimerFires
    <2>2. QED  BY <2>1, HostStepsMove, HostMovesKeep
<1>4. CASE AvrStep
    <2>1. due' \in {"none", "host", "avr"} /\ UNCHANGED hostVars /\ AvrProgress
        BY <1>1, <1>4 DEF AvrStep
    <2>2. QED  BY <2>1, AvrStepsMove, AvrMovesKeep, AvrRunsKeep
<1>5. CASE AvrTimerFires
    <2>1. due' \in {"none", "host", "avr"} /\ UNCHANGED hostVars /\ AvrTimeout
        BY <1>5 DEF AvrTimerFires
    <2>2. QED  BY <2>1, AvrStepsMove, AvrMovesKeep, AvrRunsKeep
<1>6. CASE LineFault /\ UNCHANGED <<hostVars, avrVars, due>>
    BY <1>6, FaultKeeps
<1>7. CASE UNCHANGED vars
    BY <1>7 DEF vars, lineVars, hostVars, avrVars, download, LinkInv, TypeOK,
                LineTypes, HostTypes, AvrTypes, Underway, Commanding, LastRan, RanInOrder
<1>8. CASE HostSignalled
    <2>1. due' \in {"none", "host", "avr"} /\ UNCHANGED avrVars /\ HostStaleSignal
        BY <1>1, <1>8 DEF HostSignalled
    <2>2. QED  BY <2>1, HostStepsMove, HostMovesKeep
<1>9. QED  BY <1>2, <1>3, <1>4, <1>5, <1>6, <1>7, <1>8 DEF Next

\* LinkInv is an invariant of the link
LEMMA InvAlways == Spec => []LinkInv
BY InvInit, InvNext, PTL DEF Spec

\* The variables of both ends and of the line keep their types: the ids stay
\* in their range, no loop goes past its number of attempts, the databases of
\* a download are databases.
THEOREM LinkTypes == Spec => []TypeOK
<1>1. LinkInv => TypeOK  BY DEF LinkInv
<1>2. QED  BY <1>1, InvAlways, PTL

\* The AVR executes commands in the order the shell issued them (the handlers
\* of avr/communication.c and host/communication.c), whatever is lost,
\* damaged, flushed, sent again or given up, for any number of faults.
THEOREM CommandsInOrder == Spec => []RanInOrder
<1>1. LinkInv => RanInOrder  BY DEF LinkInv, Commanding
<1>2. QED  BY <1>1, InvAlways, PTL

-----------------------------------------------------------------------------

(***************************************************************************)
(* A line without faults.  The two ends then go through a job in phases,   *)
(* and in each of them one of the two has something to do, or no timer     *)
(* runs: that is why none ever fires.                                      *)
(*                                                                         *)
(* A stale match of the timer may end the first attempt of the AVR; with a *)
(* second one (there are 3 in the code) nothing comes of it.               *)
(***************************************************************************)
NoFault == MaxFaults = 0 /\ AVR_RECV_ATTEMPTS > 1

CurrentJob == jobs[Len(jobs)]
JobDone == jobs # <<>> => CurrentJob.result = "ok"
JobRuns == jobs # <<>> /\ CurrentJob.result = "running"
JobAwaitsReply == JobRuns /\ CurrentJob.cmd \in {"echo", "download"}

HasRun == LastRan = Len(jobs)
HasNotRun == LastRan < Len(jobs)

\* The id of the AVR once it has the acknowledgement it waits for, if any
AgreedId == IF apc = "await" THEN packet_next_id(agid) ELSE agid

\* The AVR has no command in use; "rest" is on the line, maybe after the
\* acknowledgement of the last packet of the previous command
Receptive(rest) ==
    /\ command_current = "none"
    /\ \/ apc \in {"top", "rx"} /\ toAvr = rest
       \/ apc = "recv" /\ toAvr = rest /\ rest # <<>>
       \/ /\ apc = "await" /\ toAvr # <<>>
          /\ Head(toAvr).type = "ACK" /\ Tail(toAvr) = rest

\* The packet of the job in progress
Requested ==
    /\ JobRuns /\ HasNotRun /\ dbList = <<>> /\ hpkt.id = hgid
    /\ \/ CurrentJob.cmd = "connect" /\ hpkt.type = "HND" /\ hgid = 0
       \/ /\ CurrentJob.cmd = hpkt.cmd /\ hpkt.type = "CMD"
          /\ hpkt.body = Argument(Len(jobs)) /\ AgreedId = hgid

\* What the host has of the current database is what the AVR sent of it
UpToDate(sent) ==
    /\ dbList # <<>> /\ command_current = "download" /\ temp_idx <= temp_count
    /\ dbList[Len(dbList)].size = temp_count
    /\ Len(dbList[Len(dbList)].items) + sent = temp_idx

\* The packet the AVR sends is the next one the job waits for
Expected ==
    \/ /\ CurrentJob.cmd = "echo" /\ apkt.type = "DAT"
       /\ apkt.body = Argument(Len(jobs)) /\ command_current = "none"
    \/ /\ CurrentJob.cmd = "download" /\ apkt.type = "CTR"
       /\ apkt.body = <<>> /\ command_current = "none"
    \/ /\ CurrentJob.cmd = "download" /\ apkt.type = "CTR"
       /\ apkt.body = <<<<temp_db_id, temp_count>>>> /\ temp_idx = 0
       /\ command_current = "download"
    \/ /\ CurrentJob.cmd = "download" /\ apkt.type = "DAT"
       /\ apkt.body # <<>> /\ UpToDate(Len(apkt.body))

\* It is about to be sent, or "rest" of the line
Replied(rest) ==
    /\ apkt.id = agid /\ Expected /\ toAvr = <<>>
    /\ \/ apc = "send" /\ rest = <<>>
       \/ apc = "await" /\ rest = <<apkt>>

Resting ==
    /\ hpc = "shell" /\ toHost = <<>> /\ Receptive(<<>>)
    /\ JobDone /\ dbList = <<>> /\ (jobs # <<>> => AgreedId = hgid)

Requesting == hpc = "send" /\ toHost = <<>> /\ Receptive(<<>>) /\ Requested

Awaiting == hpc = "await" /\ toHost = <<>> /\ Receptive(<<hpkt>>) /\ Requested

Acknowledged ==
    /\ hpc = "await" /\ toHost # <<>> /\ dbList = <<>> /\ JobRuns
    /\ Head(toHost).type = "ACK" /\ Head(toHost).id = hgid
    /\ agid = packet_next_id(hgid)
    /\ \/ /\ CurrentJob.cmd \in NoResponse /\ Tail(toHost) = <<>>
          /\ CurrentJob.cmd = "set" => HasRun
          /\ apc \in {"top", "rx"} /\ command_current = "none" /\ toAvr = <<>>
       \/ JobAwaitsReply /\ HasRun /\ Replied(Tail(toHost))

Receiving ==
    hpc = "recv" /\ JobAwaitsReply /\ HasRun /\ agid = hgid /\ Replied(toHost)

Downloading ==
    /\ hpc = "recv" /\ toHost = <<>> /\ JobRuns /\ CurrentJob.cmd = "download"
    /\ HasRun /\ UpToDate(0) /\ AgreedId = hgid
    /\ \/ /\ apc = "await" /\ toAvr # <<>> /\ Tail(toAvr) = <<>>
          /\ Head(toAvr).type = "ACK"
       \/ apc \in {"top", "rx"} /\ toAvr = <<>> /\ command_notified

Phases ==
    \/ Resting \/ Requesting \/ Awaiting
    \/ Acknowledged \/ Receiving \/ Downloading

\* A step of Exchange, or none
ExchangeStep == Reliable!Next \/ UNCHANGED <<jobs, ran>>

\* What LinkInv says of the types and of the commands executed
LEMMA LinkFacts ==
    ASSUME LinkInv
    PROVE  /\ toAvr \in Seq(Packets) /\ toHost \in Seq(Packets) /\ hpkt \in Packets
           /\ hgid \in Ids /\ agid \in Ids /\ back \in {"top", "rx"}
           /\ Len(jobs) \in Nat /\ LastRan \in Nat /\ LastRan <= Len(jobs)
           /\ ran \in Seq(Nat)
BY DEF LinkInv, TypeOK, LineTypes, HostTypes, AvrTypes, Commanding, LastRan

\* The host has something to do, or the AVR, or no timer runs
LEMMA NoTimerFires ==
    ASSUME LinkInv, Phases
    PROVE  ~HostTimerFires /\ ~AvrTimerFires
<1>1. CASE hpc = "shell"
    <2>1. Resting  BY <1>1 DEF Phases, Requesting, Awaiting, Acknowledged, Receiving, Downloading
    <2>2. ~HostTimeout
        BY <1>1 DEF HostTimeout, HostSendTimeout, HostRecvTimeout
    <2>3. CASE apc \in {"top", "rx"}
        BY <2>2, <2>3 DEF HostTimerFires, AvrTimerFires, AvrTimeout, AvrRecvTimeout, AvrSendTimeout
    <2>4. CASE apc = "await" /\ toAvr # <<>>
        BY <2>4 DEF HostTimerFires, AvrTimerFires, Quiet, AvrBusy
    <2>5. QED  BY <2>1, <2>3, <2>4 DEF Resting, Receptive
<1>2. CASE hpc # "shell"
    <2>1. HostBusy \/ AvrBusy
        <3>1. CASE Requesting  BY <3>1 DEF Requesting, HostBusy
        <3>2. CASE Awaiting
            <4>1. <<hpkt>> # <<>>  OBVIOUS
            <4>2. QED  BY <3>2, <4>1 DEF Awaiting, Receptive, AvrBusy
        <3>3. CASE Acknowledged  BY <3>3 DEF Acknowledged, HostBusy
        <3>4. CASE Receiving
            <4>1. <<apkt>> # <<>>  OBVIOUS
            <4>2. QED
                BY <3>4, <4>1 DEF Receiving, Replied, HostBusy, AvrBusy
        <3>5. CASE Downloading  BY <3>5 DEF Downloading, AvrBusy
        <3>6. QED
            BY <1>2, <3>1, <3>2, <3>3, <3>4, <3>5 DEF Phases, Resting
    <2>2. QED  BY <2>1 DEF HostTimerFires, AvrTimerFires, Quiet
<1>3. QED  BY <1>1, <1>2

\* The shell issues the next command
LEMMA RestingHost ==
    ASSUME LinkInv, Resting, UNCHANGED avrVars,
           (\E cmd \in Commands \cup {"connect"} : Issue(cmd)) \/ HostProgress
    PROVE  Requesting' /\ ExchangeStep
<1>1. ~HostProgress
    BY DEF Resting, HostProgress, HostTransmit, HostAcked, HostNotAcked, HostReceive, HostReject
<1>2. PICK cmd \in Commands \cup {"connect"} : Issue(cmd)  BY <1>1
<1>3. DEFINE new == [cmd |-> cmd, result |-> "running"]
<1>4. jobs' = Append(jobs, new) /\ new.cmd = cmd /\ new.result = "running"
    BY <1>2 DEF Issue
<1> HIDE DEF new
<1>5. Len(jobs') = Len(jobs) + 1 /\ jobs' # <<>> /\ jobs'[Len(jobs')] = new
    BY <1>4 DEF LinkInv, TypeOK, HostTypes
<1>6. CurrentJob'.cmd = cmd /\ CurrentJob'.result = "running"
    BY <1>4, <1>5 DEF CurrentJob
<1>7. toHost' = <<>> /\ Receptive(<<>>)' /\ dbList' = <<>> /\ hpc' = "send"
    BY <1>2 DEF Resting, Receptive, Flushed, Issue, avrVars
<1>8. HasNotRun'
    BY <1>5, LinkFacts DEF HasNotRun, LastRan, avrVars
<1>9. \/ cmd = "connect" /\ hpkt'.type = "HND" /\ hpkt'.id = 0 /\ hgid' = 0
      \/ /\ cmd = hpkt'.cmd /\ hpkt'.type = "CMD" /\ hpkt'.id = hgid'
         /\ hpkt'.body = Argument(Len(jobs')) /\ AgreedId' = hgid'
    <2>1. CASE cmd = "connect"  BY <1>2, <2>1 DEF Issue, Packet
    <2>2. CASE cmd # "connect"
        BY <1>2, <1>5, <2>2
        DEF Issue, CmdPacket, job, Resting, AgreedId, avrVars
    <2>3. QED  BY <2>1, <2>2
<1>10. Requesting'
    BY <1>5, <1>6, <1>7, <1>8, <1>9 DEF Requesting, Requested, JobRuns
<1>11. Reliable!Issue(cmd)
    BY <1>4, <1>5 DEF Reliable!Issue, Reliable!Running, Reliable!last, new, Resting,
                JobDone, CurrentJob, avrVars
<1>12. QED  BY <1>10, <1>11 DEF ExchangeStep, Reliable!Next, Commands

\* While the AVR has nothing to do but what is on the line, a step brings it
\* nearer to that
LEMMA ReceptiveAvr ==
    ASSUME LinkInv, NoFault, NEW rest, Receptive(rest), AvrProgress,
           rest # <<>> => Good(Head(rest))
    PROVE  \/ /\ Receptive(rest)' /\ AgreedId' = AgreedId
              /\ UNCHANGED <<toHost, ran>>
           \/ AvrReceive /\ apc = "recv" /\ toAvr = rest
<1>1. CASE apc \in {"top", "rx"} /\ toAvr = rest
    <2>1. AvrIterate \/ AvrPoll
        BY <1>1 DEF AvrProgress, AvrReceive, AvrReject, AvrStaleMatch, AvrTransmit,
                    AvrAcked, AvrNotAcked
    <2>2. CASE AvrIterate
        BY <1>1, <2>2 DEF AvrIterate, Receptive, AgreedId, lineVars
    <2>3. CASE AvrPoll
        BY <1>1, <2>3 DEF AvrPoll, Receptive, AgreedId, lineVars
    <2>4. QED  BY <2>1, <2>2, <2>3
<1>2. CASE apc = "recv" /\ toAvr = rest /\ rest # <<>>
    <2>1. AvrReceive \/ AvrStaleMatch
        BY <1>2 DEF AvrProgress, AvrIterate, AvrPoll, AvrReject, AvrTransmit,
                    AvrAcked, AvrNotAcked
    <2>2. CASE AvrStaleMatch
        <3>1. 0 + 1 < AVR_RECV_ATTEMPTS  BY AvrAssumption DEF NoFault
        <3>2. apc' = "recv" /\ agid' = agid
            BY <2>2, <3>1 DEF AvrStaleMatch, AvrNextAttempt
        <3>3. QED
            BY <1>2, <2>2, <3>2 DEF AvrStaleMatch, AvrUndelivered, Receptive, AgreedId, lineVars
    <2>3. QED  BY <1>2, <2>1, <2>2
<1>3. CASE /\ apc = "await" /\ toAvr # <<>>
           /\ Head(toAvr).type = "ACK" /\ Tail(toAvr) = rest
    <2>1. AvrAcked
        BY <1>3 DEF AvrProgress, AvrIterate, AvrPoll, AvrReceive, AvrReject,
                    AvrStaleMatch, AvrTransmit, AvrNotAcked
    <2>2. back \in {"top", "rx"}  BY LinkFacts
    <2>3. QED  BY <1>3, <2>1, <2>2 DEF AvrAcked, Receptive, AgreedId
<1>4. QED  BY <1>1, <1>2, <1>3 DEF Receptive

\* The AVR at rest
LEMMA RestingAvr ==
    ASSUME LinkInv, NoFault, Resting, AvrProgress, UNCHANGED hostVars
    PROVE  Resting' /\ ExchangeStep
<1>1. Receptive(<<>>)  BY DEF Resting
<1>2. ~(AvrReceive /\ toAvr = <<>>)  BY DEF AvrReceive
<1>3. Receptive(<<>>)' /\ AgreedId' = AgreedId /\ UNCHANGED <<toHost, ran>>
    BY <1>1, <1>2, ReceptiveAvr
<1>4. QED
    BY <1>3 DEF Resting, JobDone, CurrentJob, ExchangeStep, hostVars

\* The AVR while the host is about to send
LEMMA RequestingAvr ==
    ASSUME LinkInv, NoFault, Requesting, AvrProgress, UNCHANGED hostVars
    PROVE  Requesting' /\ ExchangeStep
<1>1. Receptive(<<>>)  BY DEF Requesting
<1>2. ~(AvrReceive /\ toAvr = <<>>)  BY DEF AvrReceive
<1>3. Receptive(<<>>)' /\ AgreedId' = AgreedId /\ UNCHANGED <<toHost, ran>>
    BY <1>1, <1>2, ReceptiveAvr
<1>4. QED
    BY <1>3 DEF Requesting, Requested, JobRuns, CurrentJob, HasNotRun, LastRan,
                ExchangeStep, hostVars

\* The host sends
LEMMA RequestingHost ==
    ASSUME LinkInv, Requesting, HostProgress, UNCHANGED avrVars
    PROVE  Awaiting' /\ ExchangeStep
<1>1. HostTransmit
    BY DEF Requesting, HostProgress, HostAcked, HostNotAcked, HostReceive, HostReject
<1>2. toAvr \in Seq(Packets) /\ hpkt \in Packets  BY LinkFacts
<1>3. toAvr' = Append(toAvr, hpkt) /\ hpc' = "await"
      /\ UNCHANGED <<toHost, hgid, hpkt, jobs, dbList>>
    BY <1>1 DEF HostTransmit
<1>4. Receptive(<<hpkt>>)'
    <2>1. CASE toAvr = <<>> /\ apc \in {"top", "rx"}
        <3>1. toAvr' = <<hpkt>>  BY <1>3, <2>1
        <3>2. QED  BY <1>3, <2>1, <3>1 DEF Requesting, Receptive, avrVars
    <2>2. CASE /\ apc = "await" /\ toAvr # <<>>
               /\ Head(toAvr).type = "ACK" /\ Tail(toAvr) = <<>>
        <3>1. toAvr' # <<>> /\ Head(toAvr') = Head(toAvr) /\ Tail(toAvr') = <<hpkt>>
            <4>1. Head(toAvr') = Head(toAvr) /\ Tail(toAvr') = Append(<<>>, hpkt)
                BY <1>2, <1>3, <2>2, HeadTailAppend
            <4>2. Append(<<>>, hpkt) = <<hpkt>>  OBVIOUS
            <4>3. toAvr' # <<>>  BY <1>2, <1>3
            <4>4. QED  BY <4>1, <4>2, <4>3
        <3>2. QED  BY <1>3, <2>2, <3>1 DEF Requesting, Receptive, avrVars
    <2>3. QED  BY <2>1, <2>2 DEF Requesting, Receptive
<1>5. Requested'
    BY <1>3 DEF Requesting, Requested, JobRuns, CurrentJob, HasNotRun, LastRan,
                AgreedId, avrVars
<1>6. QED
    BY <1>3, <1>4, <1>5 DEF Awaiting, Requesting, ExchangeStep, avrVars

\* The AVR gets the packet of the job: it acknowledges it and executes the
\* command, if it is one, for the first time
LEMMA AwaitingReceive ==
    ASSUME LinkInv, Awaiting, AvrReceive, apc = "recv", toAvr = <<hpkt>>,
           UNCHANGED hostVars
    PROVE  Acknowledged' /\ ExchangeStep
<1>1. DEFINE id  == IdAfter(hpkt)
             ack == packet_ack(hpkt)
<1>2. Head(toAvr) = hpkt /\ Tail(toAvr) = <<>>  OBVIOUS
<1>3. Requested /\ JobRuns /\ hpkt.id = hgid /\ jobs # <<>>  BY DEF Awaiting, Requested, JobRuns
<1>4. toHost' = Append(toHost, ack) /\ toAvr' = <<>> /\ agid' = id
      /\ UNCHANGED <<faults, command_notified>>
    BY <1>2 DEF AvrReceive
<1>5. ack.type = "ACK" /\ ack.id = hgid  BY <1>3 DEF packet_ack, Packet
<1>6. toHost' # <<>> /\ Head(toHost') = ack /\ Tail(toHost') = <<>>
    <2>1. toHost' = <<ack>>
        <3> HIDE DEF ack
        <3>1. QED  BY <1>4 DEF Awaiting
    <2> HIDE DEF ack
    <2>2. QED  BY <2>1
<1>7. id = packet_next_id(hgid)
    <2>1. CASE hpkt.type = "HND" /\ hgid = 0
        BY <2>1, LineAssumption DEF IdAfter, packet_next_id
    <2>2. CASE hpkt.type = "CMD" /\ AgreedId = hgid
        BY <2>2 DEF IdAfter, AgreedId
    <2>3. QED  BY <1>3, <2>1, <2>2 DEF Requested
<1>8. id \in Ids  BY <1>7, LinkFacts, NextIdType
<1>9. hpc' = "await" /\ dbList' = <<>> /\ JobRuns' /\ CurrentJob' = CurrentJob
      /\ Len(jobs') = Len(jobs) /\ hgid' = hgid
    BY <1>3 DEF Awaiting, Requested, JobRuns, CurrentJob, hostVars
<1> HIDE DEF ack
<1>10. /\ hpc' = "await" /\ toHost' # <<>> /\ dbList' = <<>> /\ JobRuns'
       /\ Head(toHost').type = "ACK" /\ Head(toHost').id = hgid'
       /\ agid' = packet_next_id(hgid')
    BY <1>4, <1>5, <1>6, <1>7, <1>9
<1> HIDE DEF id
<1>11. CASE CurrentJob.cmd = "connect" /\ hpkt.type = "HND"
    <2>1. apc' = "top" /\ UNCHANGED <<command_current, ran>>
        BY <1>2, <1>11 DEF AvrReceive
    <2>2. command_current' = "none"  BY <2>1 DEF Awaiting, Receptive
    <2>3. Acknowledged'
        BY <1>4, <1>6, <1>9, <1>10, <1>11, <2>1, <2>2 DEF Acknowledged, NoResponse
    <2>4. QED  BY <2>1, <2>3 DEF ExchangeStep, hostVars
<1>12. CASE CurrentJob.cmd = hpkt.cmd /\ hpkt.type = "CMD" /\ hpkt.body = Argument(Len(jobs))
    <2>1. Carries(hpkt, Len(jobs), Len(jobs))  BY <1>12 DEF LinkInv, Commanding
    <2>2. hpkt.cmd \in {"set", "echo", "download"} /\ hpkt.body \in Data
          /\ hpkt.body[1][2] = Len(jobs)
        BY <2>1, LinkFacts, PacketId DEF Carries, Commands, JobOf
    <2>3. OpCmd(id, hpkt)  BY <1>2, <1>12 DEF AvrReceive, id
    <2>4. ran' = Append(ran, Len(jobs)) /\ ran \in Seq(Nat) /\ Len(jobs) \in Nat
        BY <2>2, <2>3, LinkFacts DEF OpCmd
    <2>5. HasRun'
        <3>1. ran' # <<>> /\ ran'[Len(ran')] = Len(jobs)  BY <2>4
        <3>2. QED  BY <1>9, <3>1 DEF HasRun, LastRan
    <2>6. Reliable!Execute
        <3>1. \A i \in DOMAIN ran : ran[i] # Len(jobs)
            <4>1. ASSUME NEW i \in DOMAIN ran, ran[i] = Len(jobs)  PROVE FALSE
                <5>1. i \in 1 .. Len(ran) /\ ran # <<>> /\ LastRan = ran[Len(ran)]
                    BY <2>4, <4>1 DEF LastRan
                <5>2. RanInOrder /\ LastRan < Len(jobs)
                    BY DEF LinkInv, Commanding, Awaiting, Requested, HasNotRun
                <5>3. ran[i] <= LastRan
                    <6>1. CASE i = Len(ran)  BY <2>4, <5>1, <6>1
                    <6>2. CASE i < Len(ran)
                        BY <2>4, <5>1, <5>2, <6>2 DEF RanInOrder
                    <6>3. QED  BY <2>4, <5>1, <6>1, <6>2
                <5>4. QED  BY <2>4, <4>1, <5>2, <5>3, LinkFacts
            <4>2. QED  BY <4>1
        <3>2. CurrentJob.cmd # "connect"  BY <1>12, <2>2
        <3>3. QED
            BY <1>3, <2>4, <3>1, <3>2
            DEF Reliable!Execute, Reliable!Running, Reliable!Executed, Reliable!last,
                JobRuns, CurrentJob, hostVars
    <2>7. command_current = "none"  BY DEF Awaiting, Receptive
    <2>8. CASE hpkt.cmd = "set"
        <3>1. apc' = "top" /\ command_current' = "none"
            BY <2>3, <2>7, <2>8 DEF OpCmd
        <3>2. Acknowledged'
            BY <1>4, <1>6, <1>9, <1>10, <1>12, <2>5, <2>8, <3>1 DEF Acknowledged, NoResponse
        <3>3. QED  BY <2>6, <3>2 DEF ExchangeStep, Reliable!Next
    <2>9. CASE hpkt.cmd \in {"echo", "download"}
        <3>1. apc' = "send" /\ apkt'.id = id /\ Expected'
            <4>1. CASE hpkt.cmd = "echo"
                <5>1. Send(id, "DAT", hpkt.body, "top") /\ command_current' = "none"
                    BY <2>3, <2>7, <4>1 DEF OpCmd
                <5>2. apc' = "send" /\ apkt'.id = id /\ apkt'.type = "DAT"
                      /\ apkt'.body = hpkt.body
                    BY <5>1 DEF Send, Packet
                <5>3. QED  BY <1>9, <1>12, <4>1, <5>1, <5>2 DEF Expected
            <4>2. CASE hpkt.cmd = "download" /\ NonEmptyFrom(0) = {}
                <5>1. Send(id, "CTR", <<>>, "top") /\ command_current' = "none"
                    BY <2>3, <2>7, <4>2 DEF OpCmd, ChangeDb
                <5>2. apc' = "send" /\ apkt'.id = id /\ apkt'.type = "CTR"
                      /\ apkt'.body = <<>>
                    BY <5>1 DEF Send, Packet
                <5>3. QED  BY <1>9, <1>12, <4>2, <5>1, <5>2 DEF Expected
            <4>3. CASE hpkt.cmd = "download" /\ NonEmptyFrom(0) # {}
                <5>1. /\ temp_db_id' = NextDb(0) /\ temp_idx' = 0
                      /\ temp_count' = DbSizes[NextDb(0) + 1]
                      /\ Send(id, "CTR", <<<<NextDb(0), DbSizes[NextDb(0) + 1]>>>>, "top")
                      /\ command_current' = "download"
                    BY <2>3, <4>3 DEF OpCmd, ChangeDb
                <5>2. apc' = "send" /\ apkt'.id = id /\ apkt'.type = "CTR"
                      /\ apkt'.body = <<<<temp_db_id', temp_count'>>>>
                    BY <5>1 DEF Send, Packet
                <5>3. QED  BY <1>9, <1>12, <4>3, <5>1, <5>2 DEF Expected
            <4>4. QED  BY <2>9, <4>1, <4>2, <4>3
        <3>2. Replied(<<>>)'  BY <1>4, <3>1 DEF Replied
        <3>3. Replied(Tail(toHost))'  BY <1>6, <3>2 DEF Replied
        <3>4. JobAwaitsReply'  BY <1>9, <1>12, <2>9 DEF JobAwaitsReply
        <3>5. Acknowledged'  BY <1>10, <2>5, <3>3, <3>4 DEF Acknowledged
        <3>6. QED  BY <2>6, <3>5 DEF ExchangeStep, Reliable!Next
    <2>10. QED  BY <2>2, <2>8, <2>9
<1>13. QED  BY <1>3, <1>11, <1>12 DEF Requested

\* The AVR while the packet of the job is on the line
LEMMA AwaitingAvr ==
    ASSUME LinkInv, NoFault, Awaiting, AvrProgress, UNCHANGED hostVars
    PROVE  (Awaiting' \/ Acknowledged') /\ ExchangeStep
<1>1. PICK rest : rest = <<hpkt>>  OBVIOUS
<1>2. rest # <<>> /\ Head(rest) = hpkt  BY <1>1
<1>3. Good(hpkt)  BY DEF Awaiting, Requested, Good
<1>4. Receptive(rest)  BY <1>1 DEF Awaiting
<1>5. CASE AvrReceive /\ apc = "recv" /\ toAvr = rest
    BY <1>1, <1>5, AwaitingReceive
<1>6. CASE Receptive(rest)' /\ AgreedId' = AgreedId /\ UNCHANGED <<toHost, ran>>
    <2>1. rest = <<hpkt'>>  BY <1>1 DEF hostVars
    <2>2. Receptive(<<hpkt>>)'  BY <1>6, <2>1 DEF Receptive
    <2>3. Awaiting'
        BY <1>6, <2>2 DEF Awaiting, Requested, JobRuns, CurrentJob, HasNotRun, LastRan,
                hostVars
    <2>4. QED  BY <1>6, <2>3 DEF ExchangeStep, hostVars
<1>7. QED  BY <1>2, <1>3, <1>4, <1>5, <1>6, ReceptiveAvr

\* The AVR transmits what it has to send
LEMMA RepliedAvr ==
    ASSUME LinkInv, NEW rest, Replied(rest), AvrProgress
    PROVE  /\ AvrTransmit /\ rest = <<>> /\ apc' = "await"
           /\ toHost' = Append(toHost, apkt) /\ apkt'.id = agid' /\ toAvr' = <<>>
           /\ UNCHANGED <<toAvr, agid, AvrUndelivered>>
<1>1. AvrTransmit
    BY DEF Replied, AvrProgress, AvrIterate, AvrPoll, AvrReceive, AvrReject,
           AvrStaleMatch, AvrAcked, AvrNotAcked
<1>2. QED  BY <1>1 DEF Replied, AvrTransmit, AvrUndelivered

\* What is expected depends on nothing that a transmission changes
LEMMA ExpectedFrame ==
    ASSUME Expected, UNCHANGED <<jobs, dbList, AvrUndelivered>>
    PROVE  Expected'
BY DEF Expected, UpToDate, CurrentJob, AvrUndelivered, download

\* The AVR once it acknowledged the packet of the job
LEMMA AcknowledgedAvr ==
    ASSUME LinkInv, Acknowledged, AvrProgress, UNCHANGED hostVars
    PROVE  Acknowledged' /\ ExchangeStep
<1>1. CASE /\ CurrentJob.cmd \in NoResponse /\ Tail(toHost) = <<>>
           /\ CurrentJob.cmd = "set" => HasRun
           /\ apc \in {"top", "rx"} /\ command_current = "none" /\ toAvr = <<>>
    <2>1. AvrIterate \/ AvrPoll
        BY <1>1 DEF AvrProgress, AvrReceive, AvrReject, AvrStaleMatch, AvrTransmit,
                    AvrAcked, AvrNotAcked
    <2>2. /\ apc' \in {"top", "rx"} /\ command_current' = "none"
          /\ UNCHANGED <<toAvr, toHost, agid, ran>>
        BY <1>1, <2>1 DEF AvrIterate, AvrPoll, lineVars
    <2>3. QED
        BY <1>1, <2>2 DEF Acknowledged, JobRuns, CurrentJob, HasRun, LastRan,
                          ExchangeStep, hostVars
<1>2. CASE JobAwaitsReply /\ HasRun /\ Replied(Tail(toHost))
    <2>1. PICK rest : rest = Tail(toHost)  OBVIOUS
    <2>2. /\ rest = <<>> /\ apc' = "await"
          /\ toHost' = Append(toHost, apkt) /\ apkt'.id = agid' /\ toAvr' = <<>>
          /\ UNCHANGED <<toAvr, agid, AvrUndelivered>>
        BY <1>2, <2>1, RepliedAvr
    <2>3. toHost \in Seq(Packets) /\ toHost # <<>>  BY LinkFacts DEF Acknowledged
    <2>4. Head(toHost') = Head(toHost) /\ Tail(toHost') = <<apkt>> /\ toHost' # <<>>
        <3>1. Head(toHost') = Head(toHost) /\ Tail(toHost') = Append(<<>>, apkt)
            BY ZenonT(30), <2>1, <2>2, <2>3, HeadTailAppend
        <3>2. Append(<<>>, apkt) = <<apkt>>  OBVIOUS
        <3>3. toHost' # <<>>  BY <2>2, <2>3
        <3>4. QED  BY <3>1, <3>2, <3>3
    <2>5. apkt' = apkt /\ ran' = ran  BY <2>2 DEF AvrUndelivered
    <2>6. Expected'  BY <1>2, <2>2, ExpectedFrame DEF Replied, hostVars
    <2>7. Replied(Tail(toHost))'  BY <2>2, <2>4, <2>5, <2>6 DEF Replied
    <2>8. JobAwaitsReply' /\ JobRuns' /\ HasRun'
        BY <1>2, <2>5 DEF JobAwaitsReply, JobRuns, CurrentJob, HasRun, LastRan, hostVars
    <2>9. Acknowledged'
        BY <2>2, <2>4, <2>7, <2>8 DEF Acknowledged, hostVars
    <2>10. QED  BY <2>5, <2>9 DEF ExchangeStep, hostVars
<1>3. QED  BY <1>1, <1>2 DEF Acknowledged

\* A job that succeeds is a step of Exchange
LEMMA SucceedStep ==
    ASSUME LinkInv, JobRuns, CurrentJob.cmd = "connect" \/ HasRun,
           SetResult("ok"), ran' = ran
    PROVE  JobDone' /\ Reliable!Succeed
<1>1. DEFINE Job  == [cmd : Commands \cup {"connect"},
                      result : {"running", "ok", "wrong", "failed"}]
             done == [jobs[Len(jobs)] EXCEPT !.result = "ok"]
<1>2. jobs \in Seq(Job) /\ Len(jobs) \in 1 .. Len(jobs)
    BY DEF LinkInv, TypeOK, HostTypes, JobRuns
<1>3. done.result = "ok" /\ done \in Job
    <2>1. jobs[Len(jobs)] \in Job
        <3> HIDE DEF Job
        <3>1. QED  BY <1>2
    <2>2. QED  BY <2>1
<1>4. jobs' = [jobs EXCEPT ![Len(jobs)] = done]  BY DEF SetResult, job
<1>5. jobs'[Len(jobs')] = done
    <2> HIDE DEF Job, done
    <2>1. QED  BY <1>2, <1>4
<1>6. JobDone'  BY <1>3, <1>5 DEF JobDone, CurrentJob
<1>7. HasRun => \E i \in DOMAIN ran : ran[i] = Len(jobs)
    <2>1. ran \in Seq(Nat)  BY LinkFacts
    <2>2. HasRun => ran # <<>>  BY <1>2 DEF HasRun, LastRan
    <2>3. QED  BY <2>1, <2>2 DEF HasRun, LastRan
<1>8. Reliable!Succeed
    BY <1>7 DEF Reliable!Succeed, Reliable!Running, Reliable!Executed, Reliable!last,
                SetResult, job, JobRuns, CurrentJob
<1>9. QED  BY <1>6, <1>8

\* The host gets the acknowledgement
LEMMA AcknowledgedHost ==
    ASSUME LinkInv, Acknowledged, HostProgress, UNCHANGED avrVars
    PROVE  (Resting' \/ Receiving') /\ ExchangeStep
<1>1. HostAcked
    <2>1. Accepted(Head(toHost))  BY DEF Acknowledged, Accepted, Good
    <2>2. QED
        BY <2>1 DEF Acknowledged, HostProgress, HostTransmit, HostNotAcked,
                    HostReceive, HostReject
<1>2. toHost' = Tail(toHost) /\ hgid' = packet_next_id(hgid) /\ UNCHANGED toAvr
    BY <1>1 DEF HostAcked
<1>3. agid' = hgid' /\ apc' = apc /\ ran' = ran /\ command_current' = command_current
    BY <1>2 DEF Acknowledged, avrVars
<1>4. CASE CurrentJob.cmd \in NoResponse
    <2>1. ShellReturn("ok")  BY <1>1, <1>4 DEF HostAcked, CurrentJob, job
    <2>2. /\ Tail(toHost) = <<>> /\ (CurrentJob.cmd = "set" => HasRun)
          /\ apc \in {"top", "rx"} /\ command_current = "none" /\ toAvr = <<>>
        BY <1>4 DEF Acknowledged, JobAwaitsReply, NoResponse
    <2>3. JobDone' /\ Reliable!Succeed
        BY <1>3, <1>4, <2>1, <2>2, SucceedStep
        DEF Acknowledged, NoResponse, ShellReturn
    <2>4. Receptive(<<>>)' /\ AgreedId' = hgid'
        BY <1>2, <1>3, <2>2 DEF Receptive, AgreedId
    <2>5. Resting'
        BY <1>2, <2>1, <2>2, <2>3, <2>4 DEF Resting, ShellReturn
    <2>6. QED  BY <2>3, <2>5 DEF ExchangeStep, Reliable!Next
<1>5. CASE JobAwaitsReply /\ HasRun /\ Replied(Tail(toHost))
    <2>1. CurrentJob.cmd \notin NoResponse
        BY <1>5 DEF JobAwaitsReply, NoResponse
    <2>2. hpc' = "recv" /\ UNCHANGED <<jobs, dbList>>
        BY <1>1, <2>1 DEF HostAcked, CurrentJob, job
    <2>3. PICK rest : rest = Tail(toHost)  OBVIOUS
    <2>4. Expected'
        BY <1>5, <2>2 DEF Replied, Expected, UpToDate, CurrentJob, avrVars, download
    <2>5. Replied(rest)'
        BY <1>2, <1>5, <2>3, <2>4 DEF Replied, avrVars
    <2>6. Replied(toHost)'  BY <1>2, <2>3, <2>5 DEF Replied
    <2>7. JobAwaitsReply' /\ HasRun'
        BY <1>5, <2>2 DEF JobAwaitsReply, JobRuns, CurrentJob, HasRun, LastRan, avrVars
    <2>8. Receiving'  BY <1>3, <2>2, <2>6, <2>7 DEF Receiving
    <2>9. QED  BY <1>3, <2>2, <2>8 DEF ExchangeStep
<1>6. QED  BY <1>4, <1>5 DEF Acknowledged

\* The AVR sends what the host waits for
LEMMA ReceivingAvr ==
    ASSUME LinkInv, Receiving, AvrProgress, UNCHANGED hostVars
    PROVE  Receiving' /\ ExchangeStep
<1>1. PICK rest : rest = toHost  OBVIOUS
<1>2. /\ toHost = <<>> /\ apc' = "await"
      /\ toHost' = Append(toHost, apkt) /\ apkt'.id = agid' /\ toAvr' = <<>>
      /\ UNCHANGED <<toAvr, agid, AvrUndelivered>>
    BY <1>1, RepliedAvr DEF Receiving
<1>3. toHost' = <<apkt>>  BY <1>2
<1>4. apkt' = apkt /\ ran' = ran  BY <1>2 DEF AvrUndelivered
<1>5. Expected'  BY <1>2, ExpectedFrame DEF Receiving, Replied, hostVars
<1>6. Replied(toHost)'  BY <1>2, <1>3, <1>4, <1>5 DEF Replied
<1>7. JobAwaitsReply' /\ HasRun'
    BY <1>4 DEF Receiving, JobAwaitsReply, JobRuns, CurrentJob, HasRun, LastRan, hostVars
<1>8. QED
    BY <1>2, <1>4, <1>6, <1>7 DEF Receiving, ExchangeStep, hostVars

\* The host gets it: the job ends or the download goes on
LEMMA ReceivingHost ==
    ASSUME LinkInv, Receiving, HostProgress, UNCHANGED avrVars
    PROVE  (Resting' \/ Downloading') /\ ExchangeStep
<1>1. /\ toHost = <<apkt>> /\ apc = "await" /\ apkt.id = hgid /\ Expected
      /\ HostReceive \/ HostReject
    BY DEF Receiving, Replied, HostProgress, HostTransmit, HostAcked, HostNotAcked,
           HostReceive, HostReject
<1>2. Head(toHost) = apkt /\ Tail(toHost) = <<>>  BY <1>1
<1>3. Accepted(apkt)  BY <1>1 DEF Accepted, Good, Expected
<1>4. HostReceive  BY <1>1, <1>2, <1>3 DEF HostReject
<1>5. DEFINE ack == packet_ack(apkt)
<1>6. ack.type = "ACK"  BY DEF packet_ack, Packet
<1> HIDE DEF ack
<1>7. toHost' = <<>> /\ toAvr' = Append(toAvr, ack) /\ hgid' = packet_next_id(hgid)
    BY <1>2, <1>4 DEF HostReceive, ack
<1>8. toAvr' = <<ack>>  BY <1>7 DEF Receiving, Replied
<1>9. toAvr' # <<>> /\ Head(toAvr') = ack /\ Tail(toAvr') = <<>>
    BY <1>8
<1>10. AgreedId' = hgid' /\ apc' = "await" /\ ran' = ran
       /\ command_current' = command_current
    BY <1>1, <1>7 DEF AgreedId, Receiving, avrVars
<1>11. JobRuns /\ HasRun /\ CurrentJob.cmd \in {"echo", "download"}
    BY DEF Receiving, JobAwaitsReply
<1>12. ASSUME ShellReturn("ok"), command_current = "none"
       PROVE  Resting' /\ ExchangeStep
    <2>1. JobDone' /\ Reliable!Succeed
        BY <1>10, <1>11, <1>12, SucceedStep DEF ShellReturn
    <2>2. Receptive(<<>>)'  BY <1>6, <1>9, <1>10, <1>12 DEF Receptive
    <2>3. Resting'
        BY <1>7, <1>10, <1>12, <2>1, <2>2 DEF Resting, ShellReturn
    <2>4. QED  BY <2>1, <2>3 DEF ExchangeStep, Reliable!Next
<1>13. ASSUME hpc' = "recv", UNCHANGED jobs, CurrentJob.cmd = "download", UpToDate(0)'
       PROVE  Downloading' /\ ExchangeStep
    <2>1. JobRuns' /\ CurrentJob' = CurrentJob /\ HasRun'
        BY <1>10, <1>11, <1>13 DEF JobRuns, CurrentJob, HasRun, LastRan
    <2>2. Downloading'
        BY <1>6, <1>7, <1>9, <1>10, <1>13, <2>1 DEF Downloading
    <2>3. QED  BY <1>10, <1>13, <2>2 DEF ExchangeStep
<1>14. CASE CurrentJob.cmd = "echo"
    <2>1. EchoReply(apkt)  BY <1>2, <1>4, <1>14 DEF HostReceive, CurrentJob, job
    <2>2. apkt.body = Argument(Len(jobs)) /\ command_current = "none"
        BY <1>1, <1>14 DEF Expected
    <2>3. ShellReturn("ok")  BY <2>1, <2>2 DEF EchoReply, job
    <2>4. QED  BY <1>12, <2>2, <2>3
<1>15. CASE CurrentJob.cmd = "download"
    <2>1. DownloadReply(apkt)
        BY <1>2, <1>4, <1>15 DEF HostReceive, CurrentJob, job
    <2>2. CASE apkt.type = "CTR" /\ apkt.body = <<>> /\ command_current = "none"
        <3>1. ShellReturn("ok")  BY <2>1, <2>2 DEF DownloadReply
        <3>2. QED  BY <1>12, <2>2, <3>1
    <2>3. CASE /\ apkt.type = "CTR" /\ apkt.body = <<<<temp_db_id, temp_count>>>>
               /\ temp_idx = 0 /\ command_current = "download"
        <3>1. apkt.body # <<>> /\ apkt.body[1] = <<temp_db_id, temp_count>>
            BY <2>3
        <3>2. hpc' = "recv" /\ dbList' = ListAdd(NewDb(apkt.body[1])) /\ UNCHANGED jobs
            BY <2>1, <2>3, <3>1 DEF DownloadReply
        <3>3. DEFINE new == NewDb(apkt.body[1])
        <3>4. new.size = temp_count /\ new.items = <<>>  BY <3>1 DEF NewDb
        <3>5. dbList' # <<>> /\ dbList'[Len(dbList')] = new
            <4> HIDE DEF new
            <4>1. dbList' = Append(dbList, new)  BY <3>2 DEF ListAdd, new
            <4>2. QED  BY <4>1 DEF LinkInv, TypeOK, HostTypes, DbLists
        <3> HIDE DEF new
        <3>6. UpToDate(0)'
            BY <2>3, <3>4, <3>5 DEF UpToDate, LinkInv, Underway, avrVars, download
        <3>7. QED  BY <1>13, <1>15, <3>2, <3>6
    <2>4. CASE apkt.type = "DAT" /\ apkt.body # <<>> /\ UpToDate(Len(apkt.body))
        <3>1. DEFINE db   == dbList[Len(dbList)]
                     body == apkt.body
                     new  == [db EXCEPT !.items = db.items \o body]
        <3>2. DbLists = Seq(Database)  BY DEF DbLists, Database
        <3>3. dbList \in Seq(Database) /\ dbList # <<>> /\ Len(dbList) \in 1 .. Len(dbList)
            BY <2>4, <3>2 DEF LinkInv, TypeOK, HostTypes, UpToDate
        <3>4. db \in Database  BY <3>3
        <3>5. apkt \in Packets  BY DEF LinkInv, TypeOK, AvrTypes
        <3>6. db.items \in Data /\ body \in Data
            <4>1. body \in Data  BY <3>5, PacketId
            <4> HIDE DEF db
            <4>2. QED  BY <3>4, <4>1 DEF Database
        <3>7. db.size = temp_count /\ Len(db.items) + Len(body) = temp_idx
              /\ temp_idx <= temp_count
            BY <2>4 DEF UpToDate
        <3>8. Fits(db, body)  BY <3>7 DEF Fits
        <3>9. hpc' = "recv" /\ dbList' = RegisterBulk(body) /\ UNCHANGED jobs
            BY <2>1, <2>4, <3>3, <3>8 DEF DownloadReply
        <3>10. dbList' = [dbList EXCEPT ![Len(dbList)] = new]
            BY <3>3, <3>9 DEF RegisterBulk
        <3>11. new.size = temp_count /\ Len(new.items) = temp_idx
            <4>1. new.size = db.size /\ new.items = db.items \o body
                <5> HIDE DEF db, body
                <5>1. QED  BY <3>4 DEF Database
            <4> HIDE DEF db, body, new
            <4>2. Len(db.items \o body) = Len(db.items) + Len(body)
                BY <3>6 DEF Data
            <4>3. QED  BY <3>7, <4>1, <4>2
        <3>12. dbList' # <<>> /\ dbList'[Len(dbList')] = new
            <4> HIDE DEF new
            <4>1. QED  BY <3>3, <3>10
        <3> HIDE DEF new, db, body
        <3>13. temp_idx \in Nat /\ UNCHANGED <<temp_idx, temp_count, command_current>>
            BY DEF LinkInv, TypeOK, AvrTypes, avrVars, download
        <3>14. UpToDate(0)'
            BY <2>4, <3>11, <3>12, <3>13 DEF UpToDate
        <3>15. QED  BY <1>13, <1>15, <3>9, <3>14
    <2>5. QED  BY <1>1, <1>15, <2>2, <2>3, <2>4 DEF Expected
<1>16. QED  BY <1>11, <1>14, <1>15

\* The AVR gets the acknowledgement of a part of the download and crafts the
\* next one
LEMMA DownloadingAvr ==
    ASSUME LinkInv, Downloading, AvrProgress, UNCHANGED hostVars
    PROVE  (Downloading' \/ Receiving') /\ ExchangeStep
<1>1. CASE /\ apc = "await" /\ toAvr # <<>> /\ Tail(toAvr) = <<>>
           /\ Head(toAvr).type = "ACK"
    <2>1. AvrAcked
        BY <1>1 DEF AvrProgress, AvrIterate, AvrPoll, AvrReceive, AvrReject,
                    AvrStaleMatch, AvrTransmit, AvrNotAcked
    <2>2. /\ toAvr' = <<>> /\ agid' = AgreedId /\ apc' \in {"top", "rx"}
          /\ command_notified' = TRUE
          /\ UNCHANGED <<toHost, command_current, download, ran>>
        BY <1>1, <2>1, LinkFacts DEF AvrAcked, AgreedId
    <2>3. Downloading'
        BY <2>2 DEF Downloading, JobRuns, CurrentJob, HasRun, LastRan, UpToDate,
                    AgreedId, hostVars, download
    <2>4. QED  BY <2>2, <2>3 DEF ExchangeStep, hostVars
<1>2. CASE apc \in {"top", "rx"} /\ toAvr = <<>> /\ command_notified
    <2>1. AvrIterate \/ AvrPoll
        BY <1>2 DEF AvrProgress, AvrReceive, AvrReject, AvrStaleMatch, AvrTransmit,
                    AvrAcked, AvrNotAcked
    <2>2. CASE AvrPoll
        <3>1. /\ apc' = "top"
              /\ UNCHANGED <<toAvr, toHost, agid, command_current, command_notified,
                             download, ran>>
            BY <1>2, <2>2 DEF AvrPoll, lineVars
        <3>2. Downloading'
            BY <1>2, <3>1 DEF Downloading, JobRuns, CurrentJob, HasRun, LastRan, UpToDate,
                        AgreedId, hostVars, download
        <3>3. QED  BY <3>1, <3>2 DEF ExchangeStep, hostVars
    <2>3. CASE AvrIterate
        <3>1. apc = "top" /\ DownloadIterate /\ UNCHANGED <<toAvr, toHost, agid, ran>>
            BY <2>3 DEF AvrIterate, Downloading, UpToDate, lineVars
        <3>2. UpToDate(0) /\ agid = hgid /\ JobRuns /\ CurrentJob.cmd = "download"
            BY <3>1 DEF Downloading, AgreedId
        <3>3. CurrentJob' = CurrentJob /\ dbList' = dbList /\ hpc' = "recv"
              /\ JobRuns' /\ HasRun' /\ hgid' = hgid
            BY <3>1 DEF Downloading, JobRuns, CurrentJob, HasRun, LastRan, hostVars
        <3>4. apc' = "send" /\ apkt'.id = agid /\ Expected'
            <4>1. CASE temp_idx = temp_count /\ NonEmptyFrom(temp_db_id + 1) = {}
                <5>1. Send(agid, "CTR", <<>>, "rx") /\ command_current' = "none"
                    BY <3>1, <4>1 DEF DownloadIterate, ChangeDb
                <5>2. apc' = "send" /\ apkt'.id = agid /\ apkt'.type = "CTR"
                      /\ apkt'.body = <<>>
                    BY <5>1 DEF Send, Packet
                <5>3. QED  BY <3>2, <3>3, <5>1, <5>2 DEF Expected
            <4>2. CASE temp_idx = temp_count /\ NonEmptyFrom(temp_db_id + 1) # {}
                <5>1. DEFINE next  == NextDb(temp_db_id + 1)
                             count == DbSizes[next + 1]
                <5>2. /\ temp_db_id' = next /\ temp_idx' = 0 /\ temp_count' = count
                      /\ Send(agid, "CTR", <<<<next, count>>>>, "rx")
                      /\ command_current' = "download"
                    BY <3>1, <4>2 DEF DownloadIterate, ChangeDb
                <5> HIDE DEF next, count
                <5>3. apc' = "send" /\ apkt'.id = agid /\ apkt'.type = "CTR"
                      /\ apkt'.body = <<<<temp_db_id', temp_count'>>>>
                    BY <5>2 DEF Send, Packet
                <5>4. QED  BY <3>2, <3>3, <5>2, <5>3 DEF Expected
            <4>3. CASE temp_idx # temp_count
                <5>1. /\ Send(agid, "DAT", Burst, "rx") /\ temp_idx' = temp_idx + BurstLength
                      /\ UNCHANGED <<temp_db_id, temp_count, command_current>>
                    BY <3>1, <4>3 DEF DownloadIterate
                <5>2. temp_idx \in Nat /\ temp_count \in Nat /\ temp_idx < temp_count
                    BY <3>2, <4>3 DEF LinkInv, TypeOK, AvrTypes, UpToDate
                <5>3. BurstLength \in Nat \ {0} /\ temp_idx + BurstLength <= temp_count
                    BY <5>2, AvrAssumption DEF BurstLength
                <5>4. Len(Burst) = BurstLength /\ Burst # <<>>
                    BY <5>3 DEF Burst
                <5>5. apc' = "send" /\ apkt'.id = agid /\ apkt'.type = "DAT"
                      /\ apkt'.body = Burst
                    BY <5>1 DEF Send, Packet
                <5>6. Len(apkt'.body) = BurstLength /\ apkt'.body # <<>>
                    BY <5>4, <5>5
                <5>7. Len(dbList[Len(dbList)].items) = temp_idx
                    <6>1. dbList \in Seq(Database)  BY DEF LinkInv, TypeOK, HostTypes, DbLists, Database
                    <6>2. dbList[Len(dbList)] \in Database  BY <3>2, <6>1 DEF UpToDate
                    <6>3. Len(dbList[Len(dbList)].items) \in Nat
                        BY <6>2 DEF Database, Data
                    <6>4. QED  BY <3>2, <6>3 DEF UpToDate
                <5>8. UpToDate(Len(apkt.body))'
                    BY <3>2, <3>3, <5>1, <5>2, <5>3, <5>6, <5>7 DEF UpToDate
                <5>9. QED  BY <3>2, <3>3, <5>5, <5>6, <5>8 DEF Expected
            <4>4. QED  BY <4>1, <4>2, <4>3
        <3>5. toAvr' = <<>> /\ toHost' = <<>> /\ agid' = agid /\ ran' = ran
            BY <1>2, <3>1 DEF Downloading
        <3>6. Replied(toHost)'  BY <3>4, <3>5 DEF Replied
        <3>7. Receiving'
            BY <3>2, <3>3, <3>5, <3>6 DEF Receiving, JobAwaitsReply
        <3>8. QED  BY <3>5, <3>7 DEF ExchangeStep, hostVars
    <2>4. QED  BY <2>1, <2>2, <2>3
<1>3. QED  BY <1>1, <1>2 DEF Downloading

\* Without faults every step keeps the phases, and is a step of Exchange
LEMMA PhasesNext ==
    ASSUME NoFault, LinkInv, Phases, [Next]_vars
    PROVE  Phases' /\ ExchangeStep
<1>1. CASE UNCHANGED vars
    BY <1>1 DEF vars, lineVars, hostVars, avrVars, download, ExchangeStep, Phases,
                Resting, Requesting, Awaiting, Acknowledged, Receiving, Downloading,
                Receptive, Requested, Replied, Expected, UpToDate, AgreedId, JobDone,
                JobRuns, JobAwaitsReply, CurrentJob, HasRun, HasNotRun, LastRan
<1>2. CASE HostStep
    <2>1. UNCHANGED avrVars
          /\ ((\E cmd \in Commands \cup {"connect"} : Issue(cmd)) \/ HostProgress)
        BY <1>2 DEF HostStep
    <2>2. CASE Resting  BY <2>1, <2>2, RestingHost DEF Phases
    <2>3. HostProgress \/ Resting
        BY <2>1 DEF Phases, Requesting, Awaiting, Acknowledged, Receiving, Downloading, Issue
    <2>4. CASE Requesting /\ HostProgress  BY <2>1, <2>4, RequestingHost DEF Phases
    <2>5. CASE Acknowledged /\ HostProgress  BY <2>1, <2>5, AcknowledgedHost DEF Phases
    <2>6. CASE Receiving /\ HostProgress  BY <2>1, <2>6, ReceivingHost DEF Phases
    <2>7. ~(HostProgress /\ (Awaiting \/ Downloading))
        BY DEF Awaiting, Downloading, HostProgress, HostTransmit, HostAcked,
               HostNotAcked, HostReceive, HostReject
    <2>8. QED  BY <2>2, <2>3, <2>4, <2>5, <2>6, <2>7 DEF Phases
<1>3. CASE AvrStep
    <2>1. AvrProgress /\ UNCHANGED hostVars  BY <1>3 DEF AvrStep
    <2>2. CASE Resting  BY <2>1, <2>2, RestingAvr DEF Phases
    <2>3. CASE Requesting  BY <2>1, <2>3, RequestingAvr DEF Phases
    <2>4. CASE Awaiting  BY <2>1, <2>4, AwaitingAvr DEF Phases
    <2>5. CASE Acknowledged  BY <2>1, <2>5, AcknowledgedAvr DEF Phases
    <2>6. CASE Receiving  BY <2>1, <2>6, ReceivingAvr DEF Phases
    <2>7. CASE Downloading  BY <2>1, <2>7, DownloadingAvr DEF Phases
    <2>8. QED  BY <2>2, <2>3, <2>4, <2>5, <2>6, <2>7 DEF Phases
<1>4. ~HostTimerFires /\ ~AvrTimerFires  BY NoTimerFires
<1>5. ~LineFault /\ ~HostSignalled
    BY DEF LinkInv, TypeOK, LineTypes, NoFault, LineFault, HostSignalled, HostStaleSignal
<1>6. QED  BY <1>1, <1>2, <1>3, <1>4, <1>5 DEF Next

\* The two ends are at rest at first
LEMMA PhasesInit ==
    ASSUME Init
    PROVE  Phases
BY DEF Init, LineInit, HostInit, AvrInit, Phases, Resting, Receptive, JobDone

\* so that the phases and LinkInv are invariant together
LEMMA PhasesAlways ==
    ASSUME NoFault
    PROVE  Spec => [](LinkInv /\ Phases)
<1>1. Init => LinkInv /\ Phases  BY InvInit, PhasesInit
<1>2. LinkInv /\ Phases /\ [Next]_vars => (LinkInv /\ Phases)'
    BY InvNext, PhasesNext
<1>3. QED  BY <1>1, <1>2, PTL DEF Spec

\* On a line without faults the two ends agree on the next id whenever both
\* are at rest: the 4-bit ids of communication_send and communication_recv of
\* the two sides advance together.
THEOREM IdsAgreeWithoutFaults ==
    ASSUME NoFault
    PROVE  Spec => []IdsAgree
<1>1. LinkInv /\ Phases => IdsAgree
    BY DEF Phases, Resting, Requesting, Awaiting, Acknowledged, Receiving, Downloading,
           AgreedId, IdsAgree
<1>2. QED  BY <1>1, PhasesAlways, PTL

\* What Exchange says of what may happen
ExchangeSafety == Reliable!Init /\ [][Reliable!Next]_(Reliable!vars)

\* On a line without faults the two ends implement Exchange, as far as safety
\* goes: each command is executed exactly once, before its shell command
\* returns, and no shell command fails.
THEOREM ReliableExchange ==
    ASSUME NoFault
    PROVE  Spec => ExchangeSafety
<1>1. Init => Reliable!Init
    BY DEF Init, HostInit, AvrInit, Reliable!Init
<1>2. LinkInv /\ Phases /\ [Next]_vars => [Reliable!Next]_(Reliable!vars)
    BY PhasesNext DEF ExchangeStep, Reliable!vars
<1>3. QED  BY <1>1, <1>2, PhasesAlways, PTL DEF Spec, ExchangeSafety
-----------------------------------------------------------------------------

(***************************************************************************)
(* What a download brings on a line without faults.  The host has the      *)
(* databases below the one that the AVR is at, and of that one the         *)
(* temperatures below temp_idx but for those of the packet on its way.     *)
(***************************************************************************)

\* The databases that a download brings before this one
Below(db) == {d \in NonEmptyFrom(0) : d < db}

\* The host has n temperatures of the database at which the AVR is
Halfway(n) ==
    /\ temp_db_id \in NonEmptyFrom(0) /\ temp_count = DbSizes[temp_db_id + 1]
    /\ \E prior \in DbLists :
          /\ dbList = Append(prior, Brought(temp_db_id, n))
          /\ Lists(prior, Below(temp_db_id))

\* The packet that the AVR sends is the next one of the download
NextPart ==
    \/ apkt.type = "CTR" /\ apkt.body = <<>> /\ Lists(dbList, NonEmptyFrom(0))
    \/ /\ apkt.type = "CTR" /\ apkt.body = <<<<temp_db_id, temp_count>>>> /\ temp_idx = 0
       /\ temp_db_id \in NonEmptyFrom(0) /\ temp_count = DbSizes[temp_db_id + 1]
       /\ Lists(dbList, Below(temp_db_id))
    \/ /\ apkt.type = "DAT" /\ Len(apkt.body) \in 1 .. temp_idx
       /\ Halfway(temp_idx - Len(apkt.body))
       /\ \A i \in DOMAIN apkt.body :
             apkt.body[i] = <<temp_db_id, temp_idx - Len(apkt.body) + i - 1>>

PartExpected == (Acknowledged \/ Receiving) /\ CurrentJob.cmd = "download"

\* The invariant: what was stored, and what was received so far
Content ==
    /\ DownloadExact
    /\ PartExpected => NextPart
    /\ Downloading => Halfway(temp_idx)

\* Nothing is listed at first
LEMMA NothingListed == ASSUME NEW dbs, dbs = {} PROVE Lists(<<>>, dbs)
BY DEF Lists

\* A database that is not empty has an index and a size
LEMMA NonEmptyType ==
    ASSUME NEW db \in NonEmptyFrom(0)
    PROVE  db \in Nat /\ DbSizes[db + 1] \in Nat \ {0}
BY AvrAssumption DEF NonEmptyFrom

\* Where the AVR goes from nowhere, and from a database: none is left out
LEMMA BelowNext ==
    /\ NonEmptyFrom(0) # {} =>
          NextDb(0) \in NonEmptyFrom(0) /\ Below(NextDb(0)) = {}
    /\ \A db \in NonEmptyFrom(0) :
          /\ NonEmptyFrom(db + 1) = {} => NonEmptyFrom(0) = Below(db) \cup {db}
          /\ NonEmptyFrom(db + 1) # {} =>
                /\ NextDb(db + 1) \in NonEmptyFrom(0)
                /\ Below(NextDb(db + 1)) = Below(db) \cup {db}
<1>1. \A d \in NonEmptyFrom(0) : d \in Nat  BY NonEmptyType
<1>2. ASSUME NonEmptyFrom(0) # {}
      PROVE  NextDb(0) \in NonEmptyFrom(0) /\ Below(NextDb(0)) = {}
    <2>1. NextDb(0) \in NonEmptyFrom(0) /\ \A e \in NonEmptyFrom(0) : NextDb(0) <= e
        BY <1>2, NextDbLeast
    <2>2. QED  BY <1>1, <2>1 DEF Below
<1>3. ASSUME NEW db \in NonEmptyFrom(0)
      PROVE  /\ db \in Nat
             /\ NonEmptyFrom(db + 1) = {d \in NonEmptyFrom(0) : db < d}
    <2>1. db \in Nat  BY <1>1
    <2>2. QED  BY <2>1, AvrAssumption DEF NonEmptyFrom
<1>4. ASSUME NEW db \in NonEmptyFrom(0), NonEmptyFrom(db + 1) = {}
      PROVE  NonEmptyFrom(0) = Below(db) \cup {db}
    <2>1. \A d \in NonEmptyFrom(0) : d \in Nat /\ ~(db < d)  BY <1>1, <1>3, <1>4
    <2>2. \A d \in NonEmptyFrom(0) : d < db \/ d = db  BY <1>3, <2>1
    <2>3. QED  BY <2>2 DEF Below
<1>5. ASSUME NEW db \in NonEmptyFrom(0), NonEmptyFrom(db + 1) # {}
      PROVE  /\ NextDb(db + 1) \in NonEmptyFrom(0)
             /\ Below(NextDb(db + 1)) = Below(db) \cup {db}
    <2>1. PICK next : next = NextDb(db + 1)  OBVIOUS
    <2>2. db \in Nat /\ db + 1 \in Nat  BY <1>3
    <2>3. next \in NonEmptyFrom(db + 1) /\ \A e \in NonEmptyFrom(db + 1) : next <= e
        BY <1>5, <2>1, <2>2, NextDbLeast
    <2>4. next \in NonEmptyFrom(0) /\ db < next /\ next \in Nat  BY <1>1, <1>3, <2>3
    <2>5. \A d \in NonEmptyFrom(0) : db < d => next <= d  BY <1>3, <2>3
    <2>6. \A d \in NonEmptyFrom(0) : d < next <=> d < db \/ d = db
        BY <1>1, <2>2, <2>4, <2>5
    <2>7. Below(next) = Below(db) \cup {db}  BY <2>6 DEF Below
    <2>8. QED  BY <2>1, <2>4, <2>7
<1>6. QED  BY <1>2, <1>4, <1>5

\* A database that came whole is listed behind those before it
LEMMA ListsOneMore ==
    ASSUME NEW db \in NonEmptyFrom(0), NEW prior \in DbLists, Lists(prior, Below(db)),
           NEW list, list = Append(prior, Brought(db, DbSizes[db + 1]))
    PROVE  Lists(list, Below(db) \cup {db})
<1>1. DEFINE new == Brought(db, DbSizes[db + 1])
             n   == Len(prior)
<1>2. new.id = db  BY DEF Brought
<1>3. n \in Nat /\ Len(list) = n + 1 /\ list[n + 1] = new
      /\ DOMAIN list = 1 .. n + 1 /\ DOMAIN prior = 1 .. n
      /\ \A i \in 1 .. n : list[i] = prior[i]
    BY DEF DbLists
<1>4. \A i \in DOMAIN list : i \in DOMAIN prior \/ i = n + 1  BY <1>3
<1> HIDE DEF new, n
<1>5. \A i \in DOMAIN prior : prior[i].id \in Below(db) /\ prior[i].id < db
    BY DEF Lists, Below
<1>6. ASSUME NEW i \in DOMAIN list
      PROVE  /\ list[i].id \in Below(db) \cup {db}
             /\ list[i] = Brought(list[i].id, DbSizes[list[i].id + 1])
    <2>1. CASE i \in DOMAIN prior  BY <1>3, <2>1 DEF Lists
    <2>2. CASE i = n + 1  BY <1>2, <1>3, <2>2 DEF new
    <2>3. QED  BY <1>4, <2>1, <2>2
<1>7. ASSUME NEW i \in DOMAIN list, NEW k \in DOMAIN list, i < k
      PROVE  list[i].id < list[k].id
    <2>1. i \in DOMAIN prior  BY <1>3, <1>7
    <2>2. CASE k \in DOMAIN prior  BY <1>3, <1>7, <2>1, <2>2 DEF Lists
    <2>3. CASE k = n + 1  BY <1>2, <1>3, <1>5, <2>1, <2>3
    <2>4. QED  BY <1>4, <2>2, <2>3
<1>8. ASSUME NEW d \in Below(db) \cup {db}
      PROVE  \E i \in DOMAIN list : list[i].id = d
    <2>1. CASE d = db
        <3>1. n + 1 \in DOMAIN list  BY <1>3
        <3>2. QED  BY <1>2, <1>3, <2>1, <3>1
    <2>2. CASE d \in Below(db)
        <3>1. PICK i \in DOMAIN prior : prior[i].id = d  BY <2>2 DEF Lists
        <3>2. i \in DOMAIN list /\ list[i] = prior[i]  BY <1>3
        <3>3. QED  BY <3>1, <3>2
    <2>3. QED  BY <2>1, <2>2
<1>9. QED  BY <1>6, <1>7, <1>8 DEF Lists

\* A database that has all its temperatures is listed
LEMMA HalfwayEnds ==
    ASSUME Halfway(temp_count)
    PROVE  Lists(dbList, Below(temp_db_id) \cup {temp_db_id})
<1>1. PICK prior \in DbLists :
            /\ dbList = Append(prior, Brought(temp_db_id, temp_count))
            /\ Lists(prior, Below(temp_db_id))
    BY DEF Halfway
<1>2. temp_db_id \in NonEmptyFrom(0) /\ temp_count = DbSizes[temp_db_id + 1]
    BY DEF Halfway
<1>3. QED  BY <1>1, <1>2, ListsOneMore

\* temperature_register_bulk puts the temperatures that come behind those there
LEMMA BroughtMore ==
    ASSUME NEW db \in Nat, NEW n \in Nat, NEW body \in Data,
           \A i \in DOMAIN body : body[i] = <<db, n + i - 1>>
    PROVE  [Brought(db, n) EXCEPT !.items = @ \o body] = Brought(db, n + Len(body))
<1>1. DEFINE items(k) == [i \in 1 .. k |-> <<db, i - 1>>]
             m        == Len(body)
<1>2. m \in Nat /\ DOMAIN body = 1 .. m  BY DEF Data
<1>3. items(n) \in Seq(Nat \X Nat) /\ Len(items(n)) = n
      /\ \A i \in 1 .. n : items(n)[i] = <<db, i - 1>>
    OBVIOUS
<1> HIDE DEF m
<1>4. items(n + m) \in Seq(Nat \X Nat) /\ Len(items(n + m)) = n + m
      /\ \A i \in 1 .. n + m : items(n + m)[i] = <<db, i - 1>>
    BY <1>2
<1> HIDE DEF items
<1>5. PICK old : old = items(n)  OBVIOUS
<1>6. PICK all : all = items(n + m)  OBVIOUS
<1>7. body \in Seq(Nat \X Nat)
    <2>1. ASSUME NEW i \in 1 .. m  PROVE body[i] \in Nat \X Nat
        <3>1. n + i - 1 \in Nat  BY <1>2
        <3>2. body[i] = <<db, n + i - 1>>  BY <1>2
        <3>3. QED  BY <3>1, <3>2
    <2>2. body \in Seq((Nat \cup {ArgTag}) \X Nat)  BY DEF Data
    <2>3. body = [i \in 1 .. m |-> body[i]]  BY <1>2, <2>2
    <2>4. QED  BY <1>2, <2>1, <2>3
<1>8. /\ old \o body \in Seq(Nat \X Nat) /\ Len(old \o body) = n + m
      /\ \A i \in 1 .. n + m :
            (old \o body)[i] = IF i <= n THEN old[i] ELSE body[i - n]
    <2>1. old \in Seq(Nat \X Nat) /\ Len(old) = n /\ Len(body) = m
        BY <1>3, <1>5 DEF m
    <2>2. QED  BY <1>7, <2>1, ConcatProperties
<1>9. ASSUME NEW i \in 1 .. n + m  PROVE (old \o body)[i] = all[i]
    <2>1. all[i] = <<db, i - 1>>  BY <1>4, <1>6
    <2>2. CASE i <= n
        <3>1. i \in 1 .. n  BY <1>2, <2>2
        <3>2. old[i] = <<db, i - 1>>  BY <1>3, <1>5, <3>1
        <3>3. QED  BY <1>8, <2>1, <2>2, <3>2
    <2>3. CASE n < i
        <3>1. i - n \in 1 .. m /\ n + (i - n) - 1 = i - 1  BY <1>2, <2>3
        <3>2. (old \o body)[i] = body[i - n]  BY SMTT(20), <1>2, <1>8, <2>3
        <3>3. body[i - n] = <<db, n + (i - n) - 1>>  BY <1>2, <3>1
        <3>4. <<db, n + (i - n) - 1>> = <<db, i - 1>>  BY <3>1
        <3>5. QED  BY <2>1, <3>2, <3>3, <3>4
    <2>4. i \in Int  BY <1>2
    <2>5. i <= n \/ n < i  BY <2>4
    <2>6. QED  BY <2>2, <2>3, <2>5
<1>10. old \o body = all  BY <1>4, <1>6, <1>8, <1>9, SeqEqual
<1>11. Brought(db, n) = [id |-> db, size |-> DbSizes[db + 1], items |-> old]
       /\ Brought(db, n + m) = [id |-> db, size |-> DbSizes[db + 1], items |-> all]
    BY <1>5, <1>6 DEF Brought, items
<1>12. PICK size : size = DbSizes[db + 1]  OBVIOUS
<1>13. [[id |-> db, size |-> size, items |-> old] EXCEPT !.items = old \o body]
            = [id |-> db, size |-> size, items |-> all]
    BY <1>10
<1>14. Brought(db, n).items = old  BY <1>11
<1>15. [Brought(db, n) EXCEPT !.items = @ \o body]
            = [[id |-> db, size |-> size, items |-> old] EXCEPT !.items = old \o body]
    BY <1>11, <1>12, <1>14
<1>16. QED  BY <1>11, <1>12, <1>13, <1>15 DEF m

\* What was received so far depends on nothing that a transmission changes
LEMMA PartFrame ==
    ASSUME UNCHANGED <<dbList, apkt, download>>
    PROVE  /\ NextPart => NextPart'
           /\ Halfway(temp_idx) => Halfway(temp_idx)'
BY DEF NextPart, Halfway, download

\* Either a packet of the download is to be sent, or its acknowledgement
LEMMA PhasesApart ==
    /\ ~(Receiving /\ Downloading)
    /\ Receiving \/ Downloading => hpc = "recv"
    /\ Acknowledged => hpc = "await" /\ toHost # <<>>
    /\ Receiving => apc \in {"send", "await"}
    /\ Downloading => apc # "send" /\ toHost = <<>>
BY DEF Receiving, Downloading, Acknowledged, Replied

\* Where no download goes on only the storage counts
LEMMA NoDownload ==
    ASSUME Content, storage' = storage,
           hpc' \in {"shell", "send"} \/ (hpc' = "await" /\ toHost' = <<>>)
    PROVE  Content'
<1>1. ~Acknowledged' /\ ~Receiving' /\ ~Downloading'
    BY DEF Acknowledged, Receiving, Downloading
<1>2. DownloadExact'  BY DEF Content, DownloadExact
<1>3. QED  BY <1>1, <1>2 DEF Content, PartExpected

\* The AVR executes the download command: it begins with the first database
LEMMA AwaitingContent ==
    ASSUME LinkInv, NoFault, Content, Awaiting, AvrProgress, UNCHANGED hostVars
    PROVE  Content'
<1>1. PICK rest : rest = <<hpkt>>  OBVIOUS
<1>2. rest # <<>> /\ Head(rest) = hpkt /\ Head(<<hpkt>>) = hpkt  BY <1>1
<1>3. Good(hpkt)  BY DEF Awaiting, Requested, Good
<1>4. Receptive(rest)  BY <1>1 DEF Awaiting
<1>5. hpc' = "await" /\ storage' = storage /\ dbList' = dbList /\ jobs' = jobs /\ dbList = <<>>
    BY DEF Awaiting, Requested, hostVars
<1>6. CASE toHost' = toHost
    BY <1>5, <1>6, NoDownload DEF Awaiting
<1>7. CASE AvrReceive /\ apc = "recv" /\ toAvr = rest
    <2>1. SUFFICES ASSUME CurrentJob.cmd = "download"  PROVE NextPart'
        <3>1. ~Receiving' /\ ~Downloading'  BY <1>5 DEF Receiving, Downloading
        <3>2. DownloadExact'  BY <1>5 DEF Content, DownloadExact
        <3>3. CurrentJob' = CurrentJob  BY <1>5 DEF CurrentJob
        <3>4. QED  BY <2>1, <3>1, <3>2, <3>3 DEF Content, PartExpected
    <2>2. hpkt.cmd = "download" /\ hpkt.type = "CMD"
        BY <2>1 DEF Awaiting, Requested
    <2>3. PICK id : id = IdAfter(hpkt)  OBVIOUS
    <2>4. OpCmd(id, hpkt)
        BY <1>1, <1>2, <1>7, <2>2, <2>3 DEF AvrReceive
    <2>5. ChangeDb(id, 0, "top")  BY <2>2, <2>4 DEF OpCmd
    <2>6. CASE NonEmptyFrom(0) = {}
        <3>1. apkt'.type = "CTR" /\ apkt'.body = <<>>
            BY <2>5, <2>6 DEF ChangeDb, Send, Packet
        <3>2. Lists(dbList', NonEmptyFrom(0))  BY <1>5, <2>6, NothingListed
        <3>3. QED  BY <3>1, <3>2 DEF NextPart
    <2>7. CASE NonEmptyFrom(0) # {}
        <3>1. /\ apkt'.type = "CTR" /\ apkt'.body = <<<<temp_db_id', temp_count'>>>>
              /\ temp_db_id' = NextDb(0) /\ temp_idx' = 0
              /\ temp_count' = DbSizes[temp_db_id' + 1]
            BY <2>5, <2>7 DEF ChangeDb, Send, Packet
        <3>2. temp_db_id' \in NonEmptyFrom(0) /\ Below(temp_db_id') = {}
            BY <2>7, <3>1, BelowNext
        <3>3. Lists(dbList', Below(temp_db_id'))  BY <1>5, <3>2, NothingListed
        <3>4. QED  BY <3>1, <3>2, <3>3 DEF NextPart
    <2>8. QED  BY <2>6, <2>7
<1>8. QED  BY <1>2, <1>3, <1>4, <1>6, <1>7, ReceptiveAvr

\* The AVR transmits a part of the download
LEMMA TransmitContent ==
    ASSUME LinkInv, Content, Acknowledged \/ Receiving, AvrProgress, UNCHANGED hostVars
    PROVE  Content'
<1>1. hpc' = hpc /\ storage' = storage /\ dbList' = dbList /\ CurrentJob' = CurrentJob
    BY DEF hostVars, CurrentJob
<1>2. DownloadExact'  BY <1>1 DEF Content, DownloadExact
<1>3. CASE CurrentJob.cmd # "download"
    <2>1. CASE Acknowledged
        <3>1. ~Receiving' /\ ~Downloading'
            BY <1>1, <2>1 DEF Acknowledged, Receiving, Downloading
        <3>2. QED  BY <1>1, <1>2, <1>3, <3>1 DEF Content, PartExpected
    <2>2. CASE Receiving
        <3>1. ~Downloading'  BY <1>1, <1>3 DEF Downloading
        <3>2. QED  BY <1>1, <1>2, <1>3, <3>1 DEF Content, PartExpected
    <2>3. QED  BY <2>1, <2>2
<1>4. CASE CurrentJob.cmd = "download"
    <2>1. PICK rest : Replied(rest)
        <3>1. CASE Acknowledged  BY <1>4, <3>1 DEF Acknowledged, NoResponse
        <3>2. CASE Receiving  BY <3>2 DEF Receiving
        <3>3. QED  BY <3>1, <3>2
    <2>2. toHost' = Append(toHost, apkt) /\ UNCHANGED AvrUndelivered
        BY <2>1, RepliedAvr
    <2>3. NextPart'
        BY <1>1, <1>4, <2>2, PartFrame DEF Content, PartExpected, AvrUndelivered
    <2>4. toHost' # <<>>
        BY <2>2, LinkFacts
    <2>5. ~Downloading'  BY <2>4 DEF Downloading
    <2>6. QED  BY <1>2, <2>3, <2>5 DEF Content
<1>5. QED  BY <1>3, <1>4

\* The host takes the acknowledgement of the command
LEMMA AckedContent ==
    ASSUME LinkInv, Content, Acknowledged, HostProgress, UNCHANGED avrVars
    PROVE  Content'
<1>1. HostAcked
    <2>1. Accepted(Head(toHost))  BY DEF Acknowledged, Accepted, Good
    <2>2. QED
        BY <2>1 DEF Acknowledged, HostProgress, HostTransmit, HostNotAcked,
                    HostReceive, HostReject
<1>2. storage' = storage  BY <1>1 DEF HostAcked
<1>3. CASE CurrentJob.cmd \in NoResponse
    <2>1. hpc' = "shell"  BY <1>1, <1>3 DEF HostAcked, ShellReturn, CurrentJob, job
    <2>2. QED  BY <1>2, <2>1, NoDownload
<1>4. CASE CurrentJob.cmd \notin NoResponse
    <2>1. hpc' = "recv" /\ UNCHANGED <<jobs, dbList>>
        BY <1>1, <1>4 DEF HostAcked, CurrentJob, job
    <2>2. Receiving'
        BY <2>1, AcknowledgedHost DEF Resting
    <2>3. ~Downloading'
        <3>1. (~(Receiving /\ Downloading))'  BY PhasesApart, PTL
        <3>2. QED  BY <2>2, <3>1
    <2>4. CurrentJob' = CurrentJob  BY <2>1 DEF CurrentJob
    <2>5. NextPart => NextPart'
        BY <2>1, PartFrame DEF avrVars, download
    <2>6. DownloadExact'  BY <1>2 DEF Content, DownloadExact
    <2>7. QED  BY <2>3, <2>4, <2>5, <2>6 DEF Content, PartExpected
<1>5. QED  BY <1>3, <1>4

\* The last element of a sequence is replaced
LEMMA AppendReplaced ==
    ASSUME NEW T, NEW s \in Seq(T), NEW a, NEW b
    PROVE  [Append(s, a) EXCEPT ![Len(s) + 1] = b] = Append(s, b)
<1>1. PICK n \in Nat : n = Len(s)  OBVIOUS
<1>2. DEFINE u == [Append(s, a) EXCEPT ![n + 1] = b]
<1>3. s \in Seq(T \cup {a, b})  OBVIOUS
<1>4. /\ Append(s, a) \in Seq(T \cup {a, b}) /\ Len(Append(s, a)) = n + 1
      /\ \A i \in 1 .. n : Append(s, a)[i] = s[i]
    BY <1>1, <1>3
<1>5. /\ Append(s, b) \in Seq(T \cup {a, b}) /\ Len(Append(s, b)) = n + 1
      /\ \A i \in 1 .. n : Append(s, b)[i] = s[i]
      /\ Append(s, b)[n + 1] = b
    BY <1>1, <1>3
<1>6. PICK v : v = Append(s, a)  OBVIOUS
<1>7. v \in [1 .. n + 1 -> T \cup {a, b}]  BY <1>4, <1>6, LenProperties
<1>8. u \in [1 .. n + 1 -> T \cup {a, b}] /\ u[n + 1] = b
      /\ \A i \in 1 .. n : u[i] = s[i]
    <2>1. u = [v EXCEPT ![n + 1] = b] /\ \A i \in 1 .. n : v[i] = s[i]
        BY <1>4, <1>6
    <2> HIDE DEF u
    <2>2. QED  BY <1>7, <2>1
<1> HIDE DEF u
<1>9. u \in Seq(T \cup {a, b}) /\ Len(u) = n + 1  BY <1>8
<1>10. \A i \in 1 .. n + 1 : u[i] = Append(s, b)[i]
    <2>1. \A i \in 1 .. n + 1 : i \in 1 .. n \/ i = n + 1  OBVIOUS
    <2>2. QED  BY <1>5, <1>8, <2>1
<1>11. u = Append(s, b)  BY <1>5, <1>9, <1>10, SeqEqual
<1>12. QED  BY <1>1, <1>11 DEF u

\* The host takes a part of the download: its list becomes that much longer, or
\* goes to the storage
LEMMA ReceivedContent ==
    ASSUME LinkInv, Content, Receiving, HostProgress, UNCHANGED avrVars
    PROVE  Content'
<1>1. toHost = <<apkt>> /\ HostReceive
    <2>1. /\ toHost = <<apkt>> /\ apkt.id = hgid /\ Expected
          /\ HostReceive \/ HostReject
        BY DEF Receiving, Replied, HostProgress, HostTransmit, HostAcked, HostNotAcked,
               HostReceive, HostReject
    <2>2. Head(toHost) = apkt  BY <2>1
    <2>3. Accepted(apkt)  BY <2>1 DEF Accepted, Good, Expected
    <2>4. QED  BY <2>1, <2>2, <2>3 DEF HostReject
<1>2. Head(toHost) = apkt  BY <1>1
<1>3. CurrentJob.cmd \in {"echo", "download"}
    BY DEF Receiving, JobAwaitsReply
<1>4. CASE CurrentJob.cmd = "echo"
    <2>1. EchoReply(apkt)  BY <1>1, <1>2, <1>4 DEF HostReceive, CurrentJob, job
    <2>2. storage' = storage /\ hpc' = "shell"  BY <2>1 DEF EchoReply, ShellReturn
    <2>3. QED  BY <2>2, NoDownload
<1>5. CASE CurrentJob.cmd = "download"
    <2>1. DownloadReply(apkt)
        BY <1>1, <1>2, <1>5 DEF HostReceive, CurrentJob, job
    <2>2. NextPart  BY <1>5 DEF Content, PartExpected
    <2>3. dbList \in DbLists /\ storage \in Seq(DbLists) /\ apkt \in Packets
          /\ temp_db_id \in Nat /\ temp_idx \in Nat
        BY DEF LinkInv, TypeOK, HostTypes, AvrTypes
    <2>4. apkt' = apkt /\ UNCHANGED download  BY DEF avrVars, download
    <2>5. ASSUME hpc' = "recv", storage' = storage, Halfway(temp_idx)'
          PROVE  Content'
        <3>1. Downloading'  BY <2>5, ReceivingHost DEF Resting
        <3>2. ~Receiving'
            <4>1. (~(Receiving /\ Downloading))'  BY PhasesApart, PTL
            <4>2. QED  BY <3>1, <4>1
        <3>3. ~Acknowledged'  BY <2>5 DEF Acknowledged
        <3>4. DownloadExact'  BY <2>5 DEF Content, DownloadExact
        <3>5. QED  BY <2>5, <3>2, <3>3, <3>4 DEF Content, PartExpected
    <2>6. CASE apkt.type = "CTR" /\ apkt.body = <<>>
        <3>1. hpc' = "shell" /\ storage' = ListConcat
            BY <2>1, <2>6 DEF DownloadReply, ShellReturn
        <3>2. ~Acknowledged' /\ ~Receiving' /\ ~Downloading'
            BY <3>1 DEF Acknowledged, Receiving, Downloading
        <3>3. Lists(dbList, NonEmptyFrom(0))
            <4>1. <<>> # <<<<temp_db_id, temp_count>>>>  OBVIOUS
            <4>2. QED  BY <2>2, <2>6, <4>1 DEF NextPart
        <3>4. DownloadExact'
            <4>1. CASE dbList = <<>>
                BY <3>1, <4>1 DEF ListConcat, Content, DownloadExact
            <4>2. CASE dbList # <<>>
                <5>1. storage' = Append(storage, dbList)  BY <3>1, <4>2 DEF ListConcat
                <5>2. ASSUME NEW k \in DOMAIN storage'
                      PROVE  Lists(storage'[k], NonEmptyFrom(0))
                    <6>1. k \in DOMAIN storage \/ storage'[k] = dbList
                        BY <2>3, <5>1
                    <6>2. k \in DOMAIN storage => storage'[k] = storage[k]
                        BY <2>3, <5>1
                    <6>3. QED  BY <3>3, <6>1, <6>2 DEF Content, DownloadExact
                <5>3. QED  BY <5>2 DEF DownloadExact
            <4>3. QED  BY <4>1, <4>2
        <3>5. QED  BY <3>2, <3>4 DEF Content, PartExpected
    <2>7. CASE apkt.type = "CTR" /\ apkt.body # <<>>
        <3>1. /\ apkt.body = <<<<temp_db_id, temp_count>>>> /\ temp_idx = 0
              /\ temp_db_id \in NonEmptyFrom(0) /\ temp_count = DbSizes[temp_db_id + 1]
              /\ Lists(dbList, Below(temp_db_id))
            BY <2>2, <2>7 DEF NextPart
        <3>2. hpc' = "recv" /\ storage' = storage /\ dbList' = ListAdd(NewDb(apkt.body[1]))
            BY <2>1, <2>7 DEF DownloadReply
        <3>3. NewDb(apkt.body[1]) = Brought(temp_db_id, 0)
            <4>1. apkt.body[1] = <<temp_db_id, temp_count>>  BY <3>1
            <4>2. [i \in 1 .. 0 |-> <<temp_db_id, i - 1>>] = <<>>  OBVIOUS
            <4>3. QED  BY <3>1, <4>1, <4>2 DEF NewDb, Brought
        <3>4. dbList' = Append(dbList, Brought(temp_db_id, 0))
            BY <3>2, <3>3 DEF ListAdd
        <3>5. Halfway(temp_idx)'
            BY <2>3, <2>4, <3>1, <3>4 DEF Halfway, download
        <3>6. QED  BY <2>5, <3>2, <3>5
    <2>8. CASE apkt.type = "DAT" /\ dbList' = RegisterBulk(apkt.body)
               /\ hpc' = "recv" /\ storage' = storage
        <3>1. PICK body \in Data : body = apkt.body  BY <2>3, PacketId
        <3>2. PICK n \in Nat : n = temp_idx - Len(body)
            BY SMTT(20), <2>2, <2>3, <2>8, <3>1 DEF NextPart
        <3>3. /\ Halfway(n) /\ Len(body) \in Nat /\ n + Len(body) = temp_idx
              /\ \A i \in DOMAIN body : body[i] = <<temp_db_id, n + i - 1>>
            BY <2>2, <2>3, <2>8, <3>1, <3>2 DEF NextPart
        <3>4. PICK db \in Nat : db = temp_db_id  BY <2>3
        <3>5. PICK prior \in DbLists :
                    dbList = Append(prior, Brought(db, n)) /\ Lists(prior, Below(db))
            BY <3>3, <3>4 DEF Halfway
        <3>6. [Brought(db, n) EXCEPT !.items = @ \o body] = Brought(db, temp_idx)
            <4>1. \A i \in DOMAIN body : body[i] = <<db, n + i - 1>>  BY <3>3, <3>4
            <4>2. [Brought(db, n) EXCEPT !.items = @ \o body] = Brought(db, n + Len(body))
                BY <4>1, BroughtMore
            <4>3. QED  BY <3>3, <4>2
        <3>7. dbList' = Append(prior, Brought(db, temp_idx))
            <4>1. PICK old : old = Brought(db, n)  OBVIOUS
            <4>2. PICK new : new = Brought(db, temp_idx)  OBVIOUS
            <4>3. dbList = Append(prior, old) /\ Len(dbList) = Len(prior) + 1
                  /\ dbList[Len(dbList)] = old
                BY <3>5, <4>1 DEF DbLists
            <4>4. dbList' = [dbList EXCEPT ![Len(dbList)] = new]
                <5>1. RegisterBulk(body)
                        = [dbList EXCEPT ![Len(dbList)] =
                             [dbList[Len(dbList)] EXCEPT !.items = @ \o body]]
                    BY DEF RegisterBulk
                <5>2. QED  BY <2>8, <3>1, <3>6, <4>1, <4>2, <4>3, <5>1
            <4>5. [Append(prior, old) EXCEPT ![Len(prior) + 1] = new] = Append(prior, new)
                BY AppendReplaced DEF DbLists
            <4>6. QED  BY <4>2, <4>3, <4>4, <4>5
        <3>8. Halfway(temp_idx)'
            BY <2>4, <3>3, <3>4, <3>5, <3>7 DEF Halfway, download
        <3>9. QED  BY <2>5, <2>8, <3>8
    <2>9. CASE ShellReturn("failed") /\ storage' = storage
        BY <2>9, NoDownload DEF ShellReturn
    <2>10. QED  BY <2>1, <2>6, <2>7, <2>8, <2>9 DEF DownloadReply
<1>6. QED  BY <1>3, <1>4, <1>5

\* The AVR goes on to the next part: temperatures, a database, or the end
LEMMA DownloadingContent ==
    ASSUME LinkInv, Content, Downloading, AvrProgress, UNCHANGED hostVars
    PROVE  Content'
<1>1. hpc' = "recv" /\ storage' = storage /\ dbList' = dbList
    BY DEF Downloading, hostVars
<1>2. DownloadExact' /\ ~Acknowledged' /\ Halfway(temp_idx)
    BY <1>1 DEF Content, DownloadExact, Acknowledged
<1>3. CASE AvrAcked \/ AvrPoll
    <2>1. apc' \in {"top", "rx", "recv"} /\ UNCHANGED <<apkt, download>>
        BY <1>3, LinkFacts DEF AvrAcked, AvrPoll
    <2>2. ~Receiving'  BY <2>1 DEF Receiving, Replied
    <2>3. QED
        BY <1>1, <1>2, <2>1, <2>2, PartFrame DEF Content, PartExpected
<1>4. CASE AvrIterate
    <2>1. DownloadIterate  BY <1>4 DEF AvrIterate, Downloading, UpToDate
    <2>2. PICK db \in Nat : db = temp_db_id
        BY DEF LinkInv, TypeOK, AvrTypes
    <2>3. db \in NonEmptyFrom(0) /\ temp_count = DbSizes[db + 1]  BY <1>2, <2>2 DEF Halfway
    <2>4. temp_idx \in Nat /\ temp_count \in Nat /\ temp_idx <= temp_count
        BY DEF LinkInv, TypeOK, AvrTypes, Downloading, UpToDate
    <2>5. apc' = "send"
        BY <2>1 DEF DownloadIterate, ChangeDb, Send
    <2>6. ~Downloading'  BY <2>5 DEF Downloading
    <2>7. NextPart'
        <3>1. CASE temp_idx = temp_count /\ NonEmptyFrom(db + 1) = {}
            <4>1. Lists(dbList, NonEmptyFrom(0))
                BY <1>2, <2>2, <2>3, <3>1, HalfwayEnds, BelowNext
            <4>2. apkt'.type = "CTR" /\ apkt'.body = <<>>
                BY <2>1, <2>2, <3>1 DEF DownloadIterate, ChangeDb, Send, Packet
            <4>3. QED  BY <1>1, <4>1, <4>2 DEF NextPart
        <3>2. CASE temp_idx = temp_count /\ NonEmptyFrom(db + 1) # {}
            <4>1. NextDb(db + 1) \in NonEmptyFrom(0)
                  /\ Lists(dbList, Below(NextDb(db + 1)))
                BY <1>2, <2>2, <2>3, <3>2, HalfwayEnds, BelowNext
            <4>2. /\ apkt'.type = "CTR" /\ apkt'.body = <<<<temp_db_id', temp_count'>>>>
                  /\ temp_db_id' = NextDb(db + 1) /\ temp_idx' = 0
                  /\ temp_count' = DbSizes[temp_db_id' + 1]
                BY <2>1, <2>2, <3>2 DEF DownloadIterate, ChangeDb, Send, Packet
            <4>3. QED  BY <1>1, <4>1, <4>2 DEF NextPart
        <3>3. CASE temp_idx # temp_count
            <4>1. /\ apkt'.type = "DAT" /\ apkt'.body = Burst
                  /\ temp_idx' = temp_idx + BurstLength
                  /\ temp_db_id' = temp_db_id /\ temp_count' = temp_count
                BY <2>1, <3>3 DEF DownloadIterate, Send, Packet
            <4>2. PICK length \in Nat \ {0} : length = BurstLength
                <5>1. temp_idx < temp_count  BY <2>4, <3>3
                <5>2. BurstLength \in Nat \ {0}
                    BY <2>4, <5>1, AvrAssumption DEF BurstLength
                <5>3. QED  BY <5>2
            <4>3. PICK n \in Nat : n = temp_idx  BY <2>4
            <4>4. PICK body : body = [i \in 1 .. length |-> <<db, n + i - 1>>]  OBVIOUS
            <4>5. apkt'.body = body  BY <2>2, <4>1, <4>2, <4>3, <4>4 DEF Burst
            <4>6. Len(body) = length /\ DOMAIN body = 1 .. length
                  /\ \A i \in 1 .. length : body[i] = <<db, n + i - 1>>
                BY <4>4
            <4>7. temp_idx' = n + length /\ temp_idx' - Len(apkt'.body) = n
                BY <4>1, <4>2, <4>3, <4>5, <4>6
            <4>8. Halfway(n)'
                BY <1>1, <1>2, <4>1, <4>3 DEF Halfway
            <4>9. Halfway(temp_idx - Len(apkt.body))'
                BY <4>7, <4>8
            <4>10. Len(apkt'.body) \in 1 .. temp_idx'
                BY <4>5, <4>6, <4>7
            <4>11. \A i \in DOMAIN apkt'.body :
                      apkt'.body[i] = <<temp_db_id', temp_idx' - Len(apkt'.body) + i - 1>>
                BY <2>2, <4>1, <4>5, <4>6, <4>7
            <4>12. QED  BY <4>1, <4>9, <4>10, <4>11 DEF NextPart
        <3>4. QED  BY <3>1, <3>2, <3>3
    <2>8. QED  BY <1>2, <2>6, <2>7 DEF Content
<1>5. QED
    BY <1>3, <1>4 DEF AvrProgress, AvrReceive, AvrReject, AvrStaleMatch, AvrTransmit,
                      AvrNotAcked, Downloading

\* so that what was received and stored is right in every step
LEMMA ContentNext ==
    ASSUME NoFault, LinkInv, Phases, Content, [Next]_vars
    PROVE  Content'
<1>1. CASE UNCHANGED vars
    <2>1. /\ UNCHANGED <<dbList, apkt, download, storage, hpc, jobs, apc>>
          /\ (Acknowledged' => Acknowledged) /\ (Receiving' => Receiving)
          /\ (Downloading' => Downloading)
        BY <1>1 DEF vars, lineVars, hostVars, avrVars, download, Acknowledged, Receiving,
                    Downloading, Replied, Expected, UpToDate, AgreedId, JobRuns,
                    JobAwaitsReply, CurrentJob, HasRun, LastRan
    <2>2. CurrentJob' = CurrentJob  BY <2>1 DEF CurrentJob
    <2>3. QED
        BY <2>1, <2>2, PartFrame DEF Content, DownloadExact, PartExpected
<1>2. CASE HostStep
    <2>1. UNCHANGED avrVars
          /\ ((\E cmd \in Commands \cup {"connect"} : Issue(cmd)) \/ HostProgress)
        BY <1>2 DEF HostStep
    <2>2. CASE \E cmd \in Commands \cup {"connect"} : Issue(cmd)
        BY <2>2, NoDownload DEF Issue
    <2>3. CASE Resting /\ HostProgress
        BY <2>3 DEF Resting, HostProgress, HostTransmit, HostAcked, HostNotAcked, HostReceive,
                    HostReject
    <2>4. CASE Requesting /\ HostProgress
        <3>1. HostTransmit
            BY <2>4 DEF Requesting, HostProgress, HostAcked, HostNotAcked, HostReceive, HostReject
        <3>2. QED  BY <2>4, <3>1, NoDownload DEF HostTransmit, Requesting
    <2>5. CASE Acknowledged /\ HostProgress  BY <2>1, <2>5, AckedContent
    <2>6. CASE Receiving /\ HostProgress  BY <2>1, <2>6, ReceivedContent
    <2>7. ~(HostProgress /\ (Awaiting \/ Downloading))
        BY DEF Awaiting, Downloading, HostProgress, HostTransmit, HostAcked,
               HostNotAcked, HostReceive, HostReject
    <2>8. QED  BY <2>1, <2>2, <2>3, <2>4, <2>5, <2>6, <2>7 DEF Phases
<1>3. CASE AvrStep
    <2>1. AvrProgress /\ UNCHANGED hostVars  BY <1>3 DEF AvrStep
    <2>2. CASE Resting \/ Requesting
        BY <2>1, <2>2, NoDownload DEF Resting, Requesting, hostVars
    <2>3. CASE Awaiting  BY <2>1, <2>3, AwaitingContent
    <2>4. CASE Acknowledged \/ Receiving  BY <2>1, <2>4, TransmitContent
    <2>5. CASE Downloading  BY <2>1, <2>5, DownloadingContent
    <2>6. QED  BY <2>2, <2>3, <2>4, <2>5 DEF Phases
<1>4. ~HostTimerFires /\ ~AvrTimerFires  BY NoTimerFires
<1>5. ~LineFault /\ ~HostSignalled
    BY DEF LinkInv, TypeOK, LineTypes, NoFault, LineFault, HostSignalled, HostStaleSignal
<1>6. QED  BY <1>1, <1>2, <1>3, <1>4, <1>5 DEF Next

\* On a line without faults a download that the shell adds to its storage lists the
\* databases of the tmon that are not empty, in order, each with all its
\* temperatures, for any databases and bursts: nothing is lost, repeated or out of
\* place between the packets of temperatures_download.c and the lists of
\* shell_commands.c.
THEOREM DownloadsAreExact ==
    ASSUME NoFault
    PROVE  Spec => []DownloadExact
<1>1. Init => Content
    BY DEF Init, HostInit, Content, DownloadExact, PartExpected, Acknowledged, Receiving,
           Downloading
<1>2. LinkInv /\ Phases /\ Content /\ [Next]_vars => Content'
    BY ContentNext
<1>3. Content => DownloadExact  BY DEF Content
<1>4. QED  BY <1>1, <1>2, <1>3, PhasesAlways, PTL DEF Spec
=============================================================================
