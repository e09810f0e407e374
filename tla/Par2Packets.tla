---------------------------- MODULE Par2Packets ----------------------------
(***************************************************************************)
(* The packets of PAR2 files: what WriteIndex and WriteVolume write, what  *)
(* damage leaves of it, what ReadPackets finds and what Parse makes of it  *)
(* (src/par2/par2.go).                                                     *)
(*                                                                         *)
(* A file is a sequence of cells.  The first cell of a packet holds its    *)
(* header, the others its body; the length counts cells.  A cell of a body *)
(* may itself look like a header, since a recovery slice of a protected    *)
(* .par2 file can hold one.  The MD5 of a packet matches iff none of its   *)
(* cells was changed.                                                      *)
(***************************************************************************)
EXTENDS Naturals, FiniteSets, Sequences, SequencesExt

CONSTANTS
    Sets,       \* the sets that may have been created
    Stored,     \* the .par2 files there may be, in the order they are read
    Lengths,    \* what a damaged length may come out as
    MaxDamage   \* bound on the number of damages

ASSUME PacketAssumption == Lengths \subseteq Nat /\ MaxDamage \in Nat

Cells(file) == { file[i] : i \in DOMAIN file }
Heads(fs) == { c \in UNION { Cells(fs[i]) : i \in DOMAIN fs } : c.kind = "head" }

\* The body of a packet that Parse looks at begins with what its type says.
WellFormed(p) ==
    /\ p.set # "" /\ p.body \in Seq(Cells(p.body))
    /\ p.body # << >> =>
        LET c == p.body[1]
        IN  /\ p.type = "Main" => c = [kind |-> "main", slice |-> c.slice, ids |-> c.ids]
            /\ p.type = "FileDesc" =>
                c = [kind |-> "desc", id |-> c.id, size |-> c.size, name |-> c.name]
            /\ p.type = "IFSC" => c = [kind |-> "sums", id |-> c.id, slices |-> c.slices]

\* A cell that is, or damage may turn into, the one that is wanted.
MayBe(cell, wanted) ==
    \/ cell = wanted
    \/ wanted.kind = "junk"
    \/ cell.kind = "head" /\ wanted.kind = "head" /\ cell.packet = wanted.packet

\* The last cell of the packet of a header, and whether all of it is there.
End(file, i) == i + Len(file[i].packet.body)
WholeAt(file, i) ==
    /\ file[i].kind = "head" /\ End(file, i) <= Len(file)
    /\ \A k \in DOMAIN file[i].packet.body : MayBe(file[i + k], file[i].packet.body[k])

\* A packet that starts in the body of another one ends there, too, unless it
\* is not whole.
ASSUME StoredAssumption ==
    \A fs \in Stored :
        /\ fs \in Seq(Seq(UNION { Cells(fs[i]) : i \in DOMAIN fs }))
        /\ \A c \in Heads(fs) : {"kind", "packet", "length"} \subseteq DOMAIN c /\ WellFormed(c.packet)
        /\ \A f \in DOMAIN fs : \A i, j \in DOMAIN fs[f] :
            WholeAt(fs[f], i) /\ WholeAt(fs[f], j) /\ i < j /\ j <= End(fs[f], i)
                => End(fs[f], j) <= End(fs[f], i)

VARIABLES
    stored,     \* the files as they were written
    files,      \* the files as they are now
    damage,     \* how often they were damaged
    cut,        \* whether a file lost its end
    pc,         \* "stored", "parse", "ok" or the error: "unreadable", "nomain", "missing"
    path,       \* the file being parsed
    queue,      \* packets of that file that are still to be taken
    haveMain, setID, sliceSize, order, seen, recovery, creator, parsed

parseVars == <<haveMain, setID, sliceSize, order, seen, recovery, creator, parsed>>
fileVars == <<stored, files, damage, cut>>
vars == <<fileVars, pc, path, queue, parseVars>>

-----------------------------------------------------------------------------
(***************************************************************************)
(* Writing.  A set is a record with the fields id, slice, files, recovery  *)
(* (a function from exponents to cells) and creator.  Its files are        *)
(* different ones, each with as many checksums as it has slices.           *)
(***************************************************************************)
ASSUME SetsAssumption ==
    \A s \in Sets :
        /\ s.id # "" /\ s.slice \in Nat \ {0}
        /\ s.files \in Seq(ToSet(s.files))
        /\ \A i \in DOMAIN s.files :
            LET f == s.files[i]
            IN  /\ f.name # "" /\ f.size \in Nat
                /\ Len(f.slices) = (f.size + s.slice - 1) \div s.slice
        /\ \A i, j \in DOMAIN s.files : s.files[i].id = s.files[j].id => i = j
        /\ IsFiniteSet(DOMAIN s.recovery)
        /\ \A e \in DOMAIN s.recovery : s.recovery[e] \in Seq(ToSet(s.recovery[e]))

Packet(id, type, body) == [set |-> id, type |-> type, body |-> body]

MainPacket(s) ==
    Packet(s.id, "Main",
           <<[kind |-> "main", slice |-> s.slice, ids |-> [i \in DOMAIN s.files |-> s.files[i].id]]>>)

DescPacket(s, f) ==
    Packet(s.id, "FileDesc", <<[kind |-> "desc", id |-> f.id, size |-> f.size, name |-> f.name]>>)

SumsPacket(s, f) == Packet(s.id, "IFSC", <<[kind |-> "sums", id |-> f.id, slices |-> f.slices]>>)

RecoveryPacket(s, e) ==
    Packet(s.id, "RecvSlic", <<[kind |-> "exponent", exponent |-> e]>> \o s.recovery[e])

CreatorPacket(s) == Packet(s.id, "Creator", <<[kind |-> "creator", by |-> s.creator]>>)

CriticalPackets(s) ==
    <<MainPacket(s)>>
    \o FlattenSeq([i \in DOMAIN s.files |-> <<DescPacket(s, s.files[i]), SumsPacket(s, s.files[i])>>])
    \o (IF s.creator # "" THEN <<CreatorPacket(s)>> ELSE << >>)

\* Packet.Bytes
Bytes(p) == <<[kind |-> "head", packet |-> p, length |-> Len(p.body) + 1]>> \o p.body
Stream(packets) == FlattenSeq([i \in DOMAIN packets |-> Bytes(packets[i])])

WriteIndex(s) == Stream(CriticalPackets(s))

\* Mutant of WriteVolume: only the interleaved copies of the critical packets.
WriteVolumeSparse(s, exponents) ==
    LET crit == CriticalPackets(s)
    IN  Stream(FlattenSeq([i \in DOMAIN exponents |->
                  <<RecoveryPacket(s, exponents[i]), crit[((i - 1) % Len(crit)) + 1]>>]))

\* Each recovery packet is followed by the next of the critical ones, and all
\* of these follow at the end.
WriteVolume(s, exponents) ==
    LET crit == CriticalPackets(s)
    IN  Stream(FlattenSeq([i \in DOMAIN exponents |->
                  <<RecoveryPacket(s, exponents[i]), crit[((i - 1) % Len(crit)) + 1]>>])
               \o crit)

-----------------------------------------------------------------------------
(***************************************************************************)
(* ReadPackets.  Behind a packet that is intact the scan resumes at its    *)
(* end, behind one that is not right after the magic that was recognised.  *)
(***************************************************************************)
IntactAt(data, off) ==
    /\ data[off].kind = "head"
    /\ data[off].length \in 1 .. Len(data) - off + 1
    /\ SubSeq(data, off + 1, off + data[off].length - 1) = data[off].packet.body

\* Mutant of ReadPackets: the length of a damaged packet is believed.
ReadPacketsByLength(data) ==
    LET read[off \in 1 .. Len(data) + 1] ==
            IF off > Len(data) THEN << >>
            ELSE IF IntactAt(data, off) THEN <<data[off].packet>> \o read[off + data[off].length]
            ELSE IF data[off].kind = "head" /\ data[off].length \in 1 .. Len(data) - off + 1
                 THEN read[off + data[off].length]
            ELSE read[off + 1]
    IN  read[1]

ReadPackets(data) ==
    LET read[off \in 1 .. Len(data) + 1] ==
            IF off > Len(data) THEN << >>
            ELSE IF IntactAt(data, off) THEN <<data[off].packet>> \o read[off + data[off].length]
            ELSE read[off + 1]
    IN  read[1]

-----------------------------------------------------------------------------
(***************************************************************************)
(* What happens to the files before they are parsed.                       *)
(***************************************************************************)
EmptyMap == [x \in {} |-> x]

\* A map with a new value, and one in which the first value stays.
With(map, key, value) ==
    [k \in DOMAIN map \cup {key} |-> IF k = key THEN value ELSE map[k]]
FirstOf(map, key, value) == IF key \in DOMAIN map THEN map ELSE With(map, key, value)

Init ==
    /\ stored \in Stored /\ files = stored
    /\ damage = 0 /\ cut = FALSE
    /\ pc = "stored" /\ path = 0 /\ queue = << >>
    /\ haveMain = FALSE /\ setID = "" /\ sliceSize = 0 /\ order = << >>
    /\ seen = EmptyMap /\ recovery = EmptyMap /\ creator = "" /\ parsed = << >>

\* A damaged cell is junk, or a header with another length.
Damages(cell) ==
    {[kind |-> "junk"]} \cup
    (IF cell.kind = "head"
     THEN {[cell EXCEPT !.length = n] : n \in Lengths}
     ELSE {})

Spoil ==
    /\ pc = "stored" /\ damage < MaxDamage
    /\ \E i \in DOMAIN files : \E j \in DOMAIN files[i] :
        \E cell \in Damages(files[i][j]) : files' = [files EXCEPT ![i][j] = cell]
    /\ damage' = damage + 1
    /\ UNCHANGED <<stored, cut, pc, path, queue, parseVars>>

Truncate ==
    /\ pc = "stored" /\ damage < MaxDamage
    /\ \E i \in DOMAIN files : \E n \in 0 .. Len(files[i]) - 1 :
        files' = [files EXCEPT ![i] = SubSeq(@, 1, n)]
    /\ cut' = TRUE
    /\ damage' = damage + 1
    /\ UNCHANGED <<stored, pc, path, queue, parseVars>>

-----------------------------------------------------------------------------
(***************************************************************************)
(* Parse: file after file, packet after packet.                            *)
(***************************************************************************)
FileEnded == pc \in {"stored", "parse"} /\ queue = << >>

OpenFile ==
    /\ FileEnded /\ path < Len(files)
    /\ path' = path + 1
    /\ queue' = ReadPackets(files[path + 1])
    /\ pc' = "parse"
    /\ UNCHANGED <<fileVars, parseVars>>

OpenFails ==
    /\ FileEnded /\ path < Len(files)
    /\ pc' = "unreadable"
    /\ UNCHANGED <<fileVars, path, queue, parseVars>>

Foreign(p) == haveMain /\ p.set # setID

\* The types Parse looks at; all bodies but empty ones are long enough here.
Known == {"Main", "FileDesc", "IFSC", "RecvSlic", "Creator"}
Content == Head(queue).body[1]

TakeNext ==
    /\ pc = "parse" /\ queue # << >>
    /\ queue' = Tail(queue)
    /\ UNCHANGED <<fileVars, pc, path>>

Take(type) ==
    /\ TakeNext
    /\ ~Foreign(Head(queue)) /\ Head(queue).type = type
    /\ Head(queue).body # << >>

Skip ==
    /\ TakeNext
    /\ \/ Foreign(Head(queue))
       \/ Head(queue).type \notin Known \/ Head(queue).body = << >>
       \/ Head(queue).type = "Main" /\ haveMain
    /\ UNCHANGED parseVars

\* Mutant of TakeMain: which set the packet belongs to is not remembered.
TakeMainOfAnySet ==
    /\ Take("Main") /\ ~haveMain
    /\ haveMain' = TRUE
    /\ sliceSize' = Content.slice /\ order' = Content.ids
    /\ UNCHANGED <<setID, seen, recovery, creator, parsed>>

TakeMain ==
    /\ Take("Main") /\ ~haveMain
    /\ haveMain' = TRUE /\ setID' = Head(queue).set
    /\ sliceSize' = Content.slice /\ order' = Content.ids
    /\ UNCHANGED <<seen, recovery, creator, parsed>>

SlicesSeen(id) == IF id \in DOMAIN seen THEN seen[id].slices ELSE << >>

\* Mutant of TakeFileDesc: checksums that came before it are lost.
TakeFileDescAfresh ==
    /\ Take("FileDesc")
    /\ seen' = With(seen, Content.id, [size |-> Content.size, name |-> Content.name,
                                       slices |-> << >>])
    /\ UNCHANGED <<haveMain, setID, sliceSize, order, recovery, creator, parsed>>

TakeFileDesc ==
    /\ Take("FileDesc")
    /\ seen' = With(seen, Content.id, [size |-> Content.size, name |-> Content.name,
                                       slices |-> SlicesSeen(Content.id)])
    /\ UNCHANGED <<haveMain, setID, sliceSize, order, recovery, creator, parsed>>

\* Mutant of TakeIFSC: checksums that come before the description are dropped.
TakeIFSCInOrder ==
    /\ Take("IFSC")
    /\ seen' = IF SlicesSeen(Content.id) = << >> /\ Content.id \in DOMAIN seen
               THEN [seen EXCEPT ![Content.id].slices = Content.slices] ELSE seen
    /\ UNCHANGED <<haveMain, setID, sliceSize, order, recovery, creator, parsed>>

\* Checksums without a description make an entry without a name; the first
\* checksums of a file are kept.
TakeIFSC ==
    /\ Take("IFSC")
    /\ LET old == IF Content.id \in DOMAIN seen THEN seen[Content.id]
                  ELSE [size |-> 0, name |-> "", slices |-> << >>]
       IN  seen' = With(seen, Content.id, IF old.slices # << >> THEN old
                                          ELSE [old EXCEPT !.slices = Content.slices])
    /\ UNCHANGED <<haveMain, setID, sliceSize, order, recovery, creator, parsed>>

\* The first slice of an exponent is kept.
TakeRecovery ==
    /\ Take("RecvSlic")
    /\ recovery' = FirstOf(recovery, Content.exponent, Tail(Head(queue).body))
    /\ UNCHANGED <<haveMain, setID, sliceSize, order, seen, creator, parsed>>

TakeCreator ==
    /\ Take("Creator")
    /\ creator' = Content.by
    /\ UNCHANGED <<haveMain, setID, sliceSize, order, seen, recovery, parsed>>

-----------------------------------------------------------------------------
AllRead == pc = "parse" /\ queue = << >> /\ path = Len(files)

NoMain ==
    /\ AllRead /\ ~haveMain
    /\ pc' = "nomain"
    /\ UNCHANGED <<fileVars, path, queue, parseVars>>

MissingDescription ==
    /\ AllRead /\ haveMain
    /\ \E i \in DOMAIN order : order[i] \notin DOMAIN seen
    /\ pc' = "missing"
    /\ UNCHANGED <<fileVars, path, queue, parseVars>>

Finish ==
    /\ AllRead /\ haveMain
    /\ \A i \in DOMAIN order : order[i] \in DOMAIN seen
    /\ parsed' = [i \in DOMAIN order |-> seen[order[i]]]
    /\ pc' = "ok"
    /\ UNCHANGED <<fileVars, path, queue, haveMain, setID, sliceSize, order, seen, recovery, creator>>

Ended == {"ok", "nomain", "missing", "unreadable"}
Returned == pc \in Ended /\ UNCHANGED vars

Next ==
    \/ Spoil \/ Truncate
    \/ OpenFile \/ OpenFails \/ Skip
    \/ TakeMain \/ TakeFileDesc \/ TakeIFSC \/ TakeRecovery \/ TakeCreator
    \/ NoMain \/ MissingDescription \/ Finish \/ Returned

Spec == Init /\ [][Next]_vars

-----------------------------------------------------------------------------
(***************************************************************************)
(* What there was to be read: the packets that are intact and not part of  *)
(* another one that is, in the order of the files.                         *)
(***************************************************************************)
Outermost(data) ==
    { i \in DOMAIN data :
        /\ IntactAt(data, i)
        /\ \A j \in 1 .. i - 1 : IntactAt(data, j) => j + data[j].length <= i }

Surviving(data) ==
    LET outer == Outermost(data)
    IN  FlattenSeq([i \in DOMAIN data |-> IF i \in outer THEN <<data[i].packet>> ELSE << >>])

AllSurviving == FlattenSeq([i \in DOMAIN files |-> Surviving(files[i])])
FirstMain(packets) ==
    SelectInSeq(packets, LAMBDA p : p.type = "Main" /\ p.body # << >>)

\* The packets that belong to the set of the first main packet, if there is
\* one, and whether that comes before those of any other set.
Own(packets) ==
    { p \in ToSet(packets) :
        /\ FirstMain(packets) # 0
        /\ p.set = packets[FirstMain(packets)].set
        /\ p.body # << >> }
Unmixed(packets) ==
    FirstMain(packets) # 0 /\ ToSet(SubSeq(packets, 1, FirstMain(packets))) \subseteq Own(packets)

Contents(packets, type) == { p.body[1] : p \in {q \in packets : q.type = type} }

TypeOK ==
    /\ pc \in {"stored", "parse"} \cup Ended
    /\ damage \in 0 .. MaxDamage /\ cut \in BOOLEAN
    /\ path \in 0 .. Len(files) /\ Len(files) = Len(stored)
    /\ haveMain = (setID # "")
    /\ \A id \in DOMAIN seen : DOMAIN seen[id] = {"size", "name", "slices"}
    /\ pc = "ok" => DOMAIN parsed = DOMAIN order

\* Damage costs the packets it hits and no other: what is intact is read, in
\* order, wherever the damage is and whatever it made of a length.
\* (par2.go:66-68)
DamageIsLocal == pc = "stored" => \A i \in DOMAIN files : ReadPackets(files[i]) = Surviving(files[i])

\* The parsed set is made of the packets that survived and that belong to the
\* set of the first main packet, whatever their order and number, and whatever
\* other sets are read after it.  (par2.go:294)
ParsedFromSurvivors ==
    pc = "ok" =>
        LET packets == AllSurviving
            own == Own(packets)
            descs == Contents(own, "FileDesc")
            sums == Contents(own, "IFSC")
            slices == { p \in own : p.type = "RecvSlic" }
        IN  Unmixed(packets) =>
              /\ [kind |-> "main", slice |-> sliceSize, ids |-> order] \in Contents(own, "Main")
              /\ \A i \in DOMAIN order :
                   /\ IF \E d \in descs : d.id = order[i]
                      THEN [kind |-> "desc", id |-> order[i], size |-> parsed[i].size,
                            name |-> parsed[i].name] \in descs
                      ELSE parsed[i].size = 0 /\ parsed[i].name = ""
                   /\ IF \E c \in sums : c.id = order[i]
                      THEN [kind |-> "sums", id |-> order[i], slices |-> parsed[i].slices] \in sums
                      ELSE parsed[i].slices = << >>
              /\ DOMAIN recovery = { p.body[1].exponent : p \in slices }
              /\ \A e \in DOMAIN recovery :
                   \E p \in slices : p.body[1].exponent = e /\ recovery[e] = Tail(p.body)

\* Parse fails for no other reason than that no main packet survived, or
\* nothing that describes one of its files.  (par2.go:369-376)
FailsForAReason ==
    /\ pc = "nomain" => FirstMain(AllSurviving) = 0
    /\ pc = "missing" =>
        LET packets == AllSurviving
            own == Own(packets)
            described == { d.id : d \in Contents(own, "FileDesc") \cup Contents(own, "IFSC") }
        IN  Unmixed(packets) => ~(ToSet(order) \subseteq described)

\* A file that Parse knows the name and every checksum of.
Whole(f) ==
    /\ f.name # ""
    /\ Len(f.slices) = (f.size + sliceSize - 1) \div sliceSize

\* The packets of a set, and the files that they may be written to.
PacketsOf(s) ==
    {MainPacket(s), CreatorPacket(s)}
    \cup { DescPacket(s, s.files[i]) : i \in DOMAIN s.files }
    \cup { SumsPacket(s, s.files[i]) : i \in DOMAIN s.files }
    \cup { RecoveryPacket(s, e) : e \in DOMAIN s.recovery }
FilesOf(s) ==
    {WriteIndex(s)}
    \cup { WriteVolume(s, es) : es \in SeqOf(DOMAIN s.recovery, Cardinality(DOMAIN s.recovery)) }

\* All files are of one set, and none of its slices holds a packet of another one.
OfOneSet ==
    { fs \in Stored : \E s \in Sets :
        /\ \A i \in DOMAIN fs : fs[i] \in FilesOf(s)
        /\ \A c \in Heads(fs) : c.packet \in PacketsOf(s) }

\* Every file repeats all that describes the set (par2.go:263-264), so fewer
\* damages than there are files leave the set whole.
EachFileIsEnough ==
    pc \in Ended \ {"unreadable"} /\ stored \in OfOneSet /\ damage < Len(stored) =>
        pc = "ok" /\ \A i \in DOMAIN parsed : Whole(parsed[i])
=============================================================================
