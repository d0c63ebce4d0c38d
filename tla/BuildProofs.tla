----------------------------- MODULE BuildProofs -----------------------------
(***************************************************************************)
(* What is proved about builds over one disk, for every set of chunks,     *)
(* units, processes and requests: a package that opens is whole, a         *)
(* constraint model that loads is of one emission, and the outcome of a    *)
(* build that ran alone agrees with itself.                                *)
(*                                                                         *)
(* The argument has two parts.  Whatever happens, a file of the output     *)
(* directory is torn or is one that a single emission of an accepted model *)
(* writes at that path; the hashes of the readers then leave one emission  *)
(* only.  And an emission that nobody joined has each of its files on disk *)
(* or still to be written, so that all of them are there at its end.       *)
(***************************************************************************)
EXTENDS Build, TLAPS

PartitionsFile == <<Out, "ccm", "partitions">>
Named == DOMAIN Decisions.partitions
WritesOf(e) == Range(emit_writes(e, Decisions.partitions[e]))

IsSequence(s) == s \in Seq(Range(s))

DiskOK(d) == \A path \in DOMAIN d : path[1] = Out =>
    d[path] = Torn \/ emitted_by(Decisions.partitions, Write(path, d[path]))

\* What a process has left to write: the files of a unit, or files of its
\* emission and the lock, nothing but the lock after the partition manifest.
UnitFiles(todo) == \A i \in 1 .. Len(todo) : todo[i].path[1] # Out /\ todo[i].path # LockPath
EmissionFiles(todo, e) ==
    /\ \A i \in 1 .. Len(todo) : todo[i] \in WritesOf(e) \/ todo[i].path = LockPath
    /\ \A i, k \in 1 .. Len(todo) : i < k /\ todo[i].path = PartitionsFile => todo[k].path = LockPath
WriterShape(j) ==
    /\ j = [state |-> "writing", todo |-> j.todo, step |-> j.step, mixed |-> j.mixed,
            emission |-> j.emission, alone |-> j.alone, force_lock |-> j.force_lock]
    /\ IsSequence(j.todo) /\ j.todo # <<>>
WriterFiles(j) ==
    \/ j.emission = NoEmission /\ UnitFiles(j.todo)
    \/ j.emission \in Named /\ EmissionFiles(j.todo, j.emission)
Loader(j) == j.state = "loading" /\ all_chunks(j.headers) \in Decisions.staged /\ j.request \in Links
Writer(j) == WriterShape(j) /\ WriterFiles(j)
JobsOK(J) ==
    /\ J = [p \in Processes |-> J[p]]
    /\ \A p \in Processes : J[p] = Idle \/ Loader(J[p]) \/ Writer(J[p])

\* An emission that nobody joined: no other process emits, and its files are
\* on disk or still to be written.
OnDisk(d, w) == w.path \in DOMAIN d /\ d[w.path] = w.content
Alone(d, J, p) ==
    /\ J[p].mixed = FALSE
    /\ \A q \in Processes \ {p} : ~Emitting(J[q])
    /\ \A w \in WritesOf(J[p].emission) : OnDisk(d, w) \/ w \in Range(J[p].todo)
AloneOK(d, J) == \A p \in Processes : Emitting(J[p]) /\ J[p].alone => Alone(d, J, p)

\* After one that ran to its end, all its files are on disk, and who still
\* emits has only the lock left.
LockLeft(j) == \A i \in 1 .. Len(j.todo) : j.todo[i].path = LockPath
SettledOK(d, J, e) == e # NoEmission =>
    /\ e \in Named
    /\ \A w \in WritesOf(e) : OnDisk(d, w)
    /\ \A p \in Processes : Emitting(J[p]) => LockLeft(J[p])

BuildInv ==
    decided = Decisions /\ DiskOK(disk) /\ JobsOK(job) /\ AloneOK(disk, job) /\ SettledOK(disk, job, settled)

-----------------------------------------------------------------------------
(* ------------------------- The files of an emission -------------------- *)

ChunkWrite(c) == Write(ChunkFile(Out, c), [kind |-> "chunk", chunk_hash |-> c])
IndexWrite(C) == Write(IndexFile(Out), [kind |-> "index", chunks |-> C, config_hash |-> C])
CmpWrite(C) == Write(CmpManifestFile(Out), [kind |-> "cmp", model_hash |-> C])
PackageFiles(C) == {ChunkWrite(c) : c \in C} \cup {IndexWrite(C), CmpWrite(C)}

Symbols(e, n) == [kind |-> "symbols", of |-> e, part |-> n]
Bdd(e, n) == [kind |-> "bdd", of |-> e, part |-> n]
PartHash(e, n) == <<e.model, Symbols(e, n), Bdd(e, n)>>
PartManifest(e, n) == [kind |-> "part", bound |-> e.model, ccm_hash |-> PartHash(e, n)]
PartFiles(e, n) ==
    {Write(<<Out, n, "bdd">>, Bdd(e, n)), Write(<<Out, n, "symbols">>, Symbols(e, n)),
     Write(<<Out, n, "manifest">>, PartManifest(e, n))}
TopHash(e, names) ==
    compute_top_level_ccm_hash(e.model, names, [i \in DOMAIN names |-> PartHash(e, names[i])])
TopWrite(e, names) ==
    Write(<<Out, "ccm", "manifest">>, [kind |-> "top", bound |-> e.model, ccm_hash |-> TopHash(e, names)])
PartitionsWrite(e, names) ==
    Write(PartitionsFile, [kind |-> "partitions", names |-> names, ccm_hash |-> TopHash(e, names)])
CcmFiles(e, names) ==
    (UNION {PartFiles(e, n) : n \in Range(names)}) \cup {TopWrite(e, names), PartitionsWrite(e, names)}

\* A sequence is one over its own range.
LEMMA RangeOfSeq ==
    ASSUME NEW S, NEW s \in Seq(S)
    PROVE  IsSequence(s) /\ Range(s) = {s[i] : i \in 1 .. Len(s)}
  BY DEF Range, IsSequence

\* The range of a concatenation is the union of the ranges.
LEMMA RangeOfConcat ==
    ASSUME NEW s, NEW t, IsSequence(s), IsSequence(t)
    PROVE  IsSequence(s \o t) /\ Range(s \o t) = Range(s) \cup Range(t)
<1> DEFINE S == Range(s)
           T == Range(t)
           u == s \o t
<1>1. s \in Seq(S) /\ t \in Seq(T)
  BY DEF IsSequence
<1>2. Range(s) = {s[i] : i \in 1 .. Len(s)} /\ Range(t) = {t[i] : i \in 1 .. Len(t)}
  BY <1>1, RangeOfSeq, Zenon
<1> HIDE DEF S, T
<1>3. u \in Seq(S \cup T)
  BY <1>1
<1>4. IsSequence(u) /\ Range(u) = {u[i] : i \in 1 .. Len(u)}
  BY <1>3, RangeOfSeq, Zenon
<1>5. /\ \A i \in 1 .. Len(s) : u[i] = s[i] /\ i \in 1 .. Len(u)
      /\ \A i \in 1 .. Len(t) : u[i + Len(s)] = t[i] /\ i + Len(s) \in 1 .. Len(u)
  BY <1>1
<1>6. \A i \in 1 .. Len(u) :
        \/ i \in 1 .. Len(s) /\ u[i] = s[i]
        \/ i - Len(s) \in 1 .. Len(t) /\ u[i] = t[i - Len(s)]
  BY <1>1
<1> HIDE DEF u
<1>7. Range(u) \subseteq Range(s) \cup Range(t)
  BY <1>2, <1>4, <1>6, Zenon
<1>8. Range(s) \cup Range(t) \subseteq Range(u)
  BY <1>2, <1>4, <1>5, Zenon
<1>9. QED
  BY <1>4, <1>7, <1>8 DEF u

\* The sequence of two writes that ends a package, or a constraint model.
LEMMA RangeOfPair ==
    ASSUME NEW a, NEW b
    PROVE  IsSequence(<<a, b>>) /\ Range(<<a, b>>) = {a, b}
  BY DEF Range, IsSequence

\* The writes of a package are its chunks, the index and the manifest.
LEMMA PackageRange ==
    ASSUME NEW C \in Unions
    PROVE  /\ IsSequence(write_package(Out, C))
           /\ Range(write_package(Out, C)) = PackageFiles(C)
<1> DEFINE seq == chunk_order(C)
           last == <<IndexWrite(C), CmpWrite(C)>>
           chunks == chunk_writes(Out, C)
<1>1. seq \in Seq(C) /\ Range(seq) = C
  BY ChunkOrderAssumption
<1>2. chunks = [i \in 1 .. Len(seq) |-> ChunkWrite(seq[i])]
  BY <1>1 DEF chunk_writes, ChunkWrite
<1>3. Range(seq) = {seq[i] : i \in 1 .. Len(seq)}
  BY <1>1, RangeOfSeq
<1>4. chunks \in Seq({ChunkWrite(c) : c \in C}) /\ Len(chunks) = Len(seq)
  <2> HIDE DEF chunks, seq
  <2>1. \A i \in 1 .. Len(seq) : ChunkWrite(seq[i]) \in {ChunkWrite(c) : c \in C}
    BY <1>1
  <2>2. Len(seq) \in Nat
    BY <1>1
  <2> HIDE DEF ChunkWrite
  <2>3. QED
    BY <1>2, <2>1, <2>2
<1>5. Range(chunks) = {ChunkWrite(c) : c \in C}
  <2>1. Range(chunks) = {chunks[i] : i \in 1 .. Len(seq)}
    BY <1>4, RangeOfSeq
  <2> HIDE DEF chunks, seq
  <2>2. QED
    BY <1>1, <1>2, <1>3, <2>1, Zenon
<1>6. IsSequence(last) /\ Range(last) = {IndexWrite(C), CmpWrite(C)}
  BY RangeOfPair, Zenon
<1>7. write_package(Out, C) = chunks \o last
  BY DEF write_package, IndexWrite, CmpWrite
<1>8. IsSequence(chunks)
  BY <1>4, RangeOfSeq, Zenon
<1> HIDE DEF chunks, last
<1>9. IsSequence(chunks \o last) /\ Range(chunks \o last) = Range(chunks) \cup Range(last)
  BY <1>6, <1>8, RangeOfConcat, Zenon
<1>10. QED
  BY <1>5, <1>6, <1>7, <1>9, Zenon DEF PackageFiles

\* The three files of a partition.
LEMMA PartitionFiles ==
    ASSUME NEW e, NEW n
    PROVE  /\ Range(partition_writes(Out, e, n)) = PartFiles(e, n)
           /\ \A j \in 1 .. 3 : partition_writes(Out, e, n)[j] \in PartFiles(e, n)
           /\ \A w \in PartFiles(e, n) : \E j \in 1 .. 3 : partition_writes(Out, e, n)[j] = w
           /\ partition_hash(e, n) = PartHash(e, n)
<1> DEFINE a == Write(<<Out, n, "bdd">>, Bdd(e, n))
           b == Write(<<Out, n, "symbols">>, Symbols(e, n))
           c == Write(<<Out, n, "manifest">>, PartManifest(e, n))
<1>1. partition_writes(Out, e, n) = <<a, b, c>>
  BY DEF partition_writes, Bdd, Symbols, PartManifest, PartHash
<1>2. PartFiles(e, n) = {a, b, c}
  BY DEF PartFiles
<1>3. partition_hash(e, n) = PartHash(e, n)
  BY Zenon DEF partition_hash, partition_writes, PartHash, Symbols, Bdd, Write
<1> HIDE DEF a, b, c
<1>4. QED
  BY <1>1, <1>2, <1>3 DEF Range

\* The files of the partitions, three by three.
LEMMA AllPartitionFiles ==
    ASSUME NEW e, NEW names \in Seq(PartitionNames)
    PROVE  LET parts == UNION {PartFiles(e, n) : n \in Range(names)}
           IN  /\ IsSequence(all_partition_writes(Out, e, names))
               /\ Range(all_partition_writes(Out, e, names)) = parts
<1> DEFINE parts == UNION {PartFiles(e, n) : n \in Range(names)}
           s == all_partition_writes(Out, e, names)
           at_(k) == ((k - 1) \div 3) + 1
           in_(k) == ((k - 1) % 3) + 1
<1>1. Range(names) = {names[i] : i \in 1 .. Len(names)} /\ Len(names) \in Nat
  BY RangeOfSeq
<1>2. \A k \in 1 .. 3 * Len(names) : at_(k) \in 1 .. Len(names) /\ in_(k) \in 1 .. 3
  BY <1>1
<1>3. \A i \in 1 .. Len(names), j \in 1 .. 3 :
        LET k == 3 * (i - 1) + j IN k \in 1 .. 3 * Len(names) /\ at_(k) = i /\ in_(k) = j
  BY <1>1
<1>4. s = [k \in 1 .. 3 * Len(names) |-> partition_writes(Out, e, names[at_(k)])[in_(k)]]
  BY DEF all_partition_writes
<1>5. 3 * Len(names) \in Nat
  BY <1>1
<1> HIDE DEF at_, in_, s
<1>6. ASSUME NEW k \in 1 .. 3 * Len(names) PROVE s[k] \in parts
  <2>1. at_(k) \in 1 .. Len(names) /\ in_(k) \in 1 .. 3 /\ names[at_(k)] \in Range(names)
    BY <1>1, <1>2, Zenon
  <2>2. s[k] = partition_writes(Out, e, names[at_(k)])[in_(k)]
    BY <1>4, Zenon
  <2>3. s[k] \in PartFiles(e, names[at_(k)])
    BY <2>1, <2>2, PartitionFiles
  <2>4. QED
    BY <2>1, <2>3, Zenon
<1>7. s \in Seq(parts) /\ Len(s) = 3 * Len(names)
  <2> HIDE DEF parts
  <2>1. QED
    BY <1>4, <1>5, <1>6
<1>8. IsSequence(s) /\ Range(s) = {s[k] : k \in 1 .. 3 * Len(names)}
  BY <1>7, RangeOfSeq, Zenon
<1>9. ASSUME NEW w \in parts PROVE w \in Range(s)
  <2>1. PICK i \in 1 .. Len(names) : w \in PartFiles(e, names[i])
    BY <1>1
  <2>2. PICK j \in 1 .. 3 : partition_writes(Out, e, names[i])[j] = w
    BY <2>1, PartitionFiles
  <2>3. QED
    BY <1>3, <1>4, <1>8, <2>2, Zenon
<1>10. Range(s) \subseteq parts
  BY <1>6, <1>8, Zenon
<1>11. QED
  BY <1>8, <1>9, <1>10, Zenon DEF s

\* The writes of a constraint model are the files of its partitions and the
\* two manifests.
LEMMA CcmRange ==
    ASSUME NEW e, NEW names \in Seq(PartitionNames)
    PROVE  /\ IsSequence(emit_ccm_dir(Out, e, names))
           /\ Range(emit_ccm_dir(Out, e, names)) = CcmFiles(e, names)
<1> DEFINE parts == all_partition_writes(Out, e, names)
           last == <<TopWrite(e, names), PartitionsWrite(e, names)>>
<1>1. IsSequence(parts) /\ Range(parts) = UNION {PartFiles(e, n) : n \in Range(names)}
  BY AllPartitionFiles, Zenon
<1>2. IsSequence(last) /\ Range(last) = {TopWrite(e, names), PartitionsWrite(e, names)}
  BY RangeOfPair, Zenon
<1>3. [i \in DOMAIN names |-> partition_hash(e, names[i])] = [i \in DOMAIN names |-> PartHash(e, names[i])]
  BY PartitionFiles, Zenon
<1>4. emit_ccm_dir(Out, e, names) = parts \o last
  BY <1>3, Zenon DEF emit_ccm_dir, TopWrite, PartitionsWrite, TopHash, PartitionsFile
<1> HIDE DEF parts, last
<1>5. IsSequence(parts \o last) /\ Range(parts \o last) = Range(parts) \cup Range(last)
  BY <1>1, <1>2, RangeOfConcat, Zenon
<1>6. QED
  BY <1>1, <1>2, <1>4, <1>5, Zenon DEF CcmFiles

\* An emission of the compiler is of a model it accepted.
LEMMA EmissionKnown ==
    ASSUME NEW e \in Named
    PROVE  /\ e.model \in Unions /\ e.model \in accepted(Decisions) /\ e # NoEmission
           /\ Decisions.partitions[e] \in Seq(PartitionNames)
<1>1. /\ e \in Emissions /\ e.model \in accepted(Decisions)
      /\ Decisions.partitions[e] \in Seq(PartitionNames)
  BY DecisionsAssumption DEF Named
<1>2. PICK C \in Unions, k \in ClusterSizes : e = [model |-> C, cluster |-> k]
  BY <1>1 DEF Emissions, Emission
<1>3. e.model \in Unions /\ e # NoEmission
  BY <1>2 DEF NoEmission
<1>4. QED
  BY <1>1, <1>3

\* Its files are those of the package and of the constraint model.
LEMMA EmissionRange ==
    ASSUME NEW e \in Named
    PROVE  LET names == Decisions.partitions[e]
           IN  /\ IsSequence(emit_writes(e, names))
               /\ WritesOf(e) = PackageFiles(e.model) \cup CcmFiles(e, names)
<1> DEFINE names == Decisions.partitions[e]
           s == write_package(Out, e.model)
           t == emit_ccm_dir(Out, e, names)
<1>1. e.model \in Unions /\ names \in Seq(PartitionNames)
  BY EmissionKnown
<1>2. IsSequence(s) /\ Range(s) = PackageFiles(e.model)
  BY <1>1, PackageRange, Zenon
<1>3. IsSequence(t) /\ Range(t) = CcmFiles(e, names)
  BY <1>1, CcmRange, Zenon
<1>4. emit_writes(e, names) = s \o t
  BY DEF emit_writes
<1> HIDE DEF s, t, names
<1>5. IsSequence(s \o t) /\ Range(s \o t) = Range(s) \cup Range(t)
  BY <1>2, <1>3, RangeOfConcat, Zenon
<1>6. QED
  BY <1>2, <1>3, <1>4, <1>5, Zenon DEF WritesOf, names

\* What an emission writes at a path.
ContentAt(e, path) ==
    LET names == Decisions.partitions[e]
        n == path[2]
    IN  CASE n = "chunk" -> [kind |-> "chunk", chunk_hash |-> path[3]]
          [] n = "cmp" /\ path[3] = "index" -> IndexWrite(e.model).content
          [] n = "cmp" /\ path[3] # "index" -> CmpWrite(e.model).content
          [] n = "ccm" /\ path[3] = "manifest" -> TopWrite(e, names).content
          [] n = "ccm" /\ path[3] # "manifest" -> PartitionsWrite(e, names).content
          [] OTHER -> CASE path[3] = "bdd" -> Bdd(e, n)
                        [] path[3] = "symbols" -> Symbols(e, n)
                        [] OTHER -> PartManifest(e, n)

\* So the path of a file tells its content within an emission.
LEMMA PathTellsContent ==
    ASSUME NEW e \in Named, NEW w \in WritesOf(e)
    PROVE  w = Write(w.path, ContentAt(e, w.path)) /\ w.path[1] = Out /\ w.path # LockPath
<1> DEFINE names == Decisions.partitions[e]
           Told(x) == x = Write(x.path, ContentAt(e, x.path)) /\ x.path[1] = Out /\ x.path # LockPath
<1>1. names \in Seq(PartitionNames)
  BY EmissionKnown
<1>2. w \in PackageFiles(e.model) \cup CcmFiles(e, names)
  BY EmissionRange, Zenon
<1>3. ASSUME NEW c, w = ChunkWrite(c) PROVE Told(w)
  BY <1>3 DEF ChunkWrite, ChunkFile, Write, ContentAt, Out, LockPath
<1>4. ASSUME w = IndexWrite(e.model) PROVE Told(w)
  BY <1>4 DEF IndexWrite, IndexFile, Write, ContentAt, Out, LockPath
<1>5. ASSUME w = CmpWrite(e.model) PROVE Told(w)
  BY <1>5 DEF CmpWrite, CmpManifestFile, Write, ContentAt, Out, LockPath
<1>6. ASSUME w = TopWrite(e, names) PROVE Told(w)
  BY <1>6 DEF TopWrite, Write, ContentAt, Out, LockPath
<1>7. ASSUME w = PartitionsWrite(e, names) PROVE Told(w)
  BY <1>7 DEF PartitionsWrite, PartitionsFile, Write, ContentAt, Out, LockPath
<1>8. ASSUME NEW n \in PartitionNames, w \in PartFiles(e, n) PROVE Told(w)
  <2>1. n # "chunk" /\ n # "cmp" /\ n # "ccm"
    BY PartitionNamesAssumption
  <2>2. QED
    BY <1>8, <2>1 DEF PartFiles, Write, ContentAt, Out, LockPath
<1>9. Range(names) \subseteq PartitionNames
  BY <1>1 DEF Range
<1> HIDE DEF names, Told
<1>10. Told(w)
  BY <1>2, <1>3, <1>4, <1>5, <1>6, <1>7, <1>8, <1>9, Zenon DEF PackageFiles, CcmFiles
<1>11. QED
  BY <1>10 DEF Told

\* The partition manifest is the last file of an emission, and only there.
LEMMA PartitionsLast ==
    ASSUME NEW e \in Named
    PROVE  LET s == emit_writes(e, Decisions.partitions[e])
           IN  /\ Len(s) \in Nat \ {0}
               /\ \A i \in 1 .. Len(s) - 1 : s[i].path # PartitionsFile
<1> DEFINE names == Decisions.partitions[e]
           s == write_package(Out, e.model)
           t == all_partition_writes(Out, e, names)
           a == TopWrite(e, names)
           b == PartitionsWrite(e, names)
           u == s \o (t \o <<a, b>>)
<1>1. e.model \in Unions /\ names \in Seq(PartitionNames)
  BY EmissionKnown
<1>2. IsSequence(s) /\ Range(s) = PackageFiles(e.model)
  BY <1>1, PackageRange, Zenon
<1>3. IsSequence(t) /\ Range(t) = UNION {PartFiles(e, n) : n \in Range(names)}
  BY <1>1, AllPartitionFiles, Zenon
<1>4. emit_writes(e, names) = u
  <2>1. [i \in DOMAIN names |-> partition_hash(e, names[i])] = [i \in DOMAIN names |-> PartHash(e, names[i])]
    BY PartitionFiles, Zenon
  <2>2. QED
    BY <2>1, Zenon DEF emit_writes, emit_ccm_dir, TopWrite, PartitionsWrite, TopHash, PartitionsFile
<1>5. \A w \in PackageFiles(e.model) : w.path # PartitionsFile
  BY DEF PackageFiles, ChunkWrite, ChunkFile, IndexWrite, IndexFile, CmpWrite, CmpManifestFile, Write,
         PartitionsFile
<1>6. \A n \in Range(names) : \A w \in PartFiles(e, n) : w.path # PartitionsFile
  <2>1. \A n \in Range(names) : n \in PartitionNames
    BY <1>1 DEF Range
  <2>2. \A n \in Range(names) : n # "ccm"
    BY <2>1, PartitionNamesAssumption
  <2>3. QED
    BY <2>2 DEF PartFiles, Write, PartitionsFile
<1>7. a.path # PartitionsFile
  BY DEF TopWrite, Write, PartitionsFile
<1> HIDE DEF names, s, t, a, b
<1>8. s \in Seq(Range(s)) /\ t \in Seq(Range(t))
  BY <1>2, <1>3 DEF IsSequence
<1>9. /\ Len(u) = Len(s) + Len(t) + 2 /\ Len(s) \in Nat /\ Len(t) \in Nat
      /\ \A i \in 1 .. Len(u) - 1 : u[i] \in Range(s) \/ u[i] \in Range(t) \/ u[i] = a
  <2> DEFINE S == Range(s)
             T == Range(t)
             v == t \o <<a, b>>
  <2>1. s \in Seq(S) /\ t \in Seq(T)
    BY <1>8
  <2> HIDE DEF S, T
  <2>2. /\ v \in Seq(T \cup {a, b}) /\ Len(v) = Len(t) + 2
        /\ \A i \in 1 .. Len(v) - 1 : v[i] \in T \/ v[i] = a
    BY <2>1
  <2>3. /\ Len(s) \in Nat /\ Len(t) \in Nat
    BY <2>1
  <2> HIDE DEF v
  <2>4. /\ Len(s \o v) = Len(s) + Len(v)
        /\ \A i \in 1 .. Len(s \o v) - 1 :
              (s \o v)[i] \in S \/ (i - Len(s) \in 1 .. Len(v) - 1 /\ (s \o v)[i] = v[i - Len(s)])
    BY <2>1, <2>2, <2>3
  <2>5. \A i \in 1 .. Len(s \o v) - 1 : (s \o v)[i] \in S \/ (s \o v)[i] \in T \/ (s \o v)[i] = a
    BY <2>2, <2>4, Zenon
  <2>6. QED
    BY <2>2, <2>3, <2>4, <2>5 DEF v, S, T
<1> HIDE DEF u
<1>10. \A i \in 1 .. Len(u) - 1 : u[i].path # PartitionsFile
  BY <1>2, <1>3, <1>5, <1>6, <1>7, <1>9, Zenon
<1>11. Len(u) \in Nat \ {0}
  BY <1>9
<1>12. QED
  BY <1>4, <1>10, <1>11, Zenon DEF names

-----------------------------------------------------------------------------
(* ------------------------------- Readers ------------------------------- *)

\* A readable file of the output directory is some emission's.
LEMMA ReadableIsEmitted ==
    ASSUME DiskOK(disk), NEW n, NEW f, readable(disk, <<Out, n, f>>)
    PROVE  \E e \in Named :
              /\ Write(<<Out, n, f>>, disk[<<Out, n, f>>]) \in WritesOf(e)
              /\ disk[<<Out, n, f>>] = ContentAt(e, <<Out, n, f>>)
<1> DEFINE path == <<Out, n, f>>
           w == Write(path, disk[path])
<1>1. path \in DOMAIN disk /\ disk[path] # Torn /\ path[1] = Out
  BY DEF readable
<1>2. PICK e \in Named : w \in WritesOf(e)
  BY <1>1 DEF DiskOK, emitted_by, Named, WritesOf
<1>3. w = Write(w.path, ContentAt(e, w.path)) /\ w.path = path
  BY <1>2, PathTellsContent DEF Write
<1>4. disk[path] = ContentAt(e, path)
  BY <1>3 DEF Write
<1>5. QED
  BY <1>2, <1>4

\* The package manifest and the index name the same chunks, so both are of one
\* model, and the chunk files are known by their hashes.
LEMMA WholeFromInv == ASSUME DiskOK(disk), decided = Decisions PROVE OpenPackageIsWhole
<1> DEFINE C == open_model(disk, Out)
           manifest == disk[CmpManifestFile(Out)]
           index == disk[IndexFile(Out)]
<1> SUFFICES ASSUME C # NoPackage
             PROVE  C \in accepted(Decisions) /\ \A w \in Range(write_package(Out, C)) : on_disk(w)
  BY DEF OpenPackageIsWhole
<1>1. /\ readable(disk, CmpManifestFile(Out)) /\ readable(disk, IndexFile(Out))
      /\ index.chunks = index.config_hash /\ index.config_hash = manifest.model_hash
      /\ verify_index_integrity(disk, Out, index.chunks)
      /\ C = manifest.model_hash
  BY Zenon DEF open_model
<1>2. PICK e \in Named : manifest = ContentAt(e, CmpManifestFile(Out))
  BY <1>1, ReadableIsEmitted DEF CmpManifestFile
<1>3. manifest = [kind |-> "cmp", model_hash |-> e.model] /\ C = e.model
  BY <1>1, <1>2 DEF ContentAt, CmpManifestFile, CmpWrite, Write
<1>4. PICK d \in Named : index = ContentAt(d, IndexFile(Out))
  BY <1>1, ReadableIsEmitted DEF IndexFile
<1>5. index = [kind |-> "index", chunks |-> d.model, config_hash |-> d.model]
  BY <1>4 DEF ContentAt, IndexFile, IndexWrite, Write
<1> HIDE DEF manifest, index, C
<1>6. index = [kind |-> "index", chunks |-> C, config_hash |-> C] /\ index.chunks = C
  BY <1>1, <1>3, <1>5
<1>7. C \in Unions /\ C \in accepted(Decisions)
  BY <1>3, EmissionKnown
<1>8. ASSUME NEW c \in C PROVE on_disk(ChunkWrite(c))
  <2>1. readable(disk, ChunkFile(Out, c))
    BY <1>1, <1>6, <1>8 DEF verify_index_integrity, chunk_readable
  <2>2. PICK b \in Named : disk[ChunkFile(Out, c)] = ContentAt(b, ChunkFile(Out, c))
    BY <2>1, ReadableIsEmitted DEF ChunkFile
  <2>3. disk[ChunkFile(Out, c)] = [kind |-> "chunk", chunk_hash |-> c]
    BY <2>2 DEF ContentAt, ChunkFile
  <2>4. QED
    BY <2>1, <2>3 DEF on_disk, ChunkWrite, Write, readable
<1>9. on_disk(IndexWrite(C))
  BY <1>1, <1>6 DEF on_disk, IndexWrite, Write, readable, index
<1>10. on_disk(CmpWrite(C))
  BY <1>1, <1>3 DEF on_disk, CmpWrite, Write, readable, manifest
<1>11. Range(write_package(Out, C)) = PackageFiles(C)
  BY <1>7, PackageRange
<1>12. QED
  BY <1>7, <1>8, <1>9, <1>10, <1>11, Zenon DEF PackageFiles

\* The top hash covers the partitions' names and hashes, and each of these its
\* emission: what the top manifest is from, all the files are from.
LEMMA LoadedFromInv == ASSUME DiskOK(disk), decided = Decisions PROVE LoadedCcmIsOneEmission
<1> DEFINE TopFile == <<Out, "ccm", "manifest">>
           top == disk[TopFile]
           pm == disk[PartitionsFile]
           part(n) == disk[<<Out, n, "manifest">>]
<1> SUFFICES ASSUME load_from_cmp(disk, Out) = "loaded"
             PROVE  \E e \in Named : \A w \in Range(emit_ccm_dir(Out, e, Decisions.partitions[e])) : on_disk(w)
  BY DEF LoadedCcmIsOneEmission, Named
<1>1. load_multi_part(disk, Out)
  BY DEF load_from_cmp
<1>2. /\ readable(disk, TopFile) /\ readable(disk, PartitionsFile)
      /\ \A i \in DOMAIN pm.names : load_partition(disk, Out, pm.names[i], top.bound)
      /\ top.ccm_hash = compute_top_level_ccm_hash(top.bound, pm.names,
                            [i \in DOMAIN pm.names |-> part(pm.names[i]).ccm_hash])
      /\ pm.ccm_hash = top.ccm_hash
  BY <1>1 DEF load_multi_part, PartitionsFile
<1>3. PICK d \in Named : top = ContentAt(d, TopFile)
  BY <1>2, ReadableIsEmitted
<1>4. PICK e \in Named : pm = ContentAt(e, PartitionsFile)
  BY <1>2, ReadableIsEmitted DEF PartitionsFile
<1> DEFINE names == Decisions.partitions[e]
<1>5. top = [kind |-> "top", bound |-> d.model, ccm_hash |-> TopHash(d, Decisions.partitions[d])]
  BY <1>3 DEF ContentAt, TopWrite, Write
<1>6. pm = [kind |-> "partitions", names |-> names, ccm_hash |-> TopHash(e, names)]
  BY <1>4 DEF ContentAt, PartitionsFile, PartitionsWrite, Write
<1>7. names \in Seq(PartitionNames)
  BY EmissionKnown
<1> HIDE DEF top, pm, names
<1>8. /\ pm.names = names /\ pm.ccm_hash = TopHash(e, names) /\ top.bound = d.model
      /\ top.ccm_hash = TopHash(d, Decisions.partitions[d]) /\ top.ccm_hash = TopHash(e, names)
  BY <1>2, <1>5, <1>6
<1>9. d.model = e.model
  BY <1>8 DEF TopHash, compute_top_level_ccm_hash
<1>10. top = [kind |-> "top", bound |-> e.model, ccm_hash |-> TopHash(e, names)]
  BY <1>5, <1>8, <1>9
<1>11. [i \in DOMAIN names |-> part(names[i]).ccm_hash] = [i \in DOMAIN names |-> PartHash(e, names[i])]
  BY <1>2, <1>8 DEF TopHash, compute_top_level_ccm_hash
<1>12. ASSUME NEW n \in Range(names) PROVE \A w \in PartFiles(e, n) : on_disk(w)
  <2>1. PICK i \in DOMAIN names : n = names[i]
    BY <1>12 DEF Range
  <2>2. load_partition(disk, Out, n, top.bound) /\ n \in PartitionNames
    BY <1>2, <1>7, <1>8, <2>1
  <2>3. part(n).ccm_hash = PartHash(e, n)
    <3> HIDE DEF part
    <3>1. QED
      BY <1>11, <2>1
  <2>4. n # "chunk" /\ n # "cmp" /\ n # "ccm"
    BY <2>2, PartitionNamesAssumption
  <2>5. /\ readable(disk, <<Out, n, "bdd">>) /\ readable(disk, <<Out, n, "symbols">>)
        /\ readable(disk, <<Out, n, "manifest">>)
        /\ part(n).ccm_hash = <<part(n).bound, disk[<<Out, n, "symbols">>], disk[<<Out, n, "bdd">>]>>
    BY <2>2 DEF load_partition
  <2>6. PICK b \in Named : part(n) = ContentAt(b, <<Out, n, "manifest">>)
    BY <2>5, ReadableIsEmitted
  <2>7. part(n) = PartManifest(b, n)
    BY <2>4, <2>6 DEF ContentAt
  <2>8. PartHash(b, n) = PartHash(e, n)
    BY <2>3, <2>7 DEF PartManifest
  <2>9. b.model = e.model
    BY <2>8 DEF PartHash
  <2>10. part(n) = PartManifest(e, n)
    BY <2>7, <2>8, <2>9 DEF PartManifest
  <2>11. disk[<<Out, n, "symbols">>] = Symbols(e, n) /\ disk[<<Out, n, "bdd">>] = Bdd(e, n)
    <3>1. <<part(n).bound, disk[<<Out, n, "symbols">>], disk[<<Out, n, "bdd">>]>>
            = <<e.model, Symbols(e, n), Bdd(e, n)>>
      BY <2>3, <2>5 DEF PartHash
    <3> HIDE DEF part
    <3>2. QED
      BY <3>1
  <2>12. QED
    BY <2>5, <2>10, <2>11 DEF PartFiles, on_disk, Write, readable
<1>13. on_disk(TopWrite(e, names))
  BY <1>2, <1>10 DEF on_disk, TopWrite, Write, readable, top
<1>14. on_disk(PartitionsWrite(e, names))
  BY <1>2, <1>6 DEF on_disk, PartitionsWrite, Write, readable, pm
<1>15. Range(emit_ccm_dir(Out, e, names)) = CcmFiles(e, names)
  BY <1>7, CcmRange
<1>16. \A w \in Range(emit_ccm_dir(Out, e, names)) : on_disk(w)
  BY <1>12, <1>13, <1>14, <1>15, Zenon DEF CcmFiles
<1>17. QED
  BY <1>16, Zenon DEF names

\* The files of one emission, all of them there, open as its package and load
\* as its constraint model.
LEMMA AgreesFromFiles ==
    ASSUME NEW e \in Named, \A w \in WritesOf(e) : OnDisk(disk, w)
    PROVE  /\ open_model(disk, Out) = e.model
           /\ load_from_cmp(disk, Out) = "loaded"
           /\ disk[<<Out, "ccm", "manifest">>].bound = e.model
<1> DEFINE names == Decisions.partitions[e]
           C == e.model
           TopFile == <<Out, "ccm", "manifest">>
<1>1. names \in Seq(PartitionNames)
  BY EmissionKnown
<1>2. \A w \in PackageFiles(C) \cup CcmFiles(e, names) : on_disk(w)
  BY EmissionRange, Zenon DEF on_disk, OnDisk
<1>3. /\ \A c \in C : on_disk(ChunkWrite(c))
      /\ on_disk(IndexWrite(C)) /\ on_disk(CmpWrite(C))
      /\ on_disk(TopWrite(e, names)) /\ on_disk(PartitionsWrite(e, names))
      /\ \A n \in Range(names) : \A w \in PartFiles(e, n) : on_disk(w)
  BY <1>2, Zenon DEF PackageFiles, CcmFiles
<1>4. ASSUME NEW c \in C PROVE chunk_readable(disk, Out, c)
  <2>1. on_disk(ChunkWrite(c))
    BY <1>3, <1>4, Zenon
  <2>2. disk[ChunkFile(Out, c)] = [kind |-> "chunk", chunk_hash |-> c] /\ ChunkFile(Out, c) \in DOMAIN disk
    BY <2>1, Zenon DEF on_disk, ChunkWrite, Write
  <2>3. QED
    BY <2>2 DEF chunk_readable, readable, Torn
<1>5. /\ readable(disk, IndexFile(Out)) /\ disk[IndexFile(Out)].chunks = C /\ disk[IndexFile(Out)].config_hash = C
  BY <1>3 DEF on_disk, IndexWrite, Write, readable, Torn
<1>6. readable(disk, CmpManifestFile(Out)) /\ disk[CmpManifestFile(Out)].model_hash = C
  BY <1>3 DEF on_disk, CmpWrite, Write, readable, Torn
<1>7. open_model(disk, Out) = C
  BY <1>4, <1>5, <1>6, Zenon DEF open_model, verify_index_integrity
<1>8. /\ readable(disk, TopFile) /\ disk[TopFile].bound = C /\ disk[TopFile].ccm_hash = TopHash(e, names)
  BY <1>3 DEF on_disk, TopWrite, Write, readable, Torn
<1>9. /\ readable(disk, PartitionsFile) /\ disk[PartitionsFile].names = names
      /\ disk[PartitionsFile].ccm_hash = TopHash(e, names)
  BY <1>3 DEF on_disk, PartitionsWrite, Write, readable, Torn
<1>10. ASSUME NEW n \in Range(names)
       PROVE  load_partition(disk, Out, n, C) /\ disk[<<Out, n, "manifest">>].ccm_hash = PartHash(e, n)
  <2>1. /\ on_disk(Write(<<Out, n, "bdd">>, Bdd(e, n)))
        /\ on_disk(Write(<<Out, n, "symbols">>, Symbols(e, n)))
        /\ on_disk(Write(<<Out, n, "manifest">>, PartManifest(e, n)))
    BY <1>3, <1>10 DEF PartFiles
  <2>2. /\ readable(disk, <<Out, n, "bdd">>) /\ disk[<<Out, n, "bdd">>] = Bdd(e, n)
        /\ readable(disk, <<Out, n, "symbols">>) /\ disk[<<Out, n, "symbols">>] = Symbols(e, n)
        /\ readable(disk, <<Out, n, "manifest">>) /\ disk[<<Out, n, "manifest">>] = PartManifest(e, n)
    BY <2>1, SMTT(30) DEF on_disk, Write, readable, Torn, Bdd, Symbols, PartManifest
  <2>3. PartManifest(e, n).bound = C /\ PartManifest(e, n).ccm_hash = <<C, Symbols(e, n), Bdd(e, n)>>
    BY DEF PartManifest, PartHash
  <2>4. QED
    BY <2>2, <2>3, Zenon DEF load_partition, PartHash
<1>11. \A i \in DOMAIN names : names[i] \in Range(names)
  BY DEF Range
<1> HIDE DEF names, C, TopFile
<1>12. [i \in DOMAIN names |-> disk[<<Out, names[i], "manifest">>].ccm_hash]
         = [i \in DOMAIN names |-> PartHash(e, names[i])]
  BY <1>10, <1>11, Zenon
<1>13. load_multi_part(disk, Out)
  BY <1>8, <1>9, <1>10, <1>11, <1>12, Zenon DEF load_multi_part, TopHash, C, TopFile, PartitionsFile
<1>14. load_from_cmp(disk, Out) = "loaded"
  BY <1>8, <1>13, Zenon DEF load_from_cmp, readable, TopFile
<1>15. QED
  BY <1>7, <1>8, <1>14, Zenon DEF C, TopFile

-----------------------------------------------------------------------------
(* ------------------------------ Processes ------------------------------ *)

\* A process that emits writes files of an emission and the lock, one that
\* writes and does not emit writes the files of a unit.
LEMMA EmittingWriter ==
    ASSUME NEW j, j = Idle \/ Loader(j) \/ Writer(j)
    PROVE  /\ j.state = "writing" => Writer(j)
           /\ Emitting(j) => Writer(j) /\ j.emission \in Named /\ EmissionFiles(j.todo, j.emission)
           /\ j.state = "writing" /\ ~Emitting(j) => UnitFiles(j.todo)
           /\ Writer(j) => j.state = "writing"
<1>1. Idle.state # "writing" /\ (Loader(j) => j.state # "writing")
  BY DEF Idle, Loader
<1>2. WriterShape(j) => j.state = "writing"
  BY DEF WriterShape
<1>3. NoEmission \notin Named
  BY EmissionKnown
<1>4. j.state = "writing" => Writer(j)
  BY <1>1
<1>5. Writer(j) => j.state = "writing"
  BY <1>2 DEF Writer
<1>6. ASSUME Emitting(j) PROVE Writer(j) /\ j.emission \in Named /\ EmissionFiles(j.todo, j.emission)
  BY <1>4, <1>6, Zenon DEF Writer, WriterFiles, Emitting
<1>7. ASSUME j.state = "writing", ~Emitting(j) PROVE UnitFiles(j.todo)
  BY <1>3, <1>4, <1>7, Zenon DEF Writer, WriterFiles, Emitting
<1>8. QED
  BY <1>4, <1>5, <1>6, <1>7, Zenon

\* A writer with the same files left.
Relabelled(j, k) ==
    Writer(k) /\ k.state = j.state /\ k.todo = j.todo /\ k.emission = j.emission

\* Changing what a writer says of its step or of the other processes leaves it
\* its files.
LEMMA RelabelledWriter ==
    ASSUME NEW j, Writer(j), NEW v
    PROVE  /\ Relabelled(j, [j EXCEPT !.alone = v])
           /\ [j EXCEPT !.alone = v].alone = v
           /\ Relabelled(j, [j EXCEPT !.mixed = v])
           /\ [j EXCEPT !.mixed = v].alone = j.alone
           /\ Relabelled(j, [j EXCEPT !.step = v])
           /\ [j EXCEPT !.step = v].alone = j.alone /\ [j EXCEPT !.step = v].mixed = j.mixed
<1>1. /\ j = [state |-> "writing", todo |-> j.todo, step |-> j.step, mixed |-> j.mixed,
              emission |-> j.emission, alone |-> j.alone, force_lock |-> j.force_lock]
      /\ IsSequence(j.todo) /\ j.todo # <<>> /\ WriterFiles(j)
  BY Zenon DEF Writer, WriterShape
<1> DEFINE Is(k, st, mi, al) ==
             k = [state |-> "writing", todo |-> j.todo, step |-> st, mixed |-> mi,
                  emission |-> j.emission, alone |-> al, force_lock |-> j.force_lock]
<1>2. ASSUME NEW k, NEW st, NEW mi, NEW al, Is(k, st, mi, al)
      PROVE  Relabelled(j, k) /\ k.alone = al /\ k.mixed = mi
  <2>1. /\ k.state = "writing" /\ k.todo = j.todo /\ k.step = st /\ k.mixed = mi
        /\ k.emission = j.emission /\ k.alone = al /\ k.force_lock = j.force_lock
    BY <1>2
  <2>2. j.state = "writing"
    BY <1>1
  <2>3. WriterShape(k)
    BY <1>1, <1>2, <2>1, Zenon DEF WriterShape
  <2>4. WriterFiles(k)
    BY <1>1, <2>1, Zenon DEF WriterFiles
  <2>5. QED
    BY <2>1, <2>2, <2>3, <2>4 DEF Relabelled, Writer
<1>3. /\ Is([j EXCEPT !.alone = v], j.step, j.mixed, v)
      /\ Is([j EXCEPT !.mixed = v], j.step, v, j.alone)
      /\ Is([j EXCEPT !.step = v], v, j.mixed, j.alone)
  BY <1>1
<1> HIDE DEF Is
<1>4. Relabelled(j, [j EXCEPT !.alone = v]) /\ [j EXCEPT !.alone = v].alone = v
  BY <1>2, <1>3, Zenon
<1>5. Relabelled(j, [j EXCEPT !.mixed = v]) /\ [j EXCEPT !.mixed = v].alone = j.alone
  BY <1>2, <1>3, Zenon
<1>6. /\ Relabelled(j, [j EXCEPT !.step = v])
      /\ [j EXCEPT !.step = v].alone = j.alone /\ [j EXCEPT !.step = v].mixed = j.mixed
  BY <1>2, <1>3, ZenonT(30)
<1>7. QED
  BY <1>4, <1>5, <1>6, Zenon

\* The first file and the rest of what is to be written.
LEMMA HeadAndRest ==
    ASSUME NEW s, IsSequence(s), s # <<>>
    PROVE  /\ IsSequence(Tail(s)) /\ Head(s) \in Range(s)
           /\ \A x \in Range(s) : x = Head(s) \/ x \in Range(Tail(s))
           /\ Len(s) \in Nat \ {0} /\ Head(s) = s[1] /\ Len(Tail(s)) = Len(s) - 1
           /\ \A i \in 1 .. Len(Tail(s)) : Tail(s)[i] = s[i + 1] /\ i + 1 \in 1 .. Len(s)
<1> DEFINE S == Range(s)
           t == Tail(s)
<1>1. s \in Seq(S)
  BY DEF IsSequence
<1>2. Range(s) = {s[i] : i \in 1 .. Len(s)}
  BY <1>1, RangeOfSeq, Zenon
<1> HIDE DEF S
<1>3. /\ t \in Seq(S) /\ Len(s) \in Nat \ {0} /\ Head(s) = s[1] /\ Len(t) = Len(s) - 1
      /\ \A i \in 1 .. Len(t) : t[i] = s[i + 1] /\ i + 1 \in 1 .. Len(s)
      /\ \A i \in 1 .. Len(s) : i = 1 \/ (i - 1 \in 1 .. Len(t) /\ t[i - 1] = s[i])
  BY <1>1
<1> HIDE DEF t
<1>4. IsSequence(t) /\ Range(t) = {t[i] : i \in 1 .. Len(t)}
  <2>1. t \in Seq(S)
    BY <1>3
  <2>2. QED
    BY <2>1, RangeOfSeq, Zenon
<1>5. ASSUME NEW x \in Range(s) PROVE x = Head(s) \/ x \in Range(t)
  <2>1. PICK i \in 1 .. Len(s) : x = s[i]
    BY <1>2, Zenon
  <2>2. i = 1 \/ (i - 1 \in 1 .. Len(t) /\ t[i - 1] = s[i])
    BY <1>3, Zenon
  <2>3. QED
    BY <1>3, <1>4, <2>1, <2>2
<1>6. Head(s) \in Range(s)
  BY <1>2, <1>3
<1>7. QED
  BY <1>3, <1>4, <1>5, <1>6 DEF t

\* What is left after the first file.
LEMMA RestOfFiles ==
    ASSUME NEW s, IsSequence(s), s # <<>>
    PROVE  /\ UnitFiles(s) => /\ UnitFiles(Tail(s))
                              /\ Head(s).path[1] # Out /\ Head(s).path # LockPath
           /\ \A e \in Named : EmissionFiles(s, e) =>
                 /\ EmissionFiles(Tail(s), e)
                 /\ Head(s) \in WritesOf(e) \/ Head(s).path = LockPath
                 /\ Head(s).path = PartitionsFile =>
                       \A i \in 1 .. Len(Tail(s)) : Tail(s)[i].path = LockPath
                 /\ \A i \in 1 .. Len(s) : s[i] \in WritesOf(e) \/ s[i].path = LockPath
<1> DEFINE t == Tail(s)
<1>1. /\ Len(s) \in Nat \ {0} /\ Head(s) = s[1] /\ Len(t) = Len(s) - 1
      /\ \A i \in 1 .. Len(t) : t[i] = s[i + 1] /\ i + 1 \in 1 .. Len(s)
  BY HeadAndRest
<1>2. 1 \in 1 .. Len(s) /\ \A i \in 1 .. Len(t) : 1 < i + 1
  BY <1>1
<1>3. \A i, k \in 1 .. Len(t) : i < k => i + 1 < k + 1
  BY <1>1
<1> HIDE DEF t
<1>4. UnitFiles(s) => UnitFiles(t) /\ Head(s).path[1] # Out /\ Head(s).path # LockPath
  BY <1>1, <1>2, Zenon DEF UnitFiles
<1>5. ASSUME NEW e \in Named, EmissionFiles(s, e)
      PROVE  /\ EmissionFiles(t, e)
             /\ Head(s) \in WritesOf(e) \/ Head(s).path = LockPath
             /\ Head(s).path = PartitionsFile => \A i \in 1 .. Len(t) : t[i].path = LockPath
             /\ \A i \in 1 .. Len(s) : s[i] \in WritesOf(e) \/ s[i].path = LockPath
  <2>1. /\ \A i \in 1 .. Len(s) : s[i] \in WritesOf(e) \/ s[i].path = LockPath
        /\ \A i, k \in 1 .. Len(s) : i < k /\ s[i].path = PartitionsFile => s[k].path = LockPath
    BY <1>5, Zenon DEF EmissionFiles
  <2>2. \A i \in 1 .. Len(t) : t[i] \in WritesOf(e) \/ t[i].path = LockPath
    BY <1>1, <2>1, Zenon
  <2>3. ASSUME NEW i \in 1 .. Len(t), NEW k \in 1 .. Len(t), i < k, t[i].path = PartitionsFile
        PROVE  t[k].path = LockPath
    <3>1. i + 1 \in 1 .. Len(s) /\ k + 1 \in 1 .. Len(s) /\ i + 1 < k + 1
          /\ t[i] = s[i + 1] /\ t[k] = s[k + 1]
      BY <1>1, <1>3, <2>3, Zenon
    <3>2. QED
      BY <2>1, <2>3, <3>1
  <2>4. Head(s).path = PartitionsFile => \A i \in 1 .. Len(t) : t[i].path = LockPath
    BY <1>1, <1>2, <2>1, ZenonT(30)
  <2>5. Head(s) \in WritesOf(e) \/ Head(s).path = LockPath
    BY <1>1, <1>2, <2>1, Zenon
  <2>6. QED
    BY <2>1, <2>2, <2>3, <2>4, <2>5, Zenon DEF EmissionFiles
<1>6. QED
  BY <1>4, <1>5, Zenon DEF t

-----------------------------------------------------------------------------
(* -------------------------------- Steps -------------------------------- *)

\* What a process may start to write: the files of a unit, or all those of an
\* emission and perhaps the lock.
Startable(todo, e) ==
    /\ IsSequence(todo) /\ todo # <<>>
    /\ \/ e = NoEmission /\ UnitFiles(todo)
       \/ e \in Named /\ EmissionFiles(todo, e) /\ WritesOf(e) \subseteq Range(todo)

\* A process starts to write.  When it emits, nothing is settled any more and
\* the others are not alone.
LEMMA StartKeeps ==
    ASSUME JobsOK(job), AloneOK(disk, job), SettledOK(disk, job, settled), NEW p \in Processes,
           ~Emitting(job[p]), NEW todo, NEW e, NEW f, Startable(todo, e),
           StartWriting(p, Writing(todo, e, f))
    PROVE  JobsOK(job') /\ AloneOK(disk, job') /\ SettledOK(disk, job', settled')
<1> DEFINE w == Writing(todo, e, f)
           al == \A q \in Processes : ~Emitting(job[q])
<1>1. w = [state |-> "writing", todo |-> todo, step |-> "write", mixed |-> FALSE, emission |-> e,
           alone |-> al, force_lock |-> f]
  BY Zenon DEF Writing
<1> HIDE DEF al, w
<1>2. /\ w.state = "writing" /\ w.todo = todo /\ w.step = "write" /\ w.mixed = FALSE /\ w.emission = e
      /\ w.alone = al /\ w.force_lock = f
  BY <1>1
<1>3. Writer(w)
  <2>1. WriterShape(w)
    BY <1>1, <1>2, Zenon DEF WriterShape, Startable
  <2>2. WriterFiles(w)
    BY <1>2, Zenon DEF WriterFiles, Startable
  <2>3. QED
    BY <2>1, <2>2 DEF Writer
<1>4. Emitting(w) <=> e # NoEmission
  BY <1>2 DEF Emitting
<1>5. /\ job' = [q \in Processes |->
                   CASE q = p -> w
                     [] Emitting(w) /\ q # p /\ Emitting(job[q]) -> [job[q] EXCEPT !.alone = FALSE]
                     [] OTHER -> job[q]]
      /\ settled' = IF Emitting(w) THEN NoEmission ELSE settled
  BY Zenon DEF StartWriting, w
<1>6. job' = [q \in Processes |-> job'[q]] /\ job'[p] = w
  BY <1>5
<1>7. ASSUME NEW q \in Processes \ {p}
      PROVE  /\ job[q] = Idle \/ Loader(job[q]) \/ Writer(job[q])
             /\ Emitting(w) /\ Emitting(job[q]) => job'[q] = [job[q] EXCEPT !.alone = FALSE]
             /\ ~(Emitting(w) /\ Emitting(job[q])) => job'[q] = job[q]
  <2>1. job[q] = Idle \/ Loader(job[q]) \/ Writer(job[q])
    BY DEF JobsOK
  <2> HIDE DEF Emitting
  <2>2. QED
    BY <1>5, <2>1
<1>8. ASSUME NEW q \in Processes \ {p}
      PROVE  /\ job'[q] = Idle \/ Loader(job'[q]) \/ Writer(job'[q])
             /\ Emitting(job'[q]) => Emitting(job[q])
             /\ Emitting(w) /\ Emitting(job'[q]) => job'[q].alone = FALSE
  <2>1. CASE ~(Emitting(w) /\ Emitting(job[q]))
    BY <1>7, <2>1, Zenon
  <2>2. CASE Emitting(w) /\ Emitting(job[q])
    <3>1. Writer(job[q])
      BY <1>7, <2>2, EmittingWriter, Zenon
    <3>2. Relabelled(job[q], job'[q]) /\ job'[q].alone = FALSE
      <4> DEFINE k == [job[q] EXCEPT !.alone = FALSE]
      <4>1. Relabelled(job[q], k) /\ k.alone = FALSE
        BY <3>1, RelabelledWriter, ZenonT(30)
      <4>2. job'[q] = k
        BY <1>7, <2>2, Zenon
      <4> HIDE DEF k
      <4>3. QED
        BY <4>1, <4>2, Zenon
    <3>3. QED
      BY <2>2, <3>2, Zenon DEF Relabelled
  <2>3. QED
    BY <2>1, <2>2, Zenon
<1>9. JobsOK(job')
  BY <1>3, <1>6, <1>8, Zenon DEF JobsOK
<1>10. ASSUME NEW r \in Processes, Emitting(job'[r]), job'[r].alone PROVE Alone(disk, job', r)
  <2>1. CASE r = p
    <3>1. al /\ e \in Named /\ WritesOf(e) \subseteq Range(todo)
      BY <1>2, <1>4, <1>6, <1>10, <2>1, Zenon DEF Startable
    <3>2. \A q \in Processes \ {p} : ~Emitting(job'[q])
      BY <1>8, <3>1, Zenon DEF al
    <3>3. QED
      BY <1>2, <1>6, <2>1, <3>1, <3>2, Zenon DEF Alone
  <2>2. CASE r # p
    <3>1. ~Emitting(w) /\ r \in Processes \ {p}
      BY <1>8, <1>10, <2>2, Zenon
    <3>2. \A q \in Processes \ {p} : job'[q] = job[q]
      BY <1>7, <3>1, Zenon
    <3>3. Alone(disk, job, r)
      BY <1>10, <3>1, <3>2, Zenon DEF AloneOK
    <3>4. \A q \in Processes \ {r} : ~Emitting(job'[q])
      BY <1>6, <3>1, <3>2, <3>3, Zenon DEF Alone
    <3>5. QED
      BY <3>1, <3>2, <3>3, <3>4, Zenon DEF Alone
  <2>3. QED
    BY <2>1, <2>2
<1>11. SettledOK(disk, job', settled')
  <2>1. CASE Emitting(w)
    BY <1>5, <2>1, Zenon DEF SettledOK
  <2>2. CASE ~Emitting(w)
    <3>1. settled' = settled /\ \A q \in Processes \ {p} : job'[q] = job[q]
      BY <1>5, <1>7, <2>2, Zenon
    <3>2. QED
      BY <1>6, <2>2, <3>1, Zenon DEF SettledOK
  <2>3. QED
    BY <2>1, <2>2
<1>12. QED
  BY <1>9, <1>10, <1>11, Zenon DEF AloneOK

\* A process stops writing, starts to load, or passes a check: the files of
\* the others and on disk are as they were.
LEMMA ReplacedKeeps ==
    ASSUME JobsOK(job), AloneOK(disk, job), SettledOK(disk, job, settled), NEW p \in Processes, NEW k,
           k = Idle \/ Loader(k) \/ Writer(k), job' = [job EXCEPT ![p] = k],
           ~Emitting(k) \/ (Relabelled(job[p], k) /\ k.alone = job[p].alone /\ k.mixed = job[p].mixed)
    PROVE  JobsOK(job') /\ AloneOK(disk, job') /\ SettledOK(disk, job', settled)
<1>1. job = [q \in Processes |-> job[q]]
  BY DEF JobsOK
<1>2. job' = [q \in Processes |-> job'[q]] /\ job'[p] = k /\ \A q \in Processes \ {p} : job'[q] = job[q]
  BY <1>1
<1>3. JobsOK(job')
  BY <1>2, Zenon DEF JobsOK
<1>4. \A q \in Processes : Emitting(job'[q]) => Emitting(job[q]) /\ job'[q].todo = job[q].todo
  BY <1>2, Zenon DEF Relabelled, Emitting
<1>5. ASSUME NEW r \in Processes, Emitting(job'[r]), job'[r].alone PROVE Alone(disk, job', r)
  <2>1. Emitting(job[r]) /\ job[r].alone /\ job'[r].todo = job[r].todo /\ job'[r].mixed = job[r].mixed
        /\ job'[r].emission = job[r].emission
    BY <1>2, <1>4, <1>5, Zenon DEF Relabelled
  <2>2. Alone(disk, job, r)
    BY <2>1, Zenon DEF AloneOK
  <2>3. QED
    BY <1>4, <2>1, <2>2, Zenon DEF Alone
<1>6. SettledOK(disk, job', settled)
  BY <1>4, Zenon DEF SettledOK, LockLeft
<1>7. QED
  BY <1>3, <1>5, <1>6, Zenon DEF AloneOK

\* A write of an emission's file, of a torn one, or outside of the output
\* directory keeps what the disk holds accounted for.
LEMMA WrittenDisk ==
    ASSUME NEW d, DiskOK(d), NEW path, NEW c,
           \/ path[1] # Out
           \/ c = Torn
           \/ \E e \in Named : Write(path, c) \in WritesOf(e)
    PROVE  DiskOK(written(d, path, c))
<1> DEFINE u == written(d, path, c)
<1>1. DOMAIN u = DOMAIN d \cup {path} /\ u[path] = c /\ \A x \in DOMAIN d \ {path} : u[x] = d[x]
  BY DEF written
<1> HIDE DEF u
<1>2. ASSUME NEW x \in DOMAIN u, x[1] = Out
      PROVE  u[x] = Torn \/ emitted_by(Decisions.partitions, Write(x, u[x]))
  <2>1. CASE x = path
    BY <1>1, <1>2, <2>1, Zenon DEF emitted_by, Named, WritesOf
  <2>2. CASE x # path
    BY <1>1, <1>2, <2>2, Zenon DEF DiskOK
  <2>3. QED
    BY <2>1, <2>2
<1>3. QED
  BY <1>2 DEF DiskOK, u

\* An emission's files on disk stay there, but for a write at their path.
LEMMA WrittenElsewhere ==
    ASSUME NEW d, NEW path, NEW c, NEW w, OnDisk(d, w), path # w.path
    PROVE  OnDisk(written(d, path, c), w)
  BY DEF OnDisk, written

\* So they outlast a write outside of the output directory.
LEMMA WrittenOutside ==
    ASSUME NEW d, NEW path, NEW c, path[1] # Out, NEW e \in Named, NEW w \in WritesOf(e), OnDisk(d, w)
    PROVE  OnDisk(written(d, path, c), w)
<1>1. path # w.path
  BY PathTellsContent
<1>2. QED
  BY <1>1, WrittenElsewhere, Zenon

\* A process that stops inside a file tears it.  The file is not one of an
\* emission that nobody joined, or of one that has settled.
LEMMA TornKeeps ==
    ASSUME BuildInv, NEW p \in Processes, job[p].state = "writing", job' = [job EXCEPT ![p] = Idle],
           NEW path, path = Head(job[p].todo).path
    PROVE  LET d == written(disk, path, Torn)
           IN  DiskOK(d) /\ JobsOK(job') /\ AloneOK(d, job') /\ SettledOK(d, job', settled)
<1> DEFINE d == written(disk, path, Torn)
           j == job[p]
<1>1. /\ DiskOK(disk) /\ JobsOK(job) /\ AloneOK(disk, job) /\ SettledOK(disk, job, settled)
      /\ j = Idle \/ Loader(j) \/ Writer(j)
  BY DEF BuildInv, JobsOK
<1>2. /\ Writer(j) /\ (~Emitting(j) => UnitFiles(j.todo))
      /\ Emitting(j) => j.emission \in Named /\ EmissionFiles(j.todo, j.emission)
  BY <1>1, EmittingWriter, Zenon
<1>3. IsSequence(j.todo) /\ j.todo # <<>>
  BY <1>2, Zenon DEF Writer, WriterShape
<1>4. ~Emitting(j) => path[1] # Out
  BY <1>2, <1>3, RestOfFiles, Zenon
<1>5. ~Emitting(Idle)
  BY DEF Idle, Emitting
<1>6. JobsOK(job') /\ AloneOK(disk, job') /\ SettledOK(disk, job', settled)
  BY <1>1, <1>5, ReplacedKeeps, Zenon
<1>7. DiskOK(d)
  BY <1>1, WrittenDisk, Zenon
<1>8. /\ job'[p] = Idle /\ \A q \in Processes \ {p} : job'[q] = job[q]
  BY <1>1 DEF JobsOK
<1>9. ASSUME NEW r \in Processes, Emitting(job'[r]), job'[r].alone PROVE Alone(d, job', r)
  <2>1. r # p /\ Alone(disk, job, r) /\ Alone(disk, job', r) /\ Emitting(job[r])
    BY <1>1, <1>5, <1>6, <1>8, <1>9, Zenon DEF AloneOK
  <2>2. ~Emitting(j)
    BY <2>1, Zenon DEF Alone
  <2>3. job[r].emission \in Named /\ job'[r].emission \in Named
    BY <1>1, <1>8, <2>1, EmittingWriter, Zenon DEF JobsOK
  <2>4. \A w \in WritesOf(job'[r].emission) : OnDisk(disk, w) => OnDisk(d, w)
    BY <1>4, <2>2, <2>3, WrittenOutside, Zenon
  <2> HIDE DEF d
  <2>5. QED
    BY <2>1, <2>4, Zenon DEF Alone
<1>10. SettledOK(d, job', settled)
  <2>1. ASSUME settled # NoEmission PROVE path[1] # Out
    <3>1. Emitting(j) => LockLeft(j)
      BY <1>1, <2>1, Zenon DEF SettledOK
    <3>2. Head(j.todo) = j.todo[1] /\ Len(j.todo) \in Nat \ {0}
      BY <1>3, HeadAndRest, Zenon
    <3>3. Emitting(j) => path = LockPath
      BY <3>1, <3>2 DEF LockLeft
    <3>4. QED
      BY <1>4, <3>3 DEF LockPath, Out
  <2>2. ASSUME settled # NoEmission PROVE \A w \in WritesOf(settled) : OnDisk(disk, w) => OnDisk(d, w)
    BY <1>1, <2>1, <2>2, WrittenOutside, Zenon DEF SettledOK
  <2> HIDE DEF d
  <2>3. QED
    BY <1>6, <2>2, Zenon DEF SettledOK
<1>11. QED
  BY <1>6, <1>7, <1>9, <1>10, Zenon DEF AloneOK

Continued(j, st) == [j EXCEPT !.todo = Tail(j.todo), !.step = st, !.mixed = FALSE]

\* What is left of a writer after a file.
LEMMA RestWriter ==
    ASSUME NEW j, Writer(j), NEW st, Tail(j.todo) # <<>>
    PROVE  /\ Writer(Continued(j, st)) /\ Continued(j, st).state = j.state
           /\ Continued(j, st).todo = Tail(j.todo) /\ Continued(j, st).emission = j.emission
           /\ Continued(j, st).alone = j.alone /\ Continued(j, st).mixed = FALSE
<1> DEFINE t == Tail(j.todo)
           k == Continued(j, st)
<1>1. /\ j = [state |-> "writing", todo |-> j.todo, step |-> j.step, mixed |-> j.mixed,
              emission |-> j.emission, alone |-> j.alone, force_lock |-> j.force_lock]
      /\ IsSequence(j.todo) /\ j.todo # <<>> /\ WriterFiles(j)
  BY Zenon DEF Writer, WriterShape
<1>2. k = [state |-> "writing", todo |-> t, step |-> st, mixed |-> FALSE,
           emission |-> j.emission, alone |-> j.alone, force_lock |-> j.force_lock]
  <2> DEFINE Is(x, td, se, mi) ==
               x = [state |-> "writing", todo |-> td, step |-> se, mixed |-> mi,
                    emission |-> j.emission, alone |-> j.alone, force_lock |-> j.force_lock]
             a == [j EXCEPT !.todo = t]
             b == [a EXCEPT !.step = st]
  <2>1. \A td, x : Is(x, j.todo, j.step, j.mixed) => Is([x EXCEPT !.todo = td], td, j.step, j.mixed)
    OBVIOUS
  <2>2. \A td, se, x : Is(x, td, j.step, j.mixed) => Is([x EXCEPT !.step = se], td, se, j.mixed)
    OBVIOUS
  <2>3. \A td, mi, x : Is(x, td, st, j.mixed) => Is([x EXCEPT !.mixed = mi], td, st, mi)
    OBVIOUS
  <2>4. k = [b EXCEPT !.mixed = FALSE]
    BY Zenon DEF Continued
  <2>5. Is(j, j.todo, j.step, j.mixed)
    BY <1>1, Zenon
  <2> HIDE DEF Is, k, t
  <2>6. Is(a, t, j.step, j.mixed)
    BY <2>1, <2>5, Zenon
  <2> HIDE DEF a
  <2>7. Is(b, t, st, j.mixed)
    BY <2>2, <2>6, Zenon
  <2> HIDE DEF b
  <2>8. Is(k, t, st, FALSE)
    BY <2>3, <2>4, <2>7, Zenon
  <2>9. QED
    BY <2>8, Zenon DEF Is
<1>3. j.state = "writing"
  BY <1>1
<1>4. IsSequence(t)
  BY <1>1, HeadAndRest, Zenon
<1>5. /\ UnitFiles(j.todo) => UnitFiles(t)
      /\ \A e \in Named : EmissionFiles(j.todo, e) => EmissionFiles(t, e)
  BY <1>1, RestOfFiles, Zenon
<1> HIDE DEF k
<1>6. /\ k.state = "writing" /\ k.todo = t /\ k.step = st /\ k.mixed = FALSE
      /\ k.emission = j.emission /\ k.alone = j.alone /\ k.force_lock = j.force_lock
  BY <1>2
<1>7. WriterShape(k)
  BY <1>2, <1>4, <1>6, Zenon DEF WriterShape
<1>8. WriterFiles(k)
  BY <1>1, <1>5, <1>6, Zenon DEF WriterFiles
<1>9. QED
  BY <1>3, <1>6, <1>7, <1>8 DEF Writer, k

\* One file of a process is written.
LEMMA WriteFileKeeps ==
    ASSUME BuildInv, NEW p \in Processes, WriteFile(p)
    PROVE  BuildInv'
<1> DEFINE j == job[p]
           w == Head(j.todo)
           rest == Tail(j.todo)
           others == {q \in Processes \ {p} : at(q, w.path)}
           nextst == IF rest[1].path \in {CmpManifestFile(Out), LockPath} THEN "check" ELSE "write"
           k == [j EXCEPT !.todo = rest, !.step = nextst, !.mixed = FALSE]
           emitted == Emitting(j) /\ j.alone /\ w.path = <<Out, "ccm", "partitions">>
<1>1. /\ DiskOK(disk) /\ JobsOK(job) /\ AloneOK(disk, job) /\ SettledOK(disk, job, settled)
      /\ decided = Decisions
      /\ \A q \in Processes : job[q] = Idle \/ Loader(job[q]) \/ Writer(job[q])
  BY DEF BuildInv, JobsOK
<1>2. /\ j.state = "writing"
      /\ \E content \in {w.content} \cup (IF j.mixed \/ others # {} THEN {Torn} ELSE {}) :
            disk' = written(disk, w.path, content)
      /\ job' = [q \in Processes |->
                   CASE q = p -> IF rest = <<>> THEN Idle ELSE k
                     [] q \in others -> [job[q] EXCEPT !.mixed = TRUE]
                     [] OTHER -> job[q]]
      /\ settled' = IF emitted THEN j.emission ELSE settled
      /\ decided' = decided
  BY Zenon DEF WriteFile
<1>3. PICK content : /\ content \in {w.content} \cup (IF j.mixed \/ others # {} THEN {Torn} ELSE {})
                     /\ disk' = written(disk, w.path, content)
  BY <1>2, Zenon
<1>4. /\ Writer(j) /\ (~Emitting(j) => UnitFiles(j.todo))
      /\ Emitting(j) => j.emission \in Named /\ EmissionFiles(j.todo, j.emission)
  BY <1>1, <1>2, EmittingWriter, Zenon
<1>5. IsSequence(j.todo) /\ j.todo # <<>>
  BY <1>4, Zenon DEF Writer, WriterShape
<1>6. /\ IsSequence(rest)
      /\ \A x \in Range(j.todo) : x = w \/ x \in Range(rest)
      /\ Len(j.todo) \in Nat \ {0} /\ w = j.todo[1]
  BY <1>5, HeadAndRest, Zenon
<1>7. /\ ~Emitting(j) => w.path[1] # Out /\ w.path # LockPath
      /\ Emitting(j) => w \in WritesOf(j.emission) \/ w.path = LockPath
      /\ Emitting(j) /\ w.path = PartitionsFile => \A i \in 1 .. Len(rest) : rest[i].path = LockPath
  BY <1>4, <1>5, RestOfFiles, Zenon
<1>8. DiskOK(disk')
  <2>1. \/ w.path[1] # Out
        \/ content = Torn
        \/ \E e \in Named : Write(w.path, content) \in WritesOf(e)
    <3>1. content = w.content \/ content = Torn
      BY <1>3
    <3>2. CASE w.path[1] = Out /\ content = w.content
      <4>1. Emitting(j) /\ w \in WritesOf(j.emission)
        BY <1>7, <3>2 DEF LockPath, Out
      <4>2. w = Write(w.path, w.content)
        <5>1. w = Write(w.path, ContentAt(j.emission, w.path))
          BY <1>4, <4>1, PathTellsContent, Zenon
        <5> HIDE DEF w
        <5>2. QED
          BY <5>1 DEF Write
      <4>3. QED
        BY <1>4, <3>2, <4>1, <4>2, Zenon
    <3>3. QED
      BY <3>1, <3>2
  <2>2. QED
    BY <1>1, <1>3, <2>1, WrittenDisk, Zenon
<1>9. ASSUME NEW r \in Processes, Emitting(job[r]) PROVE at(r, w.path) => w.path[1] = Out \/ w.path = LockPath
  <2>1. Writer(job[r]) /\ job[r].emission \in Named /\ EmissionFiles(job[r].todo, job[r].emission)
    BY <1>1, <1>9, EmittingWriter, Zenon
  <2>2. IsSequence(job[r].todo) /\ job[r].todo # <<>>
    BY <2>1, Zenon DEF Writer, WriterShape
  <2>3. Head(job[r].todo) \in WritesOf(job[r].emission) \/ Head(job[r].todo).path = LockPath
    BY <2>1, <2>2, RestOfFiles, Zenon
  <2>4. Head(job[r].todo).path[1] = Out \/ Head(job[r].todo).path = LockPath
    BY <2>1, <2>3, PathTellsContent, Zenon
  <2>5. QED
    BY <2>4, Zenon DEF at

<1>10. ASSUME NEW q \in Processes \ {p}
       PROVE  /\ job'[q] = Idle \/ Loader(job'[q]) \/ Writer(job'[q])
              /\ Emitting(job'[q]) => /\ Emitting(job[q]) /\ job'[q].alone = job[q].alone
                                      /\ job'[q].todo = job[q].todo
              /\ ~at(q, w.path) => job'[q] = job[q]
  <2>1. CASE q \notin others
    <3>1. job'[q] = job[q]
      <4> HIDE DEF others, k
      <4>1. QED
        BY <1>2, <2>1, Zenon
    <3>2. QED
      BY <1>1, <3>1, Zenon
  <2>2. CASE q \in others
    <3> DEFINE m == [job[q] EXCEPT !.mixed = TRUE]
    <3>1. job'[q] = m
      <4> HIDE DEF others, k
      <4>1. QED
        BY <1>2, <2>2, Zenon
    <3>2. at(q, w.path) /\ Writer(job[q])
      BY <1>1, <2>2, EmittingWriter, Zenon DEF at
    <3>3. Relabelled(job[q], m) /\ m.alone = job[q].alone
      BY <3>2, RelabelledWriter, Zenon
    <3> HIDE DEF m
    <3>4. Writer(job'[q]) /\ job'[q].alone = job[q].alone /\ job'[q].todo = job[q].todo
          /\ (Emitting(job'[q]) => Emitting(job[q]))
      BY <3>1, <3>3, Zenon DEF Relabelled, Emitting
    <3>5. QED
      BY <3>2, <3>4, Zenon
  <2>3. QED
    BY <2>1, <2>2, Zenon
<1>11. /\ job' = [q \in Processes |-> job'[q]]
       /\ job'[p] = IF rest = <<>> THEN Idle ELSE k
  <2> DEFINE F(q) == CASE q = p -> IF rest = <<>> THEN Idle ELSE k
                       [] q \in others -> [job[q] EXCEPT !.mixed = TRUE]
                       [] OTHER -> job[q]
  <2>1. job' = [q \in Processes |-> F(q)]
    BY <1>2, Zenon
  <2>2. F(p) = IF rest = <<>> THEN Idle ELSE k
    BY Zenon
  <2> HIDE DEF F, k, rest
  <2>3. QED
    BY <2>1, <2>2
<1>12. /\ job'[p] = Idle \/ Loader(job'[p]) \/ Writer(job'[p])
       /\ Emitting(job'[p]) => /\ Emitting(j) /\ job'[p].alone = j.alone /\ job'[p].mixed = FALSE
                               /\ job'[p].todo = rest /\ job'[p].emission = j.emission
  <2>1. CASE rest = <<>>
    BY <1>11, <2>1 DEF Idle, Emitting
  <2>2. CASE rest # <<>>
    <3>1. /\ Writer(k) /\ k.state = j.state /\ k.todo = rest /\ k.emission = j.emission
          /\ k.alone = j.alone /\ k.mixed = FALSE
      <4>1. k = Continued(j, nextst)
        BY Zenon DEF Continued
      <4> HIDE DEF k, nextst
      <4>2. QED
        BY <1>4, <2>2, <4>1, RestWriter, Zenon
    <3>2. job'[p] = k
      BY <1>11, <2>2, Zenon
    <3> HIDE DEF k
    <3>3. QED
      BY <3>1, <3>2, Zenon DEF Emitting
  <2>3. QED
    BY <2>1, <2>2, Zenon
<1>13. JobsOK(job')
  BY <1>10, <1>11, <1>12, Zenon DEF JobsOK
<1> HIDE DEF k, rest, w
\* Who emits alone has its file written as it is.
<1>14. ASSUME Emitting(j), j.alone
       PROVE  /\ \A q \in Processes \ {p} : ~Emitting(job[q]) /\ ~Emitting(job'[q])
              /\ \A x \in WritesOf(j.emission) : OnDisk(disk', x) \/ x \in Range(rest)
  <2>1. Alone(disk, job, p)
    BY <1>1, <1>14, Zenon DEF AloneOK
  <2>2. /\ j.mixed = FALSE /\ \A q \in Processes \ {p} : ~Emitting(job[q])
        /\ \A x \in WritesOf(j.emission) : OnDisk(disk, x) \/ x \in Range(j.todo)
    BY <2>1, Zenon DEF Alone
  <2>3. ASSUME NEW q \in Processes \ {p} PROVE ~at(q, w.path)
    <3>1. SUFFICES ASSUME at(q, w.path) PROVE FALSE
      OBVIOUS
    <3>2. job[q].state = "writing" /\ Head(job[q].todo).path = w.path
      BY <3>1, Zenon DEF at
    <3>3. UnitFiles(job[q].todo) /\ Writer(job[q])
      BY <1>1, <2>2, <2>3, <3>2, EmittingWriter, Zenon
    <3>4. IsSequence(job[q].todo) /\ job[q].todo # <<>>
      BY <3>3, Zenon DEF Writer, WriterShape
    <3>5. w.path[1] # Out /\ w.path # LockPath
      BY <3>2, <3>3, <3>4, RestOfFiles, Zenon
    <3>6. w.path[1] = Out
      BY <1>4, <1>7, <1>14, <3>5, PathTellsContent, Zenon
    <3>7. QED
      BY <3>5, <3>6
  <2>4. others = {}
    BY <2>3, Zenon
  <2>5. content = w.content
    <3> HIDE DEF others
    <3>1. QED
      BY <1>3, <2>2, <2>4
  <2>6. OnDisk(disk', w)
    BY <1>3, <2>5 DEF OnDisk, written
  <2>7. ASSUME NEW x \in WritesOf(j.emission) PROVE OnDisk(disk', x) \/ x \in Range(rest)
    <3>1. CASE x.path = w.path
      <4>1. w \in WritesOf(j.emission)
        BY <1>4, <1>7, <1>14, <2>7, <3>1, PathTellsContent, Zenon
      <4>2. x = w
        BY <1>4, <1>14, <2>7, <3>1, <4>1, PathTellsContent, Zenon
      <4>3. QED
        BY <2>6, <4>2, Zenon
    <3>2. CASE x.path # w.path /\ OnDisk(disk, x)
      BY <1>3, <3>2, WrittenElsewhere, Zenon
    <3>3. CASE x.path # w.path /\ x \in Range(j.todo)
      BY <1>6, <3>3, Zenon
    <3>4. QED
      BY <2>2, <2>7, <3>1, <3>2, <3>3, Zenon
  <2>8. QED
    BY <1>10, <2>2, <2>7, Zenon
<1>15. ASSUME NEW r \in Processes, Emitting(job'[r]), job'[r].alone PROVE Alone(disk', job', r)
  <2>1. CASE r = p
    BY <1>12, <1>14, <1>15, <2>1, Zenon DEF Alone
  <2>2. CASE r # p
    <3>1. Emitting(job[r]) /\ job[r].alone
      BY <1>10, <1>15, <2>2, Zenon
    <3>2. Alone(disk, job, r)
      BY <1>1, <3>1, Zenon DEF AloneOK
    <3>3. ~Emitting(j) /\ w.path[1] # Out /\ w.path # LockPath
      BY <1>7, <2>2, <3>2, Zenon DEF Alone
    <3>4. job'[r] = job[r]
      BY <1>9, <1>10, <2>2, <3>1, <3>3, Zenon
    <3>5. job[r].emission \in Named
      BY <1>1, <3>1, EmittingWriter, Zenon
    <3>6. \A x \in WritesOf(job[r].emission) : OnDisk(disk, x) => OnDisk(disk', x)
      BY <1>3, <3>3, <3>5, WrittenOutside, Zenon
    <3>7. \A q \in Processes \ {r} : ~Emitting(job'[q])
      BY <1>10, <1>12, <3>2, <3>3, Zenon DEF Alone
    <3>8. QED
      BY <3>2, <3>4, <3>6, <3>7, Zenon DEF Alone
  <2>3. QED
    BY <2>1, <2>2
<1>16. SettledOK(disk', job', settled')
  <2>1. CASE emitted
    <3>1. settled' = j.emission /\ j.emission \in Named
      BY <1>2, <1>4, <2>1, Zenon
    <3>2. \A i \in 1 .. Len(rest) : rest[i].path = LockPath
      BY <1>7, <2>1, Zenon DEF PartitionsFile
    <3>3. \A x \in Range(rest) : x.path = LockPath
      <4>1. Range(rest) = {rest[i] : i \in 1 .. Len(rest)}
        BY <1>6, RangeOfSeq, Zenon DEF IsSequence
      <4>2. QED
        BY <3>2, <4>1, Zenon
    <3>4. \A x \in WritesOf(j.emission) : OnDisk(disk', x)
      BY <1>14, <2>1, <3>1, <3>3, PathTellsContent, Zenon
    <3>5. \A q \in Processes : Emitting(job'[q]) => LockLeft(job'[q])
      BY <1>12, <1>14, <2>1, <3>2, Zenon DEF LockLeft
    <3>6. QED
      BY <3>1, <3>4, <3>5, Zenon DEF SettledOK
  <2>2. CASE ~emitted /\ settled # NoEmission
    <3>1. /\ settled' = settled /\ settled \in Named
          /\ \A x \in WritesOf(settled) : OnDisk(disk, x)
          /\ \A q \in Processes : Emitting(job[q]) => LockLeft(job[q])
      BY <1>1, <1>2, <2>2, Zenon DEF SettledOK
    <3>2. Emitting(j) => w.path = LockPath
      BY <1>6, <3>1 DEF LockLeft
    <3>3. w.path[1] # Out
      BY <1>7, <3>2 DEF LockPath, Out
    <3>4. \A x \in WritesOf(settled) : OnDisk(disk', x)
      BY <1>3, <3>1, <3>3, WrittenOutside, Zenon
    <3>5. Emitting(j) => \A i \in 1 .. Len(rest) : rest[i].path = LockPath
      <4>1. \A i \in 1 .. Len(rest) : rest[i] = j.todo[i + 1] /\ i + 1 \in 1 .. Len(j.todo)
        BY <1>5, HeadAndRest, Zenon DEF rest
      <4>2. QED
        BY <3>1, <4>1, Zenon DEF LockLeft
    <3>6. \A q \in Processes : Emitting(job'[q]) => LockLeft(job'[q])
      <4> SUFFICES ASSUME NEW q \in Processes, Emitting(job'[q]) PROVE LockLeft(job'[q])
        OBVIOUS
      <4>1. CASE q = p
        BY <1>12, <3>5, <4>1, Zenon DEF LockLeft
      <4>2. CASE q # p
        <5>1. Emitting(job[q]) /\ job'[q].todo = job[q].todo
          BY <1>10, <4>2, Zenon
        <5>2. LockLeft(job[q])
          BY <3>1, <5>1, Zenon
        <5>3. QED
          BY <5>1, <5>2, Zenon DEF LockLeft
      <4>3. QED
        BY <4>1, <4>2, Zenon
    <3>7. QED
      BY <3>1, <3>4, <3>6, Zenon DEF SettledOK
  <2>3. CASE ~emitted /\ settled = NoEmission
    BY <1>2, <2>3, Zenon DEF SettledOK
  <2>4. QED
    BY <2>1, <2>2, <2>3
<1>17. QED
  BY <1>1, <1>2, <1>8, <1>13, <1>15, <1>16, Zenon DEF BuildInv, AloneOK

\* What a compile or a link writes can be started: the files of its emission,
\* the partition manifest after all the others, and the lock after that.
LEMMA EmissionStartable ==
    ASSUME NEW e \in Named, NEW x, x.path = LockPath
    PROVE  /\ Startable(emit_writes(e, Decisions.partitions[e]), e)
           /\ Startable(emit_writes(e, Decisions.partitions[e]) \o <<x>>, e)
<1> DEFINE s == emit_writes(e, Decisions.partitions[e])
           u == s \o <<x>>
<1>1. IsSequence(s) /\ Range(s) = WritesOf(e)
  BY EmissionRange, Zenon DEF WritesOf
<1>2. Len(s) \in Nat \ {0} /\ \A i \in 1 .. Len(s) - 1 : s[i].path # PartitionsFile
  BY PartitionsLast, Zenon
<1>3. s \in Seq(WritesOf(e))
  BY <1>1, Zenon DEF IsSequence
<1>4. IsSequence(<<x>>) /\ Range(<<x>>) = {x}
  BY DEF IsSequence, Range
<1> HIDE DEF s
<1>5. IsSequence(u) /\ Range(u) = Range(s) \cup {x}
  BY <1>1, <1>4, RangeOfConcat, Zenon
<1>6. \A i \in 1 .. Len(s) : s[i] \in WritesOf(e)
  BY <1>3
<1>7. Len(u) = Len(s) + 1 /\ u[Len(s) + 1] = x /\ \A i \in 1 .. Len(s) : u[i] = s[i]
  <2>1. s \in Seq(WritesOf(e) \cup {x}) /\ <<x>> \in Seq(WritesOf(e) \cup {x})
    BY <1>3
  <2>2. QED
    BY <2>1
<1>8. s # <<>> /\ u # <<>>
  BY <1>2, <1>7
<1> HIDE DEF u
<1>9. EmissionFiles(s, e)
  <2>1. \A i, k \in 1 .. Len(s) : i < k => s[i].path # PartitionsFile
    <3>1. \A i, k \in 1 .. Len(s) : i < k => i \in 1 .. Len(s) - 1
      BY <1>2
    <3>2. QED
      BY <1>2, <3>1, Zenon
  <2>2. QED
    BY <1>6, <2>1, Zenon DEF EmissionFiles
<1>10. EmissionFiles(u, e)
  <2>1. \A i \in 1 .. Len(u) : i \in 1 .. Len(s) \/ i = Len(s) + 1
    BY <1>2, <1>7
  <2>2. \A i \in 1 .. Len(u) : u[i] \in WritesOf(e) \/ u[i].path = LockPath
    BY <1>6, <1>7, <2>1, Zenon
  <2>3. ASSUME NEW i \in 1 .. Len(u), NEW k \in 1 .. Len(u), i < k, u[i].path = PartitionsFile
        PROVE  u[k].path = LockPath
    <3>1. i \in 1 .. Len(s) - 1 \/ k = Len(s) + 1
      BY <1>2, <1>7, <2>3
    <3>2. i \in 1 .. Len(s) - 1 => i \in 1 .. Len(s)
      BY <1>2
    <3>3. QED
      BY <1>2, <1>7, <2>3, <3>1, <3>2, Zenon
  <2>4. QED
    BY <2>2, <2>3, Zenon DEF EmissionFiles
<1>11. QED
  BY <1>1, <1>5, <1>8, <1>9, <1>10, Zenon DEF Startable, s, u

\* So can a compiled object: its files are of a unit's directory.
LEMMA ObjectStartable ==
    ASSUME NEW c \in Sources, NEW headers
    PROVE  Startable(write_object(UnitOf[c], object_of({c}, headers)), NoEmission)
<1> DEFINE dir == UnitOf[c]
           h == object_of({c}, headers)
           q == chunk_order({c})
           s == chunk_writes(dir, {c})
           x == Write(HeaderFile(dir), [kind |-> "object", header |-> h])
           u == write_object(dir, h)
<1>1. c \in Chunks /\ dir # Out
  BY DirectoriesAssumption
<1>2. q \in Seq({c})
  BY <1>1, ChunkOrderAssumption
<1>3. h.chunks = {c}
  BY DEF object_of, ObjectHeader
<1>4. u = Append(s, x)
  BY <1>3, Zenon DEF write_object
<1> DEFINE W(b) == Write(ChunkFile(dir, b), [kind |-> "chunk", chunk_hash |-> b])
<1>5. s = [i \in 1 .. Len(q) |-> W(q[i])]
  <2>1. DOMAIN q = 1 .. Len(q)
    BY <1>2
  <2>2. QED
    BY <2>1, Zenon DEF chunk_writes
<1>6. W(c).path = <<dir, "chunk", c>>
  BY DEF Write, ChunkFile
<1> HIDE DEF q
<1>7. Len(q) \in Nat /\ \A i \in 1 .. Len(q) : q[i] = c
  BY <1>2
<1> HIDE DEF h, dir, W, s
<1>8. s \in Seq({W(c)}) /\ Len(s) = Len(q) /\ \A i \in 1 .. Len(q) : s[i] = W(c)
  BY <1>5, <1>7
<1>9. x.path = <<dir, "object", "header">>
  BY DEF Write, HeaderFile
<1> HIDE DEF x, u
<1>10. /\ IsSequence(u) /\ Len(u) = Len(s) + 1 /\ u[Len(s) + 1] = x
       /\ \A i \in 1 .. Len(s) : u[i] = s[i]
  <2> DEFINE S == {W(c), x}
  <2>1. s \in Seq(S) /\ x \in S
    BY <1>8
  <2> HIDE DEF S
  <2>2. u \in Seq(S) /\ Len(u) = Len(s) + 1 /\ u[Len(s) + 1] = x /\ \A i \in 1 .. Len(s) : u[i] = s[i]
    BY <1>4, <2>1
  <2>3. QED
    BY <2>2, RangeOfSeq, Zenon
<1>11. W(c).path[1] # Out /\ W(c).path # LockPath
  BY <1>1, <1>6 DEF LockPath
<1>12. x.path[1] # Out /\ x.path # LockPath
  BY <1>1, <1>9 DEF LockPath
<1>13. \A i \in 1 .. Len(u) : u[i].path[1] # Out /\ u[i].path # LockPath
  <2>1. \A i \in 1 .. Len(u) : i \in 1 .. Len(q) \/ i = Len(s) + 1
    BY <1>7, <1>8, <1>10
  <2>2. QED
    BY <1>8, <1>10, <1>11, <1>12, <2>1, Zenon
<1>14. u # <<>>
  BY <1>7, <1>8, <1>10
<1>15. QED
  BY <1>10, <1>13, <1>14, Zenon DEF Startable, UnitFiles, u, h, dir

\* compile-object starts to write an object.
LEMMA CompileObjectKeeps ==
    ASSUME BuildInv, NEW p \in Processes, NEW c \in Sources, NEW used, CompileObject(p, c, used)
    PROVE  BuildInv'
<1> DEFINE todo == write_object(UnitOf[c], object_of({c}, headers_of(used)))
<1>1. /\ job[p] = Idle /\ disk' = disk /\ decided' = decided
      /\ StartWriting(p, Writing(todo, NoEmission, FALSE))
  BY Zenon DEF CompileObject, Start
<1>2. ~Emitting(job[p])
  BY <1>1 DEF Idle, Emitting
<1>3. Startable(todo, NoEmission)
  BY ObjectStartable, Zenon
<1> HIDE DEF todo
<1>4. JobsOK(job') /\ AloneOK(disk, job') /\ SettledOK(disk, job', settled')
  BY <1>1, <1>2, <1>3, StartKeeps, Zenon DEF BuildInv
<1>5. QED
  BY <1>1, <1>4 DEF BuildInv

\* compile starts to write the package and the constraint model.
LEMMA CompileKeeps ==
    ASSUME BuildInv, NEW p \in Processes, NEW e \in OneShots, Compile(p, e)
    PROVE  BuildInv'
<1> DEFINE todo == emit_writes(e, Decisions.partitions[e])
<1>1. /\ job[p] = Idle /\ disk' = disk /\ decided' = decided
      /\ e.model \in Decisions.compilable
      /\ StartWriting(p, Writing(todo, e, FALSE))
  BY Zenon DEF Compile, Start, BuildInv
<1>2. ~Emitting(job[p])
  BY <1>1 DEF Idle, Emitting
<1>3. e \in Named
  BY <1>1, RequestsAssumption, DecisionsAssumption DEF accepted, Named
<1>4. Startable(todo, e)
  <2>1. Write(LockPath, LockPath).path = LockPath
    BY DEF Write
  <2>2. QED
    BY <1>3, <2>1, EmissionStartable, Zenon
<1> HIDE DEF todo
<1>5. JobsOK(job') /\ AloneOK(disk, job') /\ SettledOK(disk, job', settled')
  BY <1>1, <1>2, <1>4, StartKeeps, Zenon DEF BuildInv
<1>6. QED
  BY <1>1, <1>5 DEF BuildInv

\* link reads the headers.
LEMMA LinkHeadersKeeps ==
    ASSUME BuildInv, NEW p \in Processes, NEW request \in Links, LinkHeaders(p, request)
    PROVE  BuildInv'
<1> DEFINE k == [state |-> "loading", headers |-> headers_of(request.units), request |-> request]
<1>1. /\ all_chunks(headers_of(request.units)) \in Decisions.staged
      /\ job' = [job EXCEPT ![p] = k]
      /\ disk' = disk /\ decided' = decided /\ settled' = settled
  BY Zenon DEF LinkHeaders, BuildInv
<1>2. Loader(k)
  BY <1>1 DEF Loader
<1>3. ~Emitting(k)
  BY DEF Emitting
<1> HIDE DEF k
<1>4. JobsOK(job') /\ AloneOK(disk, job') /\ SettledOK(disk, job', settled)
  BY <1>1, <1>2, <1>3, ReplacedKeeps, Zenon DEF BuildInv
<1>5. QED
  BY <1>1, <1>4 DEF BuildInv

\* link loads the chunks and starts to write, or is refused.
LEMMA LinkLoadKeeps ==
    ASSUME BuildInv, NEW p \in Processes, LinkLoad(p)
    PROVE  BuildInv'
<1> DEFINE j == job[p]
           C == all_chunks(j.headers)
           e == Emission(C, j.request.cluster)
           x == Write(LockPath, [kind |-> "lock", pins |-> lock_of(j.headers)])
           lock_writes == IF j.request.write_lock THEN <<x>> ELSE <<>>
           s == emit_writes(e, Decisions.partitions[e])
           todo == s \o lock_writes
<1>1. /\ j.state = "loading" /\ disk' = disk /\ decided' = decided
      /\ \/ /\ e.model \in Decisions.verified
            /\ StartWriting(p, Writing(todo, e, j.request.force_lock))
         \/ job' = [job EXCEPT ![p] = Idle] /\ settled' = settled
  BY Zenon DEF LinkLoad, BuildInv
<1>2. ~Emitting(j)
  BY <1>1, Zenon DEF Emitting
<1>3. C \in Decisions.staged /\ j.request \in Links
  <2>1. j = Idle \/ Loader(j) \/ Writer(j)
    BY DEF BuildInv, JobsOK
  <2>2. j # Idle
    BY <1>1 DEF Idle
  <2>3. ~Writer(j)
    <3>1. Writer(j) => j.state = "writing"
      <4> HIDE DEF j
      <4>1. QED
        BY DEF Writer, WriterShape
    <3>2. QED
      BY <1>1, <3>1, Zenon
  <2>4. QED
    BY <2>1, <2>2, <2>3, Zenon DEF Loader
<1>4. CASE e.model \in Decisions.verified /\ StartWriting(p, Writing(todo, e, j.request.force_lock))
  <2>1. e \in Named
    <3>1. C \in Unions /\ j.request.cluster \in ClusterSizes
      BY <1>3, DecisionsAssumption, RequestsAssumption
    <3>2. e \in Emissions /\ e.model = C
      <4> HIDE DEF C, j
      <4>1. QED
        BY <3>1 DEF Emissions, Emission
    <3>3. e.model \in accepted(Decisions)
      BY <1>3, <1>4, <3>2, Zenon DEF accepted
    <3> HIDE DEF e
    <3>4. QED
      BY <3>2, <3>3, DecisionsAssumption DEF Named
  <2>2. x.path = LockPath
    BY DEF Write
  <2> HIDE DEF e, x
  <2>3. Startable(s, e) /\ Startable(s \o <<x>>, e)
    BY <2>1, <2>2, EmissionStartable, Zenon
  <2> HIDE DEF s
  <2>4. s \o <<>> = s
    <3>1. s \in Seq(Range(s))
      BY <2>3, Zenon DEF Startable, IsSequence
    <3>2. QED
      BY <3>1
  <2>5. Startable(todo, e)
    BY <2>3, <2>4, Zenon
  <2> HIDE DEF todo
  <2>6. JobsOK(job') /\ AloneOK(disk, job') /\ SettledOK(disk, job', settled')
    BY <1>2, <1>4, <2>5, StartKeeps, Zenon DEF BuildInv
  <2>7. QED
    BY <1>1, <2>6, Zenon DEF BuildInv
<1>5. CASE job' = [job EXCEPT ![p] = Idle] /\ settled' = settled
  <2>1. ~Emitting(Idle)
    BY DEF Emitting, Idle
  <2>2. JobsOK(job') /\ AloneOK(disk, job') /\ SettledOK(disk, job', settled)
    BY <1>5, <2>1, ReplacedKeeps, Zenon DEF BuildInv
  <2>3. QED
    BY <1>1, <1>5, <2>2, Zenon DEF BuildInv
<1>6. QED
  BY <1>1, <1>4, <1>5, Zenon

\* A check before a write passes, or ends the process.
LEMMA CheckWriteKeeps ==
    ASSUME BuildInv, NEW p \in Processes, CheckWrite(p)
    PROVE  BuildInv'
<1> DEFINE j == job[p]
           k == IF WriteAllowed(j) THEN [j EXCEPT !.step = "write"] ELSE Idle
<1>1. /\ j.state = "writing" /\ disk' = disk /\ decided' = decided /\ settled' = settled
      /\ job' = [job EXCEPT ![p] = k]
  BY Zenon DEF CheckWrite
<1>2. Writer(j)
  <2>1. j = Idle \/ Loader(j) \/ Writer(j)
    BY DEF BuildInv, JobsOK
  <2>2. QED
    BY <1>1, <2>1, EmittingWriter, Zenon
<1>3. ~Emitting(Idle)
  BY DEF Emitting, Idle
<1>4. /\ k = Idle \/ Loader(k) \/ Writer(k)
      /\ ~Emitting(k) \/ (Relabelled(j, k) /\ k.alone = j.alone /\ k.mixed = j.mixed)
  <2>1. CASE WriteAllowed(j)
    <3> DEFINE m == [j EXCEPT !.step = "write"]
    <3>1. Relabelled(j, m) /\ m.alone = j.alone /\ m.mixed = j.mixed
      BY <1>2, RelabelledWriter, Zenon
    <3>2. k = m
      BY <2>1, Zenon
    <3> HIDE DEF k, m
    <3>3. QED
      BY <3>1, <3>2, Zenon DEF Relabelled
  <2>2. CASE ~WriteAllowed(j)
    BY <1>3, <2>2, Zenon
  <2>3. QED
    BY <2>1, <2>2, Zenon
<1> HIDE DEF k
<1>5. JobsOK(job') /\ AloneOK(disk, job') /\ SettledOK(disk, job', settled)
  BY <1>1, <1>4, ReplacedKeeps, Zenon DEF BuildInv
<1>6. QED
  BY <1>1, <1>5, Zenon DEF BuildInv

\* A process stops, between two files or inside one.
LEMMA StopKeeps ==
    ASSUME BuildInv, NEW p \in Processes, Stop(p)
    PROVE  BuildInv'
<1> DEFINE path == Head(job[p].todo).path
<1>1. /\ job' = [job EXCEPT ![p] = Idle] /\ settled' = settled /\ decided' = decided
      /\ disk' = disk \/ (job[p].state = "writing" /\ disk' = written(disk, path, Torn))
  BY Zenon DEF Stop
<1>2. CASE disk' = disk
  <2>1. ~Emitting(Idle)
    BY DEF Emitting, Idle
  <2>2. JobsOK(job') /\ AloneOK(disk, job') /\ SettledOK(disk, job', settled)
    BY <1>1, <2>1, ReplacedKeeps, Zenon DEF BuildInv
  <2>3. QED
    BY <1>1, <1>2, <2>2, Zenon DEF BuildInv
<1>3. CASE job[p].state = "writing" /\ disk' = written(disk, path, Torn)
  <2>1. DiskOK(disk') /\ JobsOK(job') /\ AloneOK(disk', job') /\ SettledOK(disk', job', settled)
    BY <1>1, <1>3, TornKeeps, Zenon
  <2>2. QED
    BY <1>1, <2>1, Zenon DEF BuildInv
<1>4. QED
  BY <1>1, <1>2, <1>3, Zenon

-----------------------------------------------------------------------------
(* ------------------------------- Theorems ------------------------------ *)

\* What an earlier build left is accounted for, and nobody builds yet.
LEMMA InitBuild == Init => BuildInv
<1> SUFFICES ASSUME Init PROVE BuildInv
  OBVIOUS
<1>1. decided = Decisions /\ job = [p \in Processes |-> Idle] /\ settled = NoEmission
  BY DEF Init
<1>2. DiskOK(disk)
  BY EarlierBuildsAssumption, Zenon DEF Init, DiskOK
<1>3. \A p \in Processes : job[p] = Idle
  BY <1>1, Zenon
<1>4. ~Emitting(Idle)
  BY DEF Emitting, Idle
<1>5. JobsOK(job)
  BY <1>1, <1>3 DEF JobsOK
<1>6. QED
  BY <1>1, <1>2, <1>3, <1>4, <1>5, Zenon DEF BuildInv, AloneOK, SettledOK

\* One step per action of the builds.
LEMMA NextBuild == BuildInv /\ [Next]_vars => BuildInv'
<1> SUFFICES ASSUME BuildInv, [Next]_vars PROVE BuildInv'
  OBVIOUS
<1>1. ASSUME NEW p \in Processes, NEW c \in Sources, NEW used, CompileObject(p, c, used) PROVE BuildInv'
  BY <1>1, CompileObjectKeeps, Zenon
<1>2. ASSUME NEW p \in Processes, NEW e \in OneShots, Compile(p, e) PROVE BuildInv'
  BY <1>2, CompileKeeps, Zenon
<1>3. ASSUME NEW p \in Processes, NEW request \in Links, LinkHeaders(p, request) PROVE BuildInv'
  BY <1>3, LinkHeadersKeeps, Zenon
<1>4. ASSUME NEW p \in Processes, LinkLoad(p) PROVE BuildInv'
  BY <1>4, LinkLoadKeeps, Zenon
<1>5. ASSUME NEW p \in Processes, CheckWrite(p) PROVE BuildInv'
  BY <1>5, CheckWriteKeeps, Zenon
<1>6. ASSUME NEW p \in Processes, WriteFile(p) PROVE BuildInv'
  BY <1>6, WriteFileKeeps, Zenon
<1>7. ASSUME NEW p \in Processes, Stop(p) PROVE BuildInv'
  BY <1>7, StopKeeps, Zenon
<1>8. CASE UNCHANGED vars
  BY <1>8, Zenon DEF vars, BuildInv
<1>9. QED
  BY <1>1, <1>2, <1>3, <1>4, <1>5, <1>6, <1>7, <1>8, Zenon DEF Next

\* So it holds in every state that builds reach.
LEMMA BuildInvAlways == Spec => []BuildInv
  BY InitBuild, NextBuild, PTL DEF Spec

\* Whatever compile, link and compile-object processes are interrupted in the
\* output directory or run over each other there, a package that open_model
\* hands out is one the compiler accepted, with every file of it on disk.
THEOREM OpenPackageAlwaysWhole == Spec => []OpenPackageIsWhole
<1>1. BuildInv => OpenPackageIsWhole
  BY WholeFromInv, Zenon DEF BuildInv
<1>2. QED
  BY <1>1, BuildInvAlways, PTL

\* Nor does load_multi_part ever load partitions of two emissions: all files
\* of the constraint model it loads are those of a single one.
THEOREM LoadedCcmAlwaysOneEmission == Spec => []LoadedCcmIsOneEmission
<1>1. BuildInv => LoadedCcmIsOneEmission
  BY LoadedFromInv, Zenon DEF BuildInv
<1>2. QED
  BY <1>1, BuildInvAlways, PTL

\* When the last build into the directory ran alone and to its end, package and
\* constraint model open and are its own, over whatever earlier or interrupted
\* builds left there, until another emission begins.
THEOREM CompletedBuildAlwaysAgrees == Spec => []CompletedBuildAgrees
<1>1. BuildInv => CompletedBuildAgrees
  BY AgreesFromFiles, Zenon DEF BuildInv, SettledOK, CompletedBuildAgrees
<1>2. QED
  BY <1>1, BuildInvAlways, PTL
=============================================================================
