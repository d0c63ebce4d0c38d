-------------------------------- MODULE Build --------------------------------
(***************************************************************************)
(* Builds over one disk: compile-object, link and compile processes that   *)
(* run one after the other or at the same time, write their files one by   *)
(* one, and may stop (an I/O error, a kill, a crash) between any two.      *)
(*                                                                         *)
(* A process is idle, has read object headers and is about to load their   *)
(* chunks ("loading"), or has files left to write ("writing").             *)
(*                                                                         *)
(* What the compiler decides is a constant, made once for the inputs:      *)
(* Decisions is [objects, staged, verified, compilable, partitions], which *)
(* chunks compile as objects against which interfaces, which sets pass     *)
(* stage 1 of a link (all but the interface hashes, which the objects      *)
(* bring) and the whole-model checks, which sets compile, and for an       *)
(* emission the partitions it writes.  BuildDecisions says what these are. *)
(***************************************************************************)
EXTENDS PackageStore

CONSTANTS Processes,
          Unions,         \* the chunk sets that builds may put together
          OneShots,       \* the emissions a one-shot compile is asked for
          Links,          \* the link requests
          Sources,        \* the chunks compiled as objects
          Uses,           \* unit -> the units it may be compiled against
          ClusterSizes,   \* the cluster sizes asked for
          EarlierBuilds,  \* the disks earlier builds left behind
          Decisions,      \* the compiler's decisions on these inputs
          PartitionNames, \* the directories a partition may be written to
          MaxRuns         \* bound: processes started

ASSUME MaxRunsAssumption == MaxRuns \in Nat

VARIABLES disk,      \* path -> content
          job,       \* process -> what it is doing
          runs,      \* processes started so far
          settled,   \* the last emission, if it ran alone and to its end
          decided    \* the compiler's decisions, which never change

vars == <<disk, job, runs, settled, decided>>

Out == "out"
Idle == [state |-> "idle"]
NoEmission == [kind |-> "none"]

Emissions == {Emission(C, k) : C \in Unions, k \in ClusterSizes}
accepted(d) == d.compilable \cup (d.staged \cap d.verified)

\* compile: the package, then the constraint model.
emit_writes(e, names) == write_package(Out, e.model) \o emit_ccm_dir(Out, e, names)

\* What the inputs are: sets of chunks, each in one order; emissions of these
\* sets; an output directory that is no unit's; partition directories that are
\* none of the package's.
ASSUME ChunkOrderAssumption ==
    \A C \in Unions \cup {{c} : c \in Chunks} : chunk_order(C) \in Seq(C) /\ Range(chunk_order(C)) = C
ASSUME RequestsAssumption ==
    OneShots \subseteq Emissions /\ \A request \in Links : request.cluster \in ClusterSizes
ASSUME DirectoriesAssumption == Sources \subseteq Chunks /\ \A c \in Chunks : UnitOf[c] # Out
ASSUME DecisionsAssumption ==
    /\ Decisions.compilable \subseteq Unions /\ Decisions.staged \subseteq Unions
    /\ DOMAIN Decisions.partitions = {e \in Emissions : e.model \in accepted(Decisions)}
    /\ \A e \in DOMAIN Decisions.partitions : Decisions.partitions[e] \in Seq(PartitionNames)
ASSUME PartitionNamesAssumption == {"chunk", "cmp", "ccm"} \cap PartitionNames = {}

\* What earlier builds left in the output directory: torn files, and files
\* that some emission of a model the compiler accepted writes there.
emitted_by(partitions, w) == \E e \in DOMAIN partitions : w \in Range(emit_writes(e, partitions[e]))
ASSUME EarlierBuildsAssumption ==
    \A d \in EarlierBuilds : \A path \in DOMAIN d : path[1] = Out =>
        d[path] = Torn \/ emitted_by(Decisions.partitions, Write(path, d[path]))

Init == /\ disk \in EarlierBuilds
        /\ job = [p \in Processes |-> Idle]
        /\ runs = 0
        /\ settled = NoEmission
        /\ decided = Decisions

-----------------------------------------------------------------------------
(* ------------------------------ Processes ------------------------------ *)

Emitting(j) == j.state = "writing" /\ j.emission # NoEmission

Writing(todo, emission, force_lock) ==
    [state |-> "writing", todo |-> todo, step |-> "write", mixed |-> FALSE, emission |-> emission,
     alone |-> \A q \in Processes : ~Emitting(job[q]), force_lock |-> force_lock]

\* A process that starts to emit takes the others' exclusiveness away.
StartWriting(p, w) ==
    /\ job' = [q \in Processes |->
                 CASE q = p -> w
                   [] Emitting(w) /\ q # p /\ Emitting(job[q]) -> [job[q] EXCEPT !.alone = FALSE]
                   [] OTHER -> job[q]]
    /\ settled' = IF Emitting(w) THEN NoEmission ELSE settled

Start(p) == job[p] = Idle /\ runs < MaxRuns /\ runs' = runs + 1

\* read_headers: the objects found in the directories of some units.
headers_of(used) == {read_from_dir(disk, u) : u \in used}

\* compile-object of one chunk against the headers found in units' directories.
CompileObject(p, c, used) ==
    LET headers == headers_of(used)
    IN  /\ Start(p)
        /\ \A u \in used : readable(disk, HeaderFile(u))
        /\ <<c, all_chunks(headers)>> \in decided.objects
        /\ StartWriting(p, Writing(write_object(UnitOf[c], object_of({c}, headers)), NoEmission, FALSE))
        /\ UNCHANGED <<disk, decided>>

\* compile: verify, then write.
Compile(p, e) ==
    /\ Start(p)
    /\ e.model \in decided.compilable
    /\ StartWriting(p, Writing(emit_writes(e, decided.partitions[e]), e, FALSE))
    /\ UNCHANGED <<disk, decided>>

\* link, first half: the headers, the lock if one is asked for, stage 1.  A
\* request is [units, lock, allow_extra, write_lock, force_lock, cluster].
LinkHeaders(p, request) ==
    LET headers == headers_of(request.units)
    IN  /\ Start(p)
        /\ \A u \in request.units : readable(disk, HeaderFile(u))
        /\ request.lock => /\ readable(disk, LockPath)
                           /\ check_lock(disk[LockPath].pins, headers, request.allow_extra)
        /\ check_interface_hashes(headers)
        /\ all_chunks(headers) \in decided.staged
        /\ job' = [job EXCEPT ![p] = [state |-> "loading", headers |-> headers, request |-> request]]
        /\ UNCHANGED <<disk, settled, decided>>

\* Second half: the chunk bodies, the whole-model checks, then the writes, the
\* lock last.
LinkLoad(p) ==
    LET j == job[p]
        e == Emission(all_chunks(j.headers), j.request.cluster)
        lock_writes == IF j.request.write_lock
                       THEN <<Write(LockPath, [kind |-> "lock", pins |-> lock_of(j.headers)])>> ELSE <<>>
    IN  /\ j.state = "loading"
        /\ IF /\ \A h \in j.headers : load_chunks(disk, h.unit, h)
              /\ e.model \in decided.verified
           THEN StartWriting(p, Writing(emit_writes(e, decided.partitions[e]) \o lock_writes, e, j.request.force_lock))
           ELSE job' = [job EXCEPT ![p] = Idle] /\ UNCHANGED settled
        /\ UNCHANGED <<disk, runs, decided>>

\* Before a write: write_package reads its own package back before the
\* manifest, and a lock that differs is left as it is unless forced.
WriteAllowed(j) ==
    LET w == Head(j.todo) IN
    /\ w.path = CmpManifestFile(Out) => verify_index_integrity(disk, Out, j.emission.model)
    /\ w.path = LockPath /\ ~j.force_lock => LockPath \notin DOMAIN disk \/ disk[LockPath] = w.content
CheckWrite(p) ==
    /\ job[p].state = "writing" /\ job[p].step = "check"
    /\ job' = [job EXCEPT ![p] = IF WriteAllowed(@) THEN [@ EXCEPT !.step = "write"] ELSE Idle]
    /\ UNCHANGED <<disk, runs, settled, decided>>

\* One file.  A process that is at the same file may have been inside it at
\* the same time; the bytes of the two are then mixed, now or when it ends.
at(q, path) == job[q].state = "writing" /\ Head(job[q].todo).path = path
WriteFile(p) ==
    LET j == job[p]
        w == Head(j.todo)
        rest == Tail(j.todo)
        others == {q \in Processes \ {p} : at(q, w.path)}
        next == IF rest[1].path \in {CmpManifestFile(Out), LockPath} THEN "check" ELSE "write"
        emitted == Emitting(j) /\ j.alone /\ w.path = <<Out, "ccm", "partitions">>
    IN  /\ j.state = "writing" /\ j.step = "write"
        /\ \E content \in {w.content} \cup (IF j.mixed \/ others # {} THEN {Torn} ELSE {}) :
              disk' = written(disk, w.path, content)
        /\ job' = [q \in Processes |->
                     CASE q = p -> IF rest = <<>> THEN Idle
                                   ELSE [j EXCEPT !.todo = rest, !.step = next, !.mixed = FALSE]
                       [] q \in others -> [job[q] EXCEPT !.mixed = TRUE]
                       [] OTHER -> job[q]]
        /\ settled' = IF emitted THEN j.emission ELSE settled
        /\ UNCHANGED <<runs, decided>>

\* An error or a crash: between two files, or inside one.
Stop(p) ==
    /\ job[p].state # "idle"
    /\ \/ UNCHANGED disk
       \/ /\ job[p].state = "writing" /\ job[p].step = "write"
          /\ disk' = written(disk, Head(job[p].todo).path, Torn)
    /\ job' = [job EXCEPT ![p] = Idle]
    /\ UNCHANGED <<runs, settled, decided>>

Next == \E p \in Processes :
    \/ \E c \in Sources : \E used \in SUBSET Uses[UnitOf[c]] : CompileObject(p, c, used)
    \/ \E e \in OneShots : Compile(p, e)
    \/ \E request \in Links : LinkHeaders(p, request)
    \/ LinkLoad(p)
    \/ CheckWrite(p)
    \/ WriteFile(p)
    \/ Stop(p)

Spec == Init /\ [][Next]_vars

-----------------------------------------------------------------------------
(* ------------------------------ Properties ----------------------------- *)

on_disk(w) == w.path \in DOMAIN disk /\ disk[w.path] = w.content

\* A package that opens is one the compiler accepted as a whole: whatever
\* builds were interrupted in the directory or ran over each other, open_model
\* never hands out a model of torn or mixed files.
OpenPackageIsWhole ==
    LET C == open_model(disk, Out)
    IN  C # NoPackage => /\ C \in accepted(decided)
                         /\ \A w \in Range(write_package(Out, C)) : on_disk(w)

\* A constraint model that loads has every file of one single emission, never
\* partitions of two (load_multi_part).  It may be an emission for another
\* package than the one beside it.
LoadedCcmIsOneEmission ==
    load_from_cmp(disk, Out) = "loaded" =>
        \E e \in DOMAIN decided.partitions :
            \A w \in Range(emit_ccm_dir(Out, e, decided.partitions[e])) :
                on_disk(w)

\* When the last build into the directory ran alone and to the end, the
\* package and the constraint model are both its own, whatever earlier builds
\* left there.
CompletedBuildAgrees ==
    settled # NoEmission =>
        /\ open_model(disk, Out) = settled.model
        /\ load_from_cmp(disk, Out) = "loaded"
        /\ disk[<<Out, "ccm", "manifest">>].bound = settled.model
=============================================================================
