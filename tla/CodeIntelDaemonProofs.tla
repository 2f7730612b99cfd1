------------------------ MODULE CodeIntelDaemonProofs ------------------------
(* What the code-intel daemon promises for every number of sessions, clients, *)
(* processes, files and edits: its variables keep their shape, and an answer    *)
(* is never older than the question; and, under one command at a time, what      *)
(* the commands leave running and whom they signal.                              *)
EXTENDS CodeIntelDaemon, TLAPS

(* Input by input, a is no newer than b.                                       *)
NoNewer(a, b) == \A f \in Inputs : a[f] <= b[f]

(* A question waits with the content of its time; its answer is no older.      *)
QueryInv ==
  \A k \in Clients :
    /\ query[k].pc # "idle" => query[k].since \in Contents /\ NoNewer(query[k].since, disk)
    /\ query[k].pc = "sent" => query[k].at \in Pids
    /\ query[k].pc = "done" => query[k].answer \in Contents /\ NoNewer(query[k].since, query[k].answer)

(* An entry is no older than the manifest it is labelled with.                 *)
Sound(e) ==
  IF e.manifest = None THEN e.content = None /\ e.reference = None
  ELSE /\ NoNewer(e.manifest, disk)
       /\ e.content # None /\ NoNewer(e.manifest, e.content)
       /\ e.reference # None => NoNewer(e.manifest, e.reference)
CacheInv == \A d \in Pids : \A name \in {"graph", "project"} : Sound(cache[d][name])

(* The client of a job waits for it at the daemon.                             *)
ClientInv ==
  \A d \in Pids :
    job[d].client # None => /\ query[job[d].client].pc = "sent" /\ query[job[d].client].at = d
                            /\ job[d].step # "idle"

(* What has been read, or found in the cache, is no older than the question.   *)
JobOK(d) ==
  LET j == job[d]
      since == query[j.client].since
      e == cache[d][CacheOf(j.kind)] IN
    /\ j.step \in {"hash", "load", "reference"} => j.read # None
    /\ j.step = "hash" =>
         \A f \in Inputs \ j.todo : j.read[f] <= disk[f] /\ (j.client # None => since[f] <= j.read[f])
    /\ j.step = "load" =>
         /\ j.hash # None /\ NoNewer(j.hash, disk)
         /\ j.client # None => NoNewer(since, j.hash)
         /\ \A f \in Inputs \ j.todo : j.hash[f] <= j.read[f]
    /\ j.step \in {"reference", "answer"} =>
         /\ e.manifest # None
         /\ j.client # None => NoNewer(since, e.manifest)
    /\ j.step = "reference" =>
         /\ j.kind = "refs"
         /\ \A f \in Inputs \ j.todo : e.manifest[f] <= j.read[f]
    /\ j.step = "answer" /\ j.kind = "refs" => e.reference # None
JobInv == \A d \in Pids : JobOK(d)

Inv == TypeOK /\ QueryInv /\ CacheInv /\ ClientInv /\ JobInv

-----------------------------------------------------------------------------
(* Types                                                                      *)

LEMMA DisconnectTyped ==
  ASSUME ClientsOK, NEW lost \in SUBSET Clients, Disconnect(lost)
  PROVE  ClientsOK'
BY ZenonT(60) DEF ClientsOK, Queries, Disconnect, Maybe

LEMMA DieTyped ==
  ASSUME TypeOK, NEW d \in Pids, Die(d)
  PROVE  /\ ClientsOK' /\ WorkOK'
         /\ proc' \in [Pids -> Daemon \cup {"unborn", "dead", "stranger"}]
         /\ \A p \in Pids : proc'[p] = "unborn" => proc[p] = "unborn"
         /\ term' \subseteq {p \in Pids : proc'[p] \in {"ready", "closing"}}
<1>1. ClientsOK'
  <2>1. Connected(d) \in SUBSET Clients
    BY DEF Connected
  <2>2. QED BY <2>1, DisconnectTyped DEF Die, TypeOK
<1>2. WorkOK'
  <2>1. NoJob \in Jobs /\ Empty \in Entries
    BY DEF NoJob, Jobs, Empty, Entries, Maybe, AllKinds
  <2>2. QED BY <2>1 DEF Die, TypeOK, WorkOK
<1>3. /\ proc' \in [Pids -> Daemon \cup {"unborn", "dead", "stranger"}]
      /\ \A p \in Pids : proc'[p] = "unborn" => proc[p] = "unborn"
      /\ term' \subseteq {p \in Pids : proc'[p] \in {"ready", "closing"}}
  BY DEF Die, TypeOK, ProcessesOK
<1>4. QED BY <1>1, <1>2, <1>3

LEMMA GoTyped ==
  ASSUME SessionsOK, NEW c \in Sessions, NEW pc, Go(c, pc),
         pc \in {"probe", "identify", "term", "poll", "clear", "spawn", "wait"},
         pc \in {"probe", "identify", "term", "poll", "wait"} => cli[c].pid # None
  PROVE  SessionsOK'
BY DEF SessionsOK, Go

LEMMA PickTyped ==
  ASSUME SessionsOK, None \notin Pids, NEW c \in Sessions, NEW pid \in Pids,
         NEW pc \in {"clear", "probe", "wait"},
         cli' = [cli EXCEPT ![c] = [@ EXCEPT !.pc = pc, !.pid = pid]]
  PROVE  SessionsOK'
<1>1. pid \in Maybe(Pids) /\ pid # None
  BY DEF Maybe
<1>2. \A s \in Sessions : cli'[s] = IF s = c THEN [cli[c] EXCEPT !.pc = pc, !.pid = pid] ELSE cli[s]
  BY DEF SessionsOK
<1>3. cli' \in [Sessions -> [pc : {"idle", "read", "probe", "identify", "term", "poll", "clear", "spawn", "wait"},
                           command : {"stop", "restart"}, pid : Maybe(Pids), tools : 1..MaxTools,
                           said : {"nothing", "stopped", "started", "failed", "preserved"}]]
  BY ZenonT(60), <1>1 DEF SessionsOK
<1>4. \A s \in Sessions : cli'[s].pc \in {"probe", "identify", "term", "poll", "wait"} => cli'[s].pid # None
  BY <1>1, <1>2 DEF SessionsOK
<1>5. QED BY <1>3, <1>4 DEF SessionsOK

LEMMA SayTyped ==
  ASSUME SessionsOK, DaemonAssumption, NEW c \in Sessions,
         NEW said \in {"nothing", "stopped", "started", "failed", "preserved"}, Say(c, said)
  PROVE  SessionsOK'
BY DEF SessionsOK, Say, NoCommand, Maybe, DaemonAssumption

LEMMA StoppedTyped ==
  ASSUME SessionsOK, DaemonAssumption, NEW c \in Sessions, Stopped(c)
  PROVE  SessionsOK'
BY GoTyped, SayTyped DEF Stopped

LEMMA SetTyped ==
  ASSUME ClientsOK, NEW k \in Clients, Set(k, "oneshot")
  PROVE  ClientsOK'
BY DEF ClientsOK, Queries, Set

LEMMA MoveTyped ==
  ASSUME ClientsOK, NEW k \in Clients, NEW at \in Maybe(Pids), NEW pc \in {"sent", "oneshot", "retry"},
         query' = [query EXCEPT ![k] = [@ EXCEPT !.pc = pc, !.at = at]]
  PROVE  ClientsOK'
BY DEF ClientsOK, Queries

LEMMA DeliverTyped ==
  ASSUME ClientsOK, NEW k \in Clients, NEW answer \in Maybe(Contents), Deliver(k, answer)
  PROVE  ClientsOK'
BY ZenonT(60) DEF ClientsOK, Queries, Deliver, Maybe

LEMMA EntryTyped ==
  ASSUME WorkOK, NEW d \in Pids
  PROVE  Entry(d) \in Entries
BY DEF WorkOK, Entry, CacheOf

LEMMA StoreTyped ==
  ASSUME WorkOK, NEW d \in Pids, NEW e \in Entries, Store(d, e)
  PROVE  cache' \in [Pids -> [{"graph", "project"} -> Entries]]
BY DEF WorkOK, Store, CacheOf

LEMMA ManifestTyped ==
  ASSUME NEW content \in Contents
  PROVE  Manifest(content) \in Manifests
BY DaemonAssumption DEF Manifest, Manifests, Contents, DaemonAssumption

LEMMA LoadsTyped == \A kind : Loads(kind) \in SUBSET Files
BY DaemonAssumption DEF Loads, DaemonAssumption

LEMMA CompleteTyped ==
  ASSUME WorkOK, NEW d \in Pids, NEW e \in Entries,
         0 \in 0..MaxEdits
  PROVE  /\ Complete(d, e) \in Jobs /\ Reply(d) \in Jobs
         /\ \A hash \in Maybe(Manifests), files \in SUBSET Files : Scan(d, "load", files, hash) \in Jobs
<1>1. [f \in Files |-> 0] \in Contents
  BY DEF Contents
<1>2. Reply(d) \in Jobs
  BY DEF WorkOK, Jobs, Reply, Maybe
<1>3. \A hash \in Maybe(Manifests), files \in SUBSET Files :
        Scan(d, "load", files, hash) \in Jobs /\ Scan(d, "reference", files, hash) \in Jobs
  BY ZenonT(60), <1>1 DEF WorkOK, Jobs, Scan, Maybe
<1>4. QED BY <1>2, <1>3 DEF Complete, Maybe

LEMMA PrepareTyped ==
  ASSUME TypeOK, NEW d \in Pids, Prepare(d)
  PROVE  TypeOK'
<1> USE DaemonAssumption DEF DaemonAssumption, TypeOK
<1>1. ProcessesOK'
  BY DEF ProcessesOK, Maybe, Daemon, Starting, Prepare, state, work
<1>2. QED BY <1>1 DEF SessionsOK, ClientsOK, WorkOK, Prepare, state, work

LEMMA BindTyped ==
  ASSUME TypeOK, NEW d \in Pids, Bind(d)
  PROVE  TypeOK'
<1> USE DaemonAssumption DEF DaemonAssumption, TypeOK
<1>1. ProcessesOK'
  BY DieTyped DEF ProcessesOK, Maybe, Daemon, Starting, Bind
<1>2. ClientsOK'
  BY DieTyped DEF ClientsOK, Queries, Bind, work
<1>3. WorkOK'
  BY DieTyped DEF WorkOK, Jobs, Bind, work
<1>4. QED BY <1>1, <1>2, <1>3 DEF SessionsOK, Bind, state, work

LEMMA PublishTyped ==
  ASSUME TypeOK, NEW d \in Pids, Publish(d)
  PROVE  TypeOK'
<1> USE DaemonAssumption DEF DaemonAssumption, TypeOK
<1>1. ProcessesOK'
  BY DEF ProcessesOK, Maybe, Daemon, Starting, Publish, state, work
<1>2. QED BY <1>1 DEF SessionsOK, ClientsOK, WorkOK, Publish, state, work

LEMMA CloseTyped ==
  ASSUME TypeOK, NEW d \in Pids, Close(d)
  PROVE  TypeOK'
<1> USE DaemonAssumption DEF DaemonAssumption, TypeOK
<1>1. ProcessesOK'
  BY SMTT(30) DEF ProcessesOK, Maybe, Daemon, Starting, Close, state, work
<1>2. ClientsOK'
  BY DisconnectTyped DEF Close, Connected
<1>3. QED BY <1>1, <1>2 DEF SessionsOK, WorkOK, Close, state, work

LEMMA ExitTyped ==
  ASSUME TypeOK, NEW d \in Pids, Exit(d)
  PROVE  TypeOK'
<1> USE DaemonAssumption DEF DaemonAssumption, TypeOK
<1>1. ProcessesOK'
  BY DieTyped DEF ProcessesOK, Exit, ClearState, Maybe
<1>2. ClientsOK'
  BY DieTyped DEF Exit
<1>3. WorkOK'
  BY DieTyped DEF Exit
<1>4. QED BY <1>1, <1>2, <1>3 DEF SessionsOK, Exit, state, work

LEMMA SignalledOutcome ==
  ASSUME NEW d, Signalled(d)
  PROVE  \/ Die(d)
         \/ UNCHANGED <<proc, query, work>>
BY DEF Signalled

LEMMA SignalledTyped ==
  ASSUME TypeOK, NEW d \in Pids, Signalled(d)
  PROVE  /\ ClientsOK' /\ WorkOK'
         /\ proc' \in [Pids -> Daemon \cup {"unborn", "dead", "stranger"}]
         /\ \A p \in Pids : proc'[p] = "unborn" => proc[p] = "unborn"
         /\ term' \subseteq {p \in Pids : proc'[p] \in {"ready", "closing"}}
<1>1. CASE proc[d] = "ready"
  <2>1. term' = term \cup {d} /\ UNCHANGED <<proc, query, work>>
    BY <1>1 DEF Signalled, Starting
  <2>2. QED BY <1>1, <2>1 DEF TypeOK, ProcessesOK, ClientsOK, WorkOK, work
<1>2. CASE proc[d] \in Starting \cup {"closing", "stranger"}
  BY <1>2, DieTyped DEF Signalled, Starting
<1>3. CASE proc[d] \notin Starting \cup {"ready", "closing", "stranger"}
  <2>1. UNCHANGED <<proc, term, query, work>>
    BY <1>3 DEF Signalled
  <2>2. QED BY <2>1 DEF TypeOK, ProcessesOK, ClientsOK, WorkOK, work
<1>4. QED BY <1>1, <1>2, <1>3

LEMMA InterruptTyped ==
  ASSUME TypeOK, NEW d \in Pids, Interrupt(d)
  PROVE  TypeOK'
<1> USE DaemonAssumption DEF DaemonAssumption, TypeOK
<1>1. ProcessesOK'
  BY SignalledTyped DEF ProcessesOK, Interrupt, state, Maybe
<1>2. ClientsOK' /\ WorkOK'
  BY SignalledTyped DEF Interrupt
<1>3. QED BY <1>1, <1>2 DEF SessionsOK, Interrupt, state, work

LEMMA CrashTyped ==
  ASSUME TypeOK, NEW d \in Pids, Crash(d)
  PROVE  TypeOK'
<1> USE DaemonAssumption DEF DaemonAssumption, TypeOK
<1>1. ProcessesOK'
  BY DieTyped DEF ProcessesOK, Crash, state, Maybe
<1>2. ClientsOK'
  BY DieTyped DEF Crash
<1>3. WorkOK'
  BY DieTyped DEF Crash
<1>4. QED BY <1>1, <1>2, <1>3 DEF SessionsOK, Crash, state, work

LEMMA ReuseTyped ==
  ASSUME TypeOK, NEW d \in Pids, Reuse(d)
  PROVE  TypeOK'
<1> USE DaemonAssumption DEF DaemonAssumption, TypeOK
<1>1. ProcessesOK'
  BY DEF ProcessesOK, Maybe, Daemon, Starting, Reuse, state, work
<1>2. QED BY <1>1 DEF SessionsOK, ClientsOK, WorkOK, Reuse, state, work

LEMMA BeginTyped ==
  ASSUME TypeOK, NEW c \in Sessions, NEW command \in {"stop", "restart"}, Begin(c, command)
  PROVE  TypeOK'
<1> USE DaemonAssumption DEF DaemonAssumption, TypeOK
<1>1. SessionsOK'
  BY DEF Begin, SessionsOK, NoCommand, Maybe
<1>2. QED BY <1>1 DEF ProcessesOK, ClientsOK, WorkOK, Begin, state, work

LEMMA ReadStateTyped ==
  ASSUME TypeOK, NEW c \in Sessions, ReadState(c)
  PROVE  TypeOK'
<1> USE DaemonAssumption DEF DaemonAssumption, TypeOK
<1>1. SessionsOK'
  <2>1. CASE meta # None
    <3>1. meta \in Pids
      BY <2>1 DEF ProcessesOK, Maybe
    <3>2. Validate(c, meta) \in {"clear", "probe", "wait"}
      BY DEF Validate
    <3>3. QED BY <2>1, <3>1, <3>2, PickTyped DEF ReadState
  <2>2. CASE meta = None /\ sock # None
    BY <2>2, GoTyped DEF ReadState
  <2>3. CASE meta = None /\ sock = None
    BY <2>3, StoppedTyped DEF ReadState
  <2>4. QED BY <2>1, <2>2, <2>3
<1>2. QED BY <1>1 DEF ProcessesOK, ClientsOK, WorkOK, ReadState, state, work

LEMMA ProbeTyped ==
  ASSUME TypeOK, NEW c \in Sessions, Probe(c)
  PROVE  TypeOK'
<1> USE DaemonAssumption DEF DaemonAssumption, TypeOK
<1>1. SessionsOK'
  BY GoTyped DEF Probe, SessionsOK
<1>2. QED BY <1>1 DEF ProcessesOK, ClientsOK, WorkOK, Probe, state, work

LEMMA IdentifyTyped ==
  ASSUME TypeOK, NEW c \in Sessions, Identify(c)
  PROVE  TypeOK'
<1> USE DaemonAssumption DEF DaemonAssumption, TypeOK
<1>1. SessionsOK'
  BY GoTyped, SayTyped DEF Identify, SessionsOK
<1>2. QED BY <1>1 DEF ProcessesOK, ClientsOK, WorkOK, Identify, state, work

LEMMA TerminateTyped ==
  ASSUME TypeOK, NEW c \in Sessions, Terminate(c)
  PROVE  TypeOK'
<1> USE DaemonAssumption DEF DaemonAssumption, TypeOK
<1>0. cli[c].pid \in Pids /\ Signalled(cli[c].pid)
  BY DEF Terminate, SessionsOK, Maybe
<1>1. ProcessesOK'
  BY <1>0, SignalledTyped DEF Terminate, ProcessesOK, state, Maybe
<1>2. SessionsOK'
  BY GoTyped DEF Terminate, SessionsOK
<1>3. ClientsOK' /\ WorkOK'
  BY <1>0, SignalledTyped
<1>4. QED BY <1>1, <1>2, <1>3 DEF Terminate, state, work

LEMMA PollTyped ==
  ASSUME TypeOK, NEW c \in Sessions, Poll(c)
  PROVE  TypeOK'
<1> USE DaemonAssumption DEF DaemonAssumption, TypeOK
<1>1. ProcessesOK'
  <2>1. PICK p \in Pids : p = cli[c].pid
    BY DEF Poll, SessionsOK, Maybe
  <2>2. CASE Die(p)
    BY <2>2, DieTyped DEF Poll, ProcessesOK, state, Maybe
  <2>3. CASE UNCHANGED <<proc, term>>
    BY <2>3 DEF Poll, ProcessesOK, state, Maybe
  <2>4. QED BY <2>1, <2>2, <2>3 DEF Poll, Kill
<1>2. SessionsOK'
  BY GoTyped DEF Poll
<1>3. ClientsOK'
  BY DieTyped DEF Poll, Kill, ClientsOK, Queries, work, SessionsOK, Maybe
<1>4. WorkOK'
  BY DieTyped DEF Poll, Kill, WorkOK, Jobs, work, SessionsOK, Maybe
<1>5. QED BY <1>1, <1>2, <1>3, <1>4 DEF Poll, state, work

LEMMA ClearTyped ==
  ASSUME TypeOK, NEW c \in Sessions, Clear(c)
  PROVE  TypeOK'
<1> USE DaemonAssumption DEF DaemonAssumption, TypeOK
<1>1. ProcessesOK'
  BY DEF Clear, ClearState, ProcessesOK, Maybe
<1>2. SessionsOK'
  BY StoppedTyped DEF Clear
<1>3. QED BY <1>1, <1>2 DEF ClientsOK, WorkOK, Clear, state, work

LEMMA SpawnTyped ==
  ASSUME TypeOK, NEW c \in Sessions, Spawn(c)
  PROVE  TypeOK'
<1> USE DaemonAssumption DEF DaemonAssumption, TypeOK
<1>1. ProcessesOK'
  BY DEF Spawn, Unborn, ProcessesOK, Maybe, Daemon, Starting, state
<1>2. SessionsOK'
  BY PickTyped DEF Spawn, Unborn
<1>3. QED BY <1>1, <1>2 DEF ClientsOK, WorkOK, Spawn, state, work

LEMMA WaitTyped ==
  ASSUME TypeOK, NEW c \in Sessions, Wait(c)
  PROVE  TypeOK'
<1> USE DaemonAssumption DEF DaemonAssumption, TypeOK
<1>1. SessionsOK'
  BY SayTyped DEF Wait
<1>2. QED BY <1>1 DEF ProcessesOK, ClientsOK, WorkOK, Wait, state, work

LEMMA AskTyped ==
  ASSUME TypeOK, NEW k \in Clients, NEW kind \in Kinds, Ask(k, kind)
  PROVE  TypeOK'
<1> USE DaemonAssumption DEF DaemonAssumption, TypeOK
<1>1. ClientsOK'
  BY DEF Ask, ClientsOK, Queries, NoQuery, Maybe, AllKinds
<1>2. QED BY <1>1 DEF ProcessesOK, SessionsOK, WorkOK, Ask, state, work

LEMMA ConnectTyped ==
  ASSUME TypeOK, NEW k \in Clients, Connect(k)
  PROVE  TypeOK'
<1> USE DaemonAssumption DEF DaemonAssumption, TypeOK
<1>1. ClientsOK'
  <2>1. CASE sock # None /\ proc[sock] \in Listening
    <3>1. sock \in Maybe(Pids)
      BY DEF ProcessesOK, Maybe
    <3>2. QED BY <2>1, <3>1, MoveTyped DEF Connect
  <2>2. QED BY <2>1, SetTyped DEF Connect
<1>2. QED BY <1>1 DEF ProcessesOK, SessionsOK, WorkOK, Connect, state, work

LEMMA TimeOutTyped ==
  ASSUME TypeOK, NEW k \in Clients, TimeOut(k)
  PROVE  TypeOK'
<1> USE DaemonAssumption DEF DaemonAssumption, TypeOK
<1>1. ClientsOK'
  <2>1. None \in Maybe(Pids) /\ GiveUp(query[k].kind) \in {"sent", "oneshot", "retry"}
    BY DEF Maybe, GiveUp
  <2>2. QED BY <2>1, MoveTyped DEF TimeOut
<1>2. WorkOK'
  BY ZenonT(60) DEF TimeOut, WorkOK, Jobs, Maybe
<1>3. QED BY <1>1, <1>2 DEF ProcessesOK, SessionsOK, TimeOut, state, work

LEMMA OneShotTyped ==
  ASSUME TypeOK, NEW k \in Clients, OneShot(k)
  PROVE  TypeOK'
<1> USE DaemonAssumption DEF DaemonAssumption, TypeOK
<1>1. ClientsOK'
  BY DeliverTyped DEF OneShot, Maybe
<1>2. QED BY <1>1 DEF ProcessesOK, SessionsOK, WorkOK, OneShot, state, work

LEMMA DoneTyped ==
  ASSUME TypeOK, NEW k \in Clients, Done(k)
  PROVE  TypeOK'
<1> USE DaemonAssumption DEF DaemonAssumption, TypeOK
<1>1. ClientsOK'
  BY DEF Done, ClientsOK, Queries, NoQuery, Maybe, AllKinds
<1>2. QED BY <1>1 DEF ProcessesOK, SessionsOK, WorkOK, Done, state, work

LEMMA AcceptTyped ==
  ASSUME TypeOK, NEW d \in Pids, NEW k \in Clients, Accept(d, k)
  PROVE  TypeOK'
<1> USE DaemonAssumption DEF DaemonAssumption, TypeOK
<1>1. ClientsOK'
  BY DisconnectTyped DEF Accept, ClientsOK, Queries
<1>2. WorkOK'
  <2>1. [client |-> k, kind |-> query[k].kind, step |-> "hash",
         todo |-> Inputs, read |-> [f \in Files |-> 0], hash |-> None] \in Jobs
    BY DEF Jobs, ClientsOK, Queries, Contents, Maybe
  <2>2. QED BY <2>1 DEF Accept, WorkOK
<1>3. QED BY <1>1, <1>2 DEF ProcessesOK, SessionsOK, Accept, state, work

LEMMA ReadFileTyped ==
  ASSUME Inv, NEW d \in Pids, NEW f \in Files, ReadFile(d, f)
  PROVE  TypeOK'
<1> USE DaemonAssumption DEF DaemonAssumption, Inv, TypeOK
<1>1. WorkOK'
  <2>1. job[d] \in Jobs /\ job[d].read \in Contents
    BY DEF Inv, JobInv, JobOK, ReadFile, WorkOK, Jobs, Maybe
  <2>2. [job[d].read EXCEPT ![f] = disk[f]] \in Contents
    BY <2>1 DEF Contents
  <2>3. Reading(d, f) \in Jobs
    BY <2>1, <2>2 DEF Reading, Jobs, Maybe
  <2>4. QED BY <2>3 DEF ReadFile, WorkOK
<1>2. QED BY <1>1 DEF ProcessesOK, SessionsOK, ClientsOK, ReadFile, state, work

LEMMA HashedTyped ==
  ASSUME Inv, NEW d \in Pids, Hashed(d)
  PROVE  TypeOK'
<1> USE DaemonAssumption DEF DaemonAssumption, Inv, TypeOK
<1>1. WorkOK'
  <2>1. job[d] \in Jobs /\ job[d].read \in Contents
    BY DEF JobInv, JobOK, Hashed, WorkOK, Jobs, Maybe
  <2>2. Manifest(job[d].read) \in Maybe(Manifests)
    BY <2>1, ManifestTyped DEF Maybe
  <2>3. job'[d] \in Jobs /\ \A e \in Pids \ {d} : job'[e] = job[e]
    BY <2>2, EntryTyped, CompleteTyped, LoadsTyped DEF Hashed, WorkOK
  <2>4. QED BY <2>3 DEF Hashed, WorkOK
<1>2. QED BY <1>1 DEF ProcessesOK, SessionsOK, ClientsOK, Hashed, state, work

LEMMA LoadedTyped ==
  ASSUME TypeOK, NEW d \in Pids, Loaded(d)
  PROVE  TypeOK'
<1> USE DaemonAssumption DEF DaemonAssumption, TypeOK
<1>1. WorkOK'
  <2>1. Rebuilt(d) \in Entries
    BY DEF Rebuilt, WorkOK, Jobs, Entries, Maybe
  <2>2. QED BY <2>1, StoreTyped, CompleteTyped DEF Loaded, WorkOK
<1>2. QED BY <1>1 DEF ProcessesOK, SessionsOK, ClientsOK, Loaded, state, work

LEMMA ReferencedTyped ==
  ASSUME TypeOK, NEW d \in Pids, Referenced(d)
  PROVE  TypeOK'
<1> USE DaemonAssumption DEF DaemonAssumption, TypeOK
<1>1. WorkOK'
  <2>1. [Entry(d) EXCEPT !.reference = job[d].read] \in Entries
    BY EntryTyped DEF WorkOK, Jobs, Entries
  <2>2. QED BY <2>1, StoreTyped, CompleteTyped DEF Referenced, WorkOK
<1>2. QED BY <1>1 DEF ProcessesOK, SessionsOK, ClientsOK, Referenced, state, work

LEMMA AnswerTyped ==
  ASSUME TypeOK, NEW d \in Pids, Answer(d)
  PROVE  TypeOK'
<1> USE DaemonAssumption DEF DaemonAssumption, TypeOK
<1>1. ClientsOK'
  <2>1. CASE job[d].client = None
    BY <2>1 DEF Answer, ClientsOK
  <2>2. CASE job[d].client # None
    <3>1. job[d].client \in Clients
      BY <2>2 DEF WorkOK, Jobs, Maybe
    <3>2. Entry(d).reference \in Maybe(Contents) /\ Entry(d).content \in Maybe(Contents)
      BY EntryTyped DEF Entries
    <3>3. QED BY <2>2, <3>1, <3>2, DeliverTyped DEF Answer
  <2>3. QED BY <2>1, <2>2
<1>2. WorkOK'
  BY DEF Answer, WorkOK, Jobs, NoJob, Maybe, AllKinds
<1>3. QED BY <1>1, <1>2 DEF ProcessesOK, SessionsOK, Answer, state, work

LEMMA EditTyped ==
  ASSUME TypeOK, NEW f \in Files, Edit(f)
  PROVE  TypeOK'
<1> USE DaemonAssumption DEF DaemonAssumption, TypeOK
<1>1. disk' \in Contents
  BY DEF Edit, Contents
<1>2. QED BY <1>1 DEF ProcessesOK, SessionsOK, ClientsOK, WorkOK, Edit, state, work

LEMMA UpgradeTyped ==
  ASSUME TypeOK, Upgrade
  PROVE  TypeOK'
<1> USE DaemonAssumption DEF DaemonAssumption, TypeOK
<1>1. QED BY DEF ProcessesOK, SessionsOK, ClientsOK, WorkOK, Upgrade, state, work

-----------------------------------------------------------------------------
(* Freshness                                                                  *)

Fresh == QueryInv /\ CacheInv /\ ClientInv /\ JobInv

LEMMA FreshKept ==
  ASSUME Fresh, UNCHANGED <<query, job, cache, disk>>
  PROVE  Fresh'
BY DEF Fresh, QueryInv, CacheInv, Sound, ClientInv, JobInv, JobOK, NoNewer

(* Clients that wait at d for no job may be sent away.                         *)
LEMMA DisconnectFresh ==
  ASSUME Inv, NEW d \in Pids, NEW lost \in SUBSET Connected(d), ~Busy(d),
         Disconnect(lost), UNCHANGED <<job, cache, disk>>
  PROVE  Fresh'
<1> USE DEF Inv
<1>1. \A e \in Pids : job[e].client # None => job[e].client \in Clients /\ job[e].client \notin lost
  BY DEF TypeOK, WorkOK, Jobs, Maybe, ClientInv, Connected, Busy
<1>2. \A k \in Clients : k \notin lost => query'[k] = query[k]
  BY DEF Disconnect
<1>3. \A k \in lost : /\ query'[k].pc = "oneshot" /\ query'[k].since = query[k].since
                       /\ query[k].pc # "idle"
  BY DEF Disconnect, Connected, TypeOK, ClientsOK, Queries
<1>4. QueryInv'
  BY <1>2, <1>3 DEF QueryInv, NoNewer
<1>5. CacheInv' /\ ClientInv'
  BY <1>1, <1>2 DEF CacheInv, Sound, ClientInv, NoNewer
<1>6. JobInv'
  BY <1>1, <1>2 DEF JobInv, JobOK, NoNewer
<1>7. QED BY <1>4, <1>5, <1>6 DEF Fresh

LEMMA DieFresh ==
  ASSUME Inv, NEW d \in Pids, Die(d), UNCHANGED disk
  PROVE  Fresh'
<1> USE DEF Inv
<1>1. \A e \in Pids \ {d} : /\ job'[e] = job[e] /\ cache'[e] = cache[e]
                            /\ job[e].client # None => job[e].client \in Clients \ Connected(d)
  BY DEF Die, TypeOK, WorkOK, Jobs, Maybe, ClientInv, Connected
<1>2. job'[d] = NoJob /\ cache'[d] = [name \in {"graph", "project"} |-> Empty]
  BY DEF Die, TypeOK, WorkOK
<1>3. \A k \in Clients : k \notin Connected(d) => query'[k] = query[k]
  BY DEF Die, Disconnect
<1>4. \A k \in Connected(d) : /\ query'[k].pc = "oneshot" /\ query'[k].since = query[k].since
                               /\ query[k].pc # "idle"
  BY DEF Die, Disconnect, Connected, TypeOK, ClientsOK, Queries
<1>5. QueryInv'
  BY <1>3, <1>4 DEF Die, QueryInv, NoNewer, Connected
<1>6. CacheInv'
  BY <1>1, <1>2 DEF CacheInv, Sound, NoNewer, Empty
<1>7. ClientInv'
  BY <1>1, <1>2, <1>3 DEF ClientInv, NoJob
<1>8. JobInv'
  <2>1. ASSUME NEW e \in Pids \ {d}
        PROVE  job[e].client # None => query'[job[e].client] = query[job[e].client]
    BY <1>1, <1>3
  <2>2. QED BY <1>1, <1>2, <2>1 DEF JobInv, JobOK, NoJob, NoNewer
<1>9. QED BY <1>5, <1>6, <1>7, <1>8 DEF Fresh

(* A client that no job is for may change, as long as its question is kept.    *)
LEMMA ClientMoves ==
  ASSUME Inv, NEW k \in Clients, \A d \in Pids : job[d].client # k,
         \A other \in Clients \ {k} : query'[other] = query[other],
         query'[k].pc # "idle" => query'[k].since \in Contents /\ NoNewer(query'[k].since, disk),
         query'[k].pc = "sent" => query'[k].at \in Pids,
         query'[k].pc = "done" => query'[k].answer \in Contents /\ NoNewer(query'[k].since, query'[k].answer),
         UNCHANGED <<job, cache, disk>>
  PROVE  Fresh'
<1> USE DEF Inv
<1>1. \A d \in Pids : job[d].client # None => job[d].client \in Clients \ {k}
  BY DEF TypeOK, WorkOK, Jobs, Maybe
<1>2. \A d \in Pids : job[d].client # None => query'[job[d].client] = query[job[d].client]
  BY <1>1
<1>3. QueryInv'
  BY DEF QueryInv, NoNewer
<1>4. CacheInv' /\ ClientInv'
  BY <1>2 DEF CacheInv, Sound, ClientInv, NoNewer
<1>5. JobInv'
  BY <1>2 DEF JobInv, JobOK, NoNewer
<1>6. QED BY <1>3, <1>4, <1>5 DEF Fresh

LEMMA ClientStepFresh ==
  ASSUME Inv, NEW k \in Clients, ClientStep(k)
  PROVE  Fresh'
<1> USE DEF Inv
<1>0. query[k].pc # "sent" => \A d \in Pids : job[d].client # k
  BY DaemonAssumption DEF ClientInv, DaemonAssumption
<1>1. ASSUME NEW kind \in Kinds, Ask(k, kind)
      PROVE  Fresh'
  <2>1. /\ query'[k].pc \in {"connect", "oneshot"} /\ query'[k].since = disk
        /\ \A other \in Clients \ {k} : query'[other] = query[other]
    BY <1>1 DEF Ask, NoQuery, TypeOK, ClientsOK
  <2>2. NoNewer(disk, disk)
    BY DaemonAssumption DEF NoNewer, TypeOK, Contents, DaemonAssumption
  <2>3. QED BY <1>0, <1>1, <2>1, <2>2, ClientMoves DEF Ask, work, TypeOK
<1>2. CASE Connect(k)
  <2>1. /\ query'[k].pc \in {"sent", "oneshot"} /\ query'[k].since = query[k].since
        /\ query'[k].pc = "sent" => query'[k].at = sock /\ sock # None
        /\ \A other \in Clients \ {k} : query'[other] = query[other]
    BY <1>2 DEF Connect, Set, TypeOK, ClientsOK, Queries
  <2>2. sock # None => sock \in Pids
    BY DEF TypeOK, ProcessesOK, Maybe
  <2>3. query[k].since \in Contents /\ NoNewer(query[k].since, disk)
    BY <1>2 DEF QueryInv, Connect
  <2>4. QED BY <1>0, <1>2, <2>1, <2>2, <2>3, ClientMoves DEF Connect, work
<1>3. CASE TimeOut(k)
  <2>1. /\ query'[k].pc \in {"retry", "oneshot"} /\ query'[k].since = query[k].since
        /\ \A other \in Clients \ {k} : query'[other] = query[other]
    BY <1>3 DEF TimeOut, GiveUp, TypeOK, ClientsOK, Queries
  <2>2. \A d \in Pids : job'[d] = IF job[d].client = k THEN [job[d] EXCEPT !.client = None] ELSE job[d]
    BY <1>3 DEF TimeOut
  <2>3a. ASSUME NEW d \in Pids
        PROVE  /\ job'[d].step = job[d].step /\ job'[d].kind = job[d].kind
               /\ job'[d].todo = job[d].todo /\ job'[d].read = job[d].read
               /\ job'[d].hash = job[d].hash
    BY <2>2 DEF TypeOK, WorkOK, Jobs
  <2>3b. ASSUME NEW d \in Pids, job'[d].client # None
        PROVE  query'[job'[d].client] = query[job'[d].client] /\ job'[d].client = job[d].client
    <3>1. job[d].client \in Clients \ {k} /\ job'[d].client = job[d].client
      BY <2>2, <2>3b DEF TypeOK, WorkOK, Jobs, Maybe
    <3>2. QED BY <2>1, <3>1
  <2>3. \A d \in Pids : /\ job'[d].client # None => query'[job'[d].client] = query[job'[d].client]
                                                  /\ job'[d].client = job[d].client
                        /\ job'[d].step = job[d].step /\ job'[d].kind = job[d].kind
                        /\ job'[d].todo = job[d].todo /\ job'[d].read = job[d].read
                        /\ job'[d].hash = job[d].hash
    BY <2>3a, <2>3b
  <2>4. QueryInv'
    BY <1>3, <2>1 DEF TimeOut, QueryInv, NoNewer
  <2>5. CacheInv' /\ ClientInv'
    BY <1>3, <2>3 DEF TimeOut, CacheInv, Sound, ClientInv, NoNewer
  <2>6. JobInv'
    <3>1. disk' = disk /\ cache' = cache
      BY <1>3 DEF TimeOut
    <3>2. ASSUME NEW d \in Pids, JobOK(d), job'[d].client = None PROVE JobOK(d)'
      BY <2>3a, <3>1, <3>2 DEF JobOK, NoNewer
    <3>3. ASSUME NEW d \in Pids, JobOK(d), job'[d].client # None PROVE JobOK(d)'
      BY <2>3a, <2>3b, <3>1, <3>3 DEF JobOK, NoNewer
    <3>4. QED BY <3>2, <3>3 DEF JobInv
  <2>7. QED BY <2>4, <2>5, <2>6 DEF Fresh
<1>4. CASE OneShot(k)
  <2>1. /\ query'[k].pc = "done" /\ query'[k].since = query[k].since /\ query'[k].answer = disk
        /\ \A other \in Clients \ {k} : query'[other] = query[other]
    BY <1>4 DEF OneShot, Deliver, TypeOK, ClientsOK, Queries
  <2>2. query[k].since \in Contents /\ NoNewer(query[k].since, disk) /\ disk \in Contents
    BY <1>4 DEF QueryInv, OneShot, TypeOK
  <2>3. QED BY <1>0, <1>4, <2>1, <2>2, ClientMoves DEF OneShot, work
<1>5. CASE Done(k)
  <2>1. query'[k].pc = "idle" /\ \A other \in Clients \ {k} : query'[other] = query[other]
    BY <1>5 DEF Done, NoQuery, TypeOK, ClientsOK
  <2>2. QED BY <1>0, <1>5, <2>1, ClientMoves DEF Done, work
<1>6. QED BY <1>1, <1>2, <1>3, <1>4, <1>5 DEF ClientStep

(* One daemon works; its job stays the one of its client, or of nobody.        *)
LEMMA WorkMoves ==
  ASSUME Inv, NEW d \in Pids,
         \A e \in Pids \ {d} : job'[e] = job[e] /\ cache'[e] = cache[e],
         JobOK(d)', \A name \in {"graph", "project"} : Sound(cache[d][name])',
         job'[d].client # None => /\ query[job'[d].client].pc = "sent" /\ query[job'[d].client].at = d
                                  /\ job'[d].step # "idle",
         UNCHANGED <<query, disk>>
  PROVE  Fresh'
<1> USE DEF Inv
<1>1. QueryInv'
  BY DEF QueryInv, NoNewer
<1>2. CacheInv'
  BY SMTT(30) DEF CacheInv, Sound, NoNewer
<1>3. ClientInv'
  BY DEF ClientInv
<1>4. JobInv'
  <2>1. ASSUME NEW e \in Pids \ {d}
        PROVE  JobOK(e)'
    BY DEF JobInv, JobOK, NoNewer
  <2>2. QED BY <2>1 DEF JobInv
<1>5. QED BY <1>1, <1>2, <1>3, <1>4 DEF Fresh

LEMMA AcceptFresh ==
  ASSUME Inv, NEW d \in Pids, NEW k \in Clients, Accept(d, k)
  PROVE  Fresh'
<1> USE DEF Inv
<1>1. k \in Connected(d) /\ ~Busy(d)
  BY DEF Accept
<1>2. CASE SameProtocol(query[k].tools, ver[d])
  <2>1. /\ job'[d].client = k /\ job'[d].step = "hash" /\ job'[d].todo = Inputs
        /\ job'[d].read = [f \in Files |-> 0]
        /\ UNCHANGED <<query, cache, disk>>
        /\ \A e \in Pids \ {d} : job'[e] = job[e]
    BY <1>2 DEF Accept, TypeOK, WorkOK
  <2>2. job'[d].read # None
    BY <2>1, DaemonAssumption DEF DaemonAssumption
  <2>3. JobOK(d)'
    BY <2>1, <2>2 DEF JobOK
  <2>4. \A name \in {"graph", "project"} : Sound(cache[d][name])'
    BY <2>1 DEF CacheInv, Sound, NoNewer
  <2>5. QED BY <1>1, <2>1, <2>3, <2>4, WorkMoves DEF Connected
<1>3. CASE ~SameProtocol(query[k].tools, ver[d])
  BY <1>1, <1>3, DisconnectFresh DEF Accept
<1>4. QED BY <1>2, <1>3

LEMMA ReadFileFresh ==
  ASSUME Inv, NEW d \in Pids, NEW f \in Files, ReadFile(d, f)
  PROVE  Fresh'
<1> USE DEF Inv
<1>1. job[d] \in Jobs /\ job[d].read \in Contents /\ disk \in Contents
  BY DEF JobInv, JobOK, ReadFile, TypeOK, WorkOK, Jobs, Maybe
<1>2. /\ job'[d] = Reading(d, f) /\ UNCHANGED <<query, cache, disk>>
      /\ \A e \in Pids \ {d} : job'[e] = job[e]
  BY DEF ReadFile, TypeOK, WorkOK
<1>3. /\ job'[d].client = job[d].client /\ job'[d].kind = job[d].kind /\ job'[d].step = job[d].step
      /\ job'[d].hash = job[d].hash /\ job'[d].todo = job[d].todo \ {f}
      /\ job'[d].read = [job[d].read EXCEPT ![f] = disk[f]]
  BY <1>1, <1>2 DEF Reading, Jobs
<1>4. /\ job'[d].read \in Contents /\ job'[d].read[f] = disk[f]
      /\ \A g \in Files \ {f} : job'[d].read[g] = job[d].read[g]
  BY <1>1, <1>3 DEF Contents
<1>5. disk[f] <= disk[f]
  BY <1>1 DEF Contents
<1>6. job[d].client # None => NoNewer(query[job[d].client].since, disk)
  BY <1>1 DEF ClientInv, QueryInv, Jobs, Maybe
<1>7. JobOK(d)'
  <2>1. JobOK(d)
    BY DEF JobInv
  <2>2. job'[d].step \in {"hash", "load", "reference"} /\ job'[d].read # None
    BY <1>3, <1>4, DaemonAssumption DEF ReadFile, DaemonAssumption, Contents
  <2>3. CASE job[d].step = "hash"
    BY <2>1, <2>2, <2>3, <1>2, <1>3, <1>4, <1>5, <1>6 DEF JobOK, NoNewer
  <2>4. CASE job[d].step = "load"
    BY <2>1, <2>2, <2>4, <1>2, <1>3, <1>4, <1>5, <1>6 DEF JobOK, NoNewer
  <2>5. CASE job[d].step = "reference"
    <3>1. Entry(d).manifest # None /\ NoNewer(Entry(d).manifest, disk)
      BY <2>1, <2>5, <1>1 DEF JobOK, CacheInv, Sound, Entry, CacheOf, Jobs
    <3>2. QED BY <2>1, <2>2, <2>5, <3>1, <1>2, <1>3, <1>4, <1>5 DEF JobOK, NoNewer, Entry
  <2>6. QED BY <2>3, <2>4, <2>5 DEF ReadFile
<1>8. \A name \in {"graph", "project"} : Sound(cache[d][name])'
  BY <1>2 DEF CacheInv, Sound, NoNewer
<1>9. QED BY <1>2, <1>3, <1>7, <1>8, WorkMoves DEF ClientInv

LEMMA CompleteJob ==
  ASSUME WorkOK, NEW d \in Pids, NEW e
  PROVE  LET j == Complete(d, e) IN
           /\ j.client = job[d].client /\ j.kind = job[d].kind
           /\ j.step \in {"reference", "answer"}
           /\ j.step = "reference" => j.kind = "refs" /\ j.todo = Files /\ j.read = [f \in Files |-> 0]
           /\ j.step = "answer" /\ j.kind = "refs" => e.reference # None
BY DEF WorkOK, Jobs, Complete, Scan, Reply

LEMMA HashedFresh ==
  ASSUME Inv, NEW d \in Pids, Hashed(d)
  PROVE  Fresh'
<1> USE DEF Inv
<1>1. /\ job[d] \in Jobs /\ job[d].read \in Contents /\ job[d].read # None /\ JobOK(d)
      /\ Entry(d) = cache[d][CacheOf(job[d].kind)]
  BY DEF JobInv, JobOK, Hashed, TypeOK, WorkOK, Jobs, Maybe, Entry
<1> DEFINE manifest == Manifest(job[d].read)
<1>2. /\ manifest # None /\ NoNewer(manifest, disk)
      /\ job[d].client # None => NoNewer(query[job[d].client].since, manifest)
  <2>1. \A f \in Inputs : manifest[f] = job[d].read[f]
    BY DEF Manifest
  <2>2. manifest # None
    BY <1>1, ManifestTyped, DaemonAssumption DEF Manifests, DaemonAssumption
  <2>3. QED BY <1>1, <2>1, <2>2 DEF JobOK, NoNewer, Hashed
<1>3. \A name \in {"graph", "project"} : Sound(cache[d][name])'
  BY DEF Hashed, CacheInv, Sound, NoNewer
<1>4. \A e \in Pids \ {d} : job'[e] = job[e]
  BY DEF Hashed, TypeOK, WorkOK
<1>5. [f \in Files |-> 0] # None
  BY DaemonAssumption DEF DaemonAssumption
<1>6. CASE Entry(d).manifest = manifest
  <2>1. job'[d] = Complete(d, Entry(d))
    BY <1>6 DEF Hashed, TypeOK, WorkOK
  <2>2. JobOK(d)'
    <3>1. /\ job'[d].client = job[d].client /\ job'[d].kind = job[d].kind
          /\ job'[d].step \in {"reference", "answer"}
          /\ job'[d].step = "reference" => /\ job'[d].kind = "refs" /\ job'[d].todo = Files
                                           /\ job'[d].read = [f \in Files |-> 0]
          /\ job'[d].step = "answer" /\ job'[d].kind = "refs" => Entry(d).reference # None
      BY <2>1, CompleteJob DEF TypeOK
    <3>2. UNCHANGED <<query, cache>>
      BY DEF Hashed
    <3>3. Inputs \ Files = {}
      BY DaemonAssumption DEF DaemonAssumption
    <3>4. QED BY <3>1, <3>2, <3>3, <1>1, <1>2, <1>5, <1>6 DEF JobOK, NoNewer
  <2>3. job'[d].client = job[d].client /\ job'[d].step # "idle"
    BY <2>1, CompleteJob DEF TypeOK
  <2>4. QED BY <2>2, <2>3, <1>3, <1>4, WorkMoves DEF ClientInv, Hashed
<1>7. CASE Entry(d).manifest # manifest
  <2>1. job'[d] = Scan(d, "load", Loads(job[d].kind), manifest)
    BY <1>7 DEF Hashed, TypeOK, WorkOK
  <2>2. /\ job'[d].client = job[d].client /\ job'[d].step = "load" /\ Inputs \subseteq job'[d].todo
        /\ job'[d].read = [f \in Files |-> 0] /\ job'[d].hash = manifest
    BY <2>1, <1>1, DaemonAssumption DEF Scan, Jobs, Loads, DaemonAssumption
  <2>3. JobOK(d)'
    BY <2>2, <1>1, <1>2, <1>5 DEF JobOK, Hashed, NoNewer
  <2>4. QED BY <2>2, <2>3, <1>3, <1>4, WorkMoves DEF ClientInv, Hashed
<1>8. QED BY <1>6, <1>7

LEMMA LoadedFresh ==
  ASSUME Inv, NEW d \in Pids, Loaded(d)
  PROVE  Fresh'
<1> USE DEF Inv
<1>1. /\ job[d] \in Jobs /\ job[d].read # None /\ JobOK(d) /\ job[d].hash # None
      /\ CacheOf(job[d].kind) \in {"graph", "project"}
  BY DEF JobInv, JobOK, Loaded, TypeOK, WorkOK, CacheOf
<1>2. /\ NoNewer(job[d].hash, disk) /\ NoNewer(job[d].hash, job[d].read)
      /\ job[d].client # None => NoNewer(query[job[d].client].since, job[d].hash)
  BY <1>1 DEF JobOK, NoNewer, Loaded
<1>3. /\ Rebuilt(d).manifest = job[d].hash /\ Rebuilt(d).content = job[d].read
      /\ Rebuilt(d).reference = None
  BY DEF Rebuilt
<1>4. Sound(Rebuilt(d))
  BY <1>1, <1>2, <1>3 DEF Sound
<1>5. /\ job'[d] = Complete(d, Rebuilt(d))
      /\ cache'[d] = [cache[d] EXCEPT ![CacheOf(job[d].kind)] = Rebuilt(d)]
      /\ \A e \in Pids \ {d} : job'[e] = job[e] /\ cache'[e] = cache[e]
      /\ UNCHANGED <<query, disk>>
  BY DEF Loaded, Store, TypeOK, WorkOK
<1>6. \A name \in {"graph", "project"} :
        cache'[d][name] = IF name = CacheOf(job[d].kind) THEN Rebuilt(d) ELSE cache[d][name]
  BY <1>5 DEF TypeOK, WorkOK
<1>7. \A name \in {"graph", "project"} : Sound(cache[d][name])'
  BY <1>4, <1>5, <1>6 DEF CacheInv, Sound, NoNewer
<1>8. /\ job'[d].client = job[d].client /\ job'[d].step # "idle"
      /\ cache'[d][CacheOf(job'[d].kind)] = Rebuilt(d)
  BY <1>1, <1>5, <1>6, CompleteJob DEF TypeOK
<1>9. JobOK(d)'
  <2>1. [f \in Files |-> 0] # None
    BY DaemonAssumption DEF DaemonAssumption
  <2>2. /\ job'[d].step \in {"reference", "answer"}
        /\ job'[d].step = "answer" => job'[d].kind # "refs"
        /\ job'[d].step = "reference" => /\ job'[d].kind = "refs" /\ job'[d].todo = Files
                                         /\ job'[d].read = [f \in Files |-> 0]
    BY <1>3, <1>5, CompleteJob DEF TypeOK
  <2>3. Inputs \ Files = {}
    BY DaemonAssumption DEF DaemonAssumption
  <2>4. QED BY <2>1, <2>2, <2>3, <1>1, <1>2, <1>3, <1>5, <1>8 DEF JobOK, NoNewer
<1>10. QED BY <1>5, <1>7, <1>8, <1>9, WorkMoves DEF ClientInv

LEMMA ReferencedFresh ==
  ASSUME Inv, NEW d \in Pids, Referenced(d)
  PROVE  Fresh'
<1> USE DEF Inv
<1> DEFINE new == [Entry(d) EXCEPT !.reference = job[d].read]
<1>1. /\ job[d] \in Jobs /\ job[d].read # None /\ JobOK(d)
      /\ CacheOf(job[d].kind) \in {"graph", "project"} /\ Entry(d) = cache[d][CacheOf(job[d].kind)]
  BY DEF JobInv, JobOK, Referenced, TypeOK, WorkOK, CacheOf, Entry
<1>2. Entry(d) \in Entries /\ Sound(Entry(d))
  BY <1>1, EntryTyped DEF CacheInv, TypeOK
<1>3. new.manifest = Entry(d).manifest /\ new.content = Entry(d).content /\ new.reference = job[d].read
  BY <1>2 DEF Entries
<1>4. /\ Entry(d).manifest # None /\ NoNewer(Entry(d).manifest, job[d].read)
      /\ job[d].client # None => NoNewer(query[job[d].client].since, Entry(d).manifest)
  BY <1>1 DEF JobOK, NoNewer, Referenced
<1>5. Sound(new)
  BY <1>2, <1>3, <1>4 DEF Sound
<1>6. /\ job'[d] = Reply(d)
      /\ cache'[d] = [cache[d] EXCEPT ![CacheOf(job[d].kind)] = new]
      /\ \A e \in Pids \ {d} : job'[e] = job[e] /\ cache'[e] = cache[e]
      /\ UNCHANGED <<query, disk>>
  BY DEF Referenced, Store, TypeOK, WorkOK
<1>7. \A name \in {"graph", "project"} :
        cache'[d][name] = IF name = CacheOf(job[d].kind) THEN new ELSE cache[d][name]
  BY <1>6 DEF TypeOK, WorkOK
<1> HIDE DEF new
<1>8. \A name \in {"graph", "project"} : Sound(cache[d][name])'
  BY <1>5, <1>6, <1>7 DEF CacheInv, Sound, NoNewer
<1>9. /\ job'[d].client = job[d].client /\ job'[d].step = "answer" /\ job'[d].kind = job[d].kind
  BY <1>1, <1>6 DEF Reply, Jobs
<1>10. JobOK(d)'
  <2> DEFINE e == cache'[d][CacheOf(job'[d].kind)]
  <2>1. e = new
    BY <1>1, <1>7, <1>9 DEF CacheOf
  <2>2. new.manifest # None /\ new.reference # None
    BY <1>1, <1>3, <1>4
  <2>3. job[d].client # None => NoNewer(query[job[d].client].since, new.manifest)
    BY <1>3, <1>4
  <2>4. job'[d].client # None => query'[job'[d].client] = query[job[d].client]
    BY <1>6, <1>9
  <2> HIDE DEF e
  <2>5. QED BY <1>9, <2>1, <2>2, <2>3, <2>4 DEF JobOK, NoNewer, e
<1>11. QED BY ZenonT(60), <1>6, <1>8, <1>9, <1>10, WorkMoves DEF ClientInv

LEMMA AnswerFresh ==
  ASSUME Inv, NEW d \in Pids, Answer(d)
  PROVE  Fresh'
<1> USE DEF Inv
<1> DEFINE k == job[d].client
<1>1. /\ job[d] \in Jobs /\ JobOK(d) /\ Entry(d) = cache[d][CacheOf(job[d].kind)]
      /\ Entry(d) \in Entries /\ Sound(Entry(d))
  BY EntryTyped DEF JobInv, TypeOK, WorkOK, CacheOf, Entry, CacheInv
<1>2. /\ job'[d] = NoJob /\ \A e \in Pids \ {d} : job'[e] = job[e]
      /\ UNCHANGED <<cache, disk>>
  BY DEF Answer, TypeOK, WorkOK
<1>3. \A e \in Pids \ {d} : job[e].client # None => job[e].client # k
  BY DEF ClientInv
<1>4. CASE k = None
  <2>1. JobOK(d)' /\ job'[d].client = None
    BY <1>2 DEF JobOK, NoJob
  <2>2. \A name \in {"graph", "project"} : Sound(cache[d][name])'
    BY <1>2 DEF CacheInv, Sound, NoNewer
  <2>3. QED BY <1>2, <1>4, <2>1, <2>2, WorkMoves DEF Answer
<1>5. CASE k # None
  <2>1. k \in Clients
    BY <1>1, <1>5 DEF Jobs, Maybe
  <2> DEFINE answer == IF job[d].kind = "refs" THEN Entry(d).reference ELSE Entry(d).content
  <2>2. Entry(d).manifest # None /\ NoNewer(query[k].since, Entry(d).manifest)
    BY <1>1, <1>5 DEF JobOK, Answer
  <2>3. Entry(d).manifest \in Manifests /\ answer \in Contents /\ NoNewer(Entry(d).manifest, answer)
    BY <1>1, <2>2 DEF JobOK, Answer, Sound, Entries, Maybe
  <2>4. query[k].pc = "sent" /\ query[k].since \in Contents /\ NoNewer(query[k].since, disk)
    BY <1>5, <2>1 DEF ClientInv, QueryInv
  <2> HIDE DEF answer, k
  <2>5. NoNewer(query[k].since, answer)
    <3>1. Inputs \subseteq Files /\ MaxEdits \in Nat
      BY DaemonAssumption DEF DaemonAssumption
    <3>2. \A f \in Inputs : query[k].since[f] \in Nat /\ answer[f] \in Nat /\ Entry(d).manifest[f] \in Nat
      BY <3>1, <2>3, <2>4 DEF Contents, Manifests
    <3>3. QED BY <3>2, <2>2, <2>3 DEF NoNewer
  <2>6. Deliver(k, answer)
    BY <1>5 DEF Answer, answer, k
  <2>7. /\ query'[k].pc = "done" /\ query'[k].since = query[k].since /\ query'[k].answer = answer
        /\ \A other \in Clients \ {k} : query'[other] = query[other]
    BY <2>1, <2>6 DEF Deliver, TypeOK, ClientsOK, Queries
  <2>8. QueryInv'
    BY <1>2, <2>3, <2>4, <2>5, <2>7 DEF QueryInv, NoNewer
  <2>9. \A e \in Pids \ {d} : job[e].client # None => query'[job[e].client] = query[job[e].client]
    BY <1>3, <2>7 DEF TypeOK, WorkOK, Jobs, Maybe
  <2>10. CacheInv' /\ ClientInv'
    BY <1>2, <2>9 DEF CacheInv, Sound, ClientInv, NoNewer, NoJob
  <2>11. JobInv'
    BY <1>2, <2>9 DEF JobInv, JobOK, NoNewer, NoJob
  <2>12. QED BY <2>8, <2>10, <2>11 DEF Fresh
<1>6. QED BY <1>4, <1>5

LEMMA EditFresh ==
  ASSUME Inv, NEW f \in Files, Edit(f)
  PROVE  Fresh'
<1> USE DEF Inv
<1>1. \A g \in Files : disk[g] \in Nat /\ disk'[g] \in Nat /\ disk[g] <= disk'[g]
  BY DaemonAssumption DEF Edit, TypeOK, Contents, DaemonAssumption
<1>2. \A c \in Contents \cup Manifests : NoNewer(c, disk) => NoNewer(c, disk')
  BY SMTT(30), <1>1, DaemonAssumption DEF NoNewer, Contents, Manifests, DaemonAssumption
<1>3. UNCHANGED <<query, job, cache>>
  BY DEF Edit, work
<1>4. QueryInv'
  BY <1>2, <1>3 DEF QueryInv, NoNewer
<1>5. CacheInv'
  <2>1. \A d \in Pids : \A name \in {"graph", "project"} : cache[d][name].manifest \in Maybe(Manifests)
    BY DEF TypeOK, WorkOK, Entries
  <2>2. QED BY <1>2, <1>3, <2>1 DEF CacheInv, Sound, NoNewer, Maybe
<1>6. ClientInv'
  BY <1>3 DEF ClientInv
<1>7. JobInv'
  <2>1. ASSUME NEW d \in Pids
        PROVE  JobOK(d)'
    <3>1. JobOK(d) /\ job[d] \in Jobs
      BY DEF JobInv, TypeOK, WorkOK
    <3>2. job[d].step = "hash" => \A g \in Inputs \ job[d].todo : job[d].read[g] <= disk'[g]
      BY <1>1, <3>1, DaemonAssumption DEF JobOK, Jobs, Maybe, Contents, DaemonAssumption
    <3>3. job[d].step = "load" => NoNewer(job[d].hash, disk')
      BY <1>2, <3>1 DEF JobOK, Jobs, Maybe
    <3>4. QED BY <1>3, <3>1, <3>2, <3>3 DEF JobOK, NoNewer
  <2>2. QED BY <2>1 DEF JobInv
<1>8. QED BY <1>4, <1>5, <1>6, <1>7 DEF Fresh

-----------------------------------------------------------------------------
(* The invariant and what it yields                                           *)

LEMMA InvInit == Init => Inv
<1> SUFFICES ASSUME Init PROVE Inv
  OBVIOUS
<1>1. ProcessesOK /\ SessionsOK /\ disk \in Contents /\ tools \in 1..MaxTools
  <2>1. 1 \in 1..MaxTools /\ 0 \in 0..MaxEdits
    BY DaemonAssumption DEF DaemonAssumption
  <2>2. ProcessesOK
    BY <2>1 DEF Init, ProcessesOK, Maybe, Daemon
  <2>3. SessionsOK
    BY <2>1 DEF Init, SessionsOK, NoCommand, Maybe
  <2>4. disk \in Contents /\ tools \in 1..MaxTools
    BY <2>1 DEF Init, Contents
  <2>5. QED BY <2>2, <2>3, <2>4
<1>2. ClientsOK
  BY DaemonAssumption DEF Init, ClientsOK, Queries, NoQuery, Maybe, AllKinds, DaemonAssumption
<1>3. WorkOK
  <2>1. NoJob \in Jobs /\ Empty \in Entries
    BY DEF NoJob, Jobs, Empty, Entries, Maybe, AllKinds
  <2>2. QED BY <2>1 DEF Init, WorkOK
<1>4. QueryInv /\ CacheInv /\ ClientInv /\ JobInv
  <2>1. QueryInv /\ CacheInv
    BY DEF Init, QueryInv, CacheInv, Sound, NoQuery, Empty
  <2>2. \A d \in Pids : job[d] = NoJob
    BY DEF Init
  <2>3. ClientInv
    BY <2>2 DEF ClientInv, NoJob
  <2>4. JobInv
    BY <2>2 DEF JobInv, JobOK, NoJob
  <2>5. QED BY <2>1, <2>3, <2>4
<1>5. QED BY <1>1, <1>2, <1>3, <1>4 DEF Init, Inv, TypeOK

LEMMA TypeStep == Inv /\ Next => TypeOK'
<1> SUFFICES ASSUME Inv, Next PROVE TypeOK'
  OBVIOUS
<1> USE DEF Inv
<1>1. ASSUME NEW d \in Pids, DaemonStep(d) PROVE TypeOK'
  BY <1>1, PrepareTyped, BindTyped, PublishTyped, CloseTyped, ExitTyped, CrashTyped, InterruptTyped, ReuseTyped DEF DaemonStep
<1>2. ASSUME NEW d \in Pids, WorkStep(d) PROVE TypeOK'
  BY <1>2, AcceptTyped, ReadFileTyped, HashedTyped, LoadedTyped, ReferencedTyped, AnswerTyped DEF WorkStep
<1>3. ASSUME NEW c \in Sessions, ServerStep(c) PROVE TypeOK'
  BY <1>3, BeginTyped, ReadStateTyped, ProbeTyped, IdentifyTyped, TerminateTyped, PollTyped, ClearTyped,
     SpawnTyped, WaitTyped DEF ServerStep
<1>4. ASSUME NEW k \in Clients, ClientStep(k) PROVE TypeOK'
  BY <1>4, AskTyped, ConnectTyped, TimeOutTyped, OneShotTyped, DoneTyped DEF ClientStep
<1>5. QED BY <1>1, <1>2, <1>3, <1>4, EditTyped, UpgradeTyped DEF Next

LEMMA FreshStep == Inv /\ Next => Fresh'
<1> SUFFICES ASSUME Inv, Next PROVE Fresh'
  OBVIOUS
<1>0. Fresh
  BY DEF Inv, Fresh
<1>1. ASSUME NEW d \in Pids, DaemonStep(d) PROVE Fresh'
  <2>1. CASE Prepare(d) \/ Publish(d) \/ Reuse(d)
    BY <1>0, <2>1, FreshKept DEF Prepare, Publish, Reuse, work
  <2>2. CASE Bind(d)
    BY <1>0, <2>2, FreshKept, DieFresh DEF Bind, work
  <2>3. CASE Close(d)
    BY <2>3, DisconnectFresh DEF Close, work
  <2>4. CASE Exit(d) \/ Crash(d)
    BY <2>4, DieFresh DEF Exit, Crash
  <2>6. CASE Interrupt(d)
    BY <1>0, <2>6, FreshKept, SignalledOutcome, DieFresh DEF Interrupt, work
  <2>5. QED BY <1>1, <2>1, <2>2, <2>3, <2>4, <2>6 DEF DaemonStep
<1>2. ASSUME NEW d \in Pids, WorkStep(d) PROVE Fresh'
  BY <1>2, AcceptFresh, ReadFileFresh, HashedFresh, LoadedFresh, ReferencedFresh, AnswerFresh DEF WorkStep
<1>3. ASSUME NEW c \in Sessions, ServerStep(c) PROVE Fresh'
  <2>1. CASE \/ \E command \in {"stop", "restart"} : Begin(c, command)
             \/ ReadState(c) \/ Probe(c) \/ Identify(c) \/ Clear(c) \/ Spawn(c) \/ Wait(c)
    BY <1>0, <2>1, FreshKept DEF Begin, ReadState, Probe, Identify, Clear, Spawn, Wait, work
  <2>2. CASE Terminate(c) \/ Poll(c)
    <3>1. cli[c].pid \in Pids
      BY <2>2 DEF Terminate, Poll, Inv, TypeOK, SessionsOK, Maybe
    <3>2. Die(cli[c].pid) \/ UNCHANGED <<query, work>>
      BY <2>2, SignalledOutcome DEF Terminate, Poll, Kill
    <3>3. QED BY <1>0, <2>2, <3>1, <3>2, FreshKept, DieFresh DEF Terminate, Poll, work
  <2>3. QED BY <1>3, <2>1, <2>2 DEF ServerStep
<1>4. CASE Upgrade
  BY <1>0, <1>4, FreshKept DEF Upgrade, work
<1>5. QED BY <1>1, <1>2, <1>3, <1>4, ClientStepFresh, EditFresh DEF Next

LEMMA InvStep == Inv /\ [Next]_vars => Inv'
<1> SUFFICES ASSUME Inv, [Next]_vars PROVE Inv'
  OBVIOUS
<1>1. CASE Next
  BY <1>1, TypeStep, FreshStep DEF Inv, Fresh
<1>2. CASE UNCHANGED vars
  <2>1. Fresh'
    BY <1>2, FreshKept DEF Inv, Fresh, vars, work
  <2>2. TypeOK'
    BY <1>2 DEF Inv, TypeOK, ProcessesOK, SessionsOK, ClientsOK, WorkOK, vars, work, state
  <2>3. QED BY <2>1, <2>2 DEF Inv, Fresh
<1>3. QED BY <1>1, <1>2

(* Together: types, and how old what is read, cached and answered may be, hold  *)
(* of every reachable state of the daemons and their clients.                    *)
THEOREM Invariance == Spec => []Inv
BY InvInit, InvStep, PTL DEF Spec

(* For every number of sessions, clients and daemons, with every event and     *)
(* protocol version, the variables keep their shape (server-cli.ts:147-236,       *)
(* daemon-server.ts:45-180).                                                        *)
THEOREM TypeCorrect == Spec => []TypeOK
<1>1. Inv => TypeOK
  BY DEF Inv
<1>2. QED BY Invariance, <1>1, PTL

(* In the files that the manifest hashes, an answer from the daemon's caches   *)
(* or computed one-shot is never older than the question, however daemons die,      *)
(* restart, are asked twice or lose their files in between; nothing is claimed of     *)
(* what the projects reach by imports alone (graph-cache.ts:43-49,                     *)
(* project-cache.ts:62-79).                                                             *)
THEOREM AnswersAreCurrent == Spec => []AnswersCurrent
<1>1. Inv => AnswersCurrent
  BY DaemonAssumption DEF Inv, QueryInv, AnswersCurrent, NoNewer, Contents, DaemonAssumption
<1>2. QED BY Invariance, <1>1, PTL

LEMMA LostClient ==
  ASSUME TypeOK, NEW lost \in SUBSET Clients, Disconnect(lost), NEW k \in Clients,
         query[k].pc = "sent", query'[k].pc = "oneshot"
  PROVE  k \in lost
BY DEF Disconnect, TypeOK, ClientsOK, Queries

(* No refs query is scanned one-shot while a daemon of its protocol that could *)
(* answer it is left running (daemon-client.ts:79-86).                             *)
THEOREM RefsAreScannedOnce == Spec => RefsScannedOnce
<1>1. ASSUME Inv, [Next]_vars, NEW k \in Clients
      PROVE  RefsLeft(k)
  <2> SUFFICES ASSUME query[k].pc = "sent", query[k].kind = "refs", query'[k].pc = "oneshot"
               PROVE  proc'[query[k].at] # "ready" \/ ~SameProtocol(ver[query[k].at], query[k].tools)
    BY DEF RefsLeft
  <2> USE <1>1 DEF Inv
  <2>0. query' # query /\ query'[k] # query[k] /\ Next
    BY DEF vars
  <2>1. ASSUME NEW d \in Pids, Die(d)
        PROVE  proc'[query[k].at] # "ready"
    <3>1. Connected(d) \in SUBSET Clients
      BY DEF Connected
    <3>2. k \in Connected(d)
      BY <2>1, <3>1, LostClient DEF Die
    <3>3. QED BY <2>1, <3>2 DEF Die, Connected, TypeOK, ProcessesOK
  <2>2. ASSUME NEW d \in Pids, Close(d)
        PROVE  proc'[query[k].at] # "ready"
    <3>1. PICK lost \in SUBSET Connected(d) : Disconnect(lost)
      BY <2>2 DEF Close
    <3>2. lost \in SUBSET Clients
      BY DEF Connected
    <3>3. k \in Connected(d)
      BY <3>1, <3>2, LostClient
    <3>4. QED BY <2>2, <3>3 DEF Close, Connected, TypeOK, ProcessesOK
  <2>3. ASSUME NEW d \in Pids, NEW c \in Clients, Accept(d, c)
        PROVE  ~SameProtocol(ver[query[k].at], query[k].tools)
    <3>1. ~SameProtocol(ver[d], query[c].tools) /\ Disconnect({c})
      BY <2>0, <2>3 DEF Accept, SameProtocol
    <3>2. k = c
      BY <3>1, LostClient
    <3>3. QED BY <2>3, <3>1, <3>2 DEF Accept, Connected
  <2>4. ASSUME NEW d \in Pids, Answer(d)
        PROVE  FALSE
    <3>1. job[d].client # None
      BY <2>0, <2>4 DEF Answer
    <3>2. PICK answer : Deliver(job[d].client, answer)
      BY <2>4, <3>1 DEF Answer
    <3>3. QED BY <2>0, <3>2 DEF Deliver, TypeOK, ClientsOK, Queries
  <2>5. ASSUME NEW c \in Clients, ClientStep(c)
        PROVE  FALSE
    <3>1. CASE \E kind \in Kinds : Ask(c, kind)
      BY <2>0, <3>1 DEF Ask, TypeOK, ClientsOK
    <3>2. CASE Connect(c)
      BY <2>0, <3>2 DEF Connect, Set, TypeOK, ClientsOK
    <3>3. CASE TimeOut(c)
      BY <2>0, <3>3 DEF TimeOut, GiveUp, TypeOK, ClientsOK, Queries
    <3>4. CASE OneShot(c) \/ Done(c)
      BY <2>0, <3>4 DEF OneShot, Done, Deliver, NoQuery, TypeOK, ClientsOK, Queries
    <3>5. QED BY <2>5, <3>1, <3>2, <3>3, <3>4 DEF ClientStep
  <2>6. ASSUME NEW d \in Pids, DaemonStep(d)
        PROVE  proc'[query[k].at] # "ready"
    <3>1. Die(d) \/ Close(d)
      BY <2>0, <2>6, SignalledOutcome
         DEF DaemonStep, Prepare, Bind, Publish, Exit, Crash, Interrupt, Reuse, work
    <3>2. QED BY <2>1, <2>2, <3>1
  <2>7. ASSUME NEW c \in Sessions, ServerStep(c)
        PROVE  proc'[query[k].at] # "ready"
    <3>1. Terminate(c) \/ Poll(c)
      BY <2>0, <2>7 DEF ServerStep, Begin, ReadState, Probe, Identify, Clear, Spawn, Wait
    <3>2. cli[c].pid \in Pids
      BY <3>1 DEF Terminate, Poll, TypeOK, SessionsOK, Maybe
    <3>3. Die(cli[c].pid)
      BY <2>0, <3>1, SignalledOutcome DEF Terminate, Poll, Kill
    <3>4. QED BY <2>1, <3>2, <3>3
  <2>8. ASSUME NEW d \in Pids, WorkStep(d)
        PROVE  ~SameProtocol(ver[query[k].at], query[k].tools)
    <3>1. (\E c \in Clients : Accept(d, c)) \/ Answer(d)
      BY <2>0, <2>8 DEF WorkStep, ReadFile, Hashed, Loaded, Referenced
    <3>2. QED BY <2>3, <2>4, <3>1
  <2>9. QED BY <2>0, <2>5, <2>6, <2>7, <2>8 DEF Next, Edit, Upgrade
<1>2. Inv /\ [Next]_vars => [\A k \in Clients : RefsLeft(k)]_vars
  BY <1>1
<1>3. Spec => [][\A k \in Clients : RefsLeft(k)]_vars
  BY Invariance, <1>2, PTL DEF Spec
<1>4. QED BY <1>3 DEF RefsScannedOnce

-----------------------------------------------------------------------------
(* The lifecycle under one command at a time, given when no daemon starts.    *)

OneAtATime == (\A a, b \in Sessions : a = b) /\ "hasty" \notin Events

(* Of the commands alone: no state file leads to a ready daemon but its own,   *)
(* and a ready daemon that the files do not lead to runs tools that are no        *)
(* longer checked out.                                                             *)
Owned(d) == meta = d /\ sock = d
Superseded == \A d \in Pids : proc[d] = "ready" => ver[d] < tools
Findable ==
  /\ \A d \in Pids : ver[d] <= tools
  /\ meta # None /\ sock # None => meta = sock
  /\ \A d \in Pids : proc[d] = "ready" => Owned(d) \/ ver[d] < tools

(* A starting daemon is the only one, and publishes into an empty directory.   *)
StartsAlone ==
  \A d \in Pids : proc[d] \in Starting =>
    /\ meta = None /\ sock = (IF proc[d] = "bound" THEN d ELSE None)
    /\ Superseded
    /\ \A e \in Pids : proc[e] \in Starting => e = d

(* Only the command that is stopping it makes a daemon close.                  *)
ClosesOnDemand ==
  \A d \in Pids : proc[d] = "closing" \/ d \in term =>
    \E c \in Sessions : cli[c].pc = "poll" /\ cli[c].pid = d

(* What a command relies on, up to each of its steps.                          *)
CommandOK(c) ==
  LET pc == cli[c].pc
      pid == cli[c].pid IN
    /\ pc \in {"read", "probe", "identify", "term", "poll", "clear", "spawn"} =>
         /\ \A d \in Pids : proc[d] \notin Starting /\ ver[d] <= cli[c].tools
         /\ cli[c].tools <= tools
    /\ pc \in {"probe", "identify", "term", "poll"} => meta \in {pid, None} /\ sock \in {pid, None}
    /\ pc # "idle" => cli[c].said = "nothing"
    /\ pc = "probe" => SameProtocol(ver[pid], cli[c].tools)
    /\ pc \in {"term", "poll"} => proc[pid] # "stranger"
    /\ pc = "clear" => Superseded
    /\ pc = "spawn" => meta = None /\ sock = None
    /\ pc = "wait" => /\ proc[pid] \in Starting \cup {"ready", "dead"}
                      /\ proc[pid] = "ready" => Owned(pid)
                      /\ \A d \in Pids : proc[d] \in Starting => d = pid

LifeInv == Findable /\ StartsAlone /\ ClosesOnDemand /\ \A c \in Sessions : CommandOK(c)

LEMMA DaemonFacts == Pids \subseteq Nat /\ None \notin Pids /\ MaxTools \in Nat \ {0}
BY DaemonAssumption DEF DaemonAssumption

LEMMA PrepareLife ==
  ASSUME OneAtATime, TypeOK, LifeInv, NEW d \in Pids, Prepare(d)
  PROVE  LifeInv'
<1> USE DaemonFacts DEF OneAtATime
<1>1. Findable'
  BY DEF Prepare, TypeOK, ProcessesOK, Maybe, LifeInv, Findable, Superseded, Owned, StartsAlone, ClosesOnDemand, CommandOK, Starting, Daemon
<1>2. StartsAlone'
  BY DEF Prepare, TypeOK, ProcessesOK, Maybe, LifeInv, Findable, Superseded, Owned, StartsAlone, ClosesOnDemand, CommandOK, Starting, Daemon
<1>3. ClosesOnDemand'
  BY DEF Prepare, TypeOK, ProcessesOK, Maybe, LifeInv, Findable, Superseded, Owned, StartsAlone, ClosesOnDemand, CommandOK, Starting, Daemon, SessionsOK
<1>4. \A c \in Sessions : CommandOK(c)'
  BY DEF Prepare, TypeOK, ProcessesOK, Maybe, LifeInv, Findable, Superseded, Owned, StartsAlone, ClosesOnDemand, CommandOK, Starting, Daemon, SessionsOK
<1>5. QED BY <1>1, <1>2, <1>3, <1>4 DEF LifeInv

LEMMA BindLife ==
  ASSUME OneAtATime, TypeOK, LifeInv, NEW d \in Pids, Bind(d)
  PROVE  LifeInv'
<1> USE DaemonFacts DEF OneAtATime
<1>1. Findable'
  BY DEF Bind, Die, TypeOK, ProcessesOK, Maybe, LifeInv, Findable, Superseded, Owned, StartsAlone, ClosesOnDemand, CommandOK, Starting, Daemon
<1>2. StartsAlone'
  BY DEF Bind, Die, TypeOK, ProcessesOK, Maybe, LifeInv, Findable, Superseded, Owned, StartsAlone, ClosesOnDemand, CommandOK, Starting, Daemon
<1>3. ClosesOnDemand'
  BY DEF Bind, Die, TypeOK, ProcessesOK, Maybe, LifeInv, Findable, Superseded, Owned, StartsAlone, ClosesOnDemand, CommandOK, Starting, Daemon, SessionsOK
<1>4. \A c \in Sessions : CommandOK(c)'
  BY DEF Bind, Die, TypeOK, ProcessesOK, Maybe, LifeInv, Findable, Superseded, Owned, StartsAlone, ClosesOnDemand, CommandOK, Starting, Daemon, SessionsOK
<1>5. QED BY <1>1, <1>2, <1>3, <1>4 DEF LifeInv

LEMMA PublishLife ==
  ASSUME OneAtATime, TypeOK, LifeInv, NEW d \in Pids, Publish(d)
  PROVE  LifeInv'
<1> USE DaemonFacts DEF OneAtATime
<1>1. Findable'
  BY DEF Publish, TypeOK, ProcessesOK, Maybe, LifeInv, Findable, Superseded, Owned, StartsAlone, ClosesOnDemand, CommandOK, Starting, Daemon
<1>2. StartsAlone'
  BY DEF Publish, TypeOK, ProcessesOK, Maybe, LifeInv, Findable, Superseded, Owned, StartsAlone, ClosesOnDemand, CommandOK, Starting, Daemon
<1>3. ClosesOnDemand'
  BY DEF Publish, TypeOK, ProcessesOK, Maybe, LifeInv, Findable, Superseded, Owned, StartsAlone, ClosesOnDemand, CommandOK, Starting, Daemon, SessionsOK
<1>4. \A c \in Sessions : CommandOK(c)'
  BY DEF Publish, TypeOK, ProcessesOK, Maybe, LifeInv, Findable, Superseded, Owned, StartsAlone, ClosesOnDemand, CommandOK, Starting, Daemon, SessionsOK
<1>5. QED BY <1>1, <1>2, <1>3, <1>4 DEF LifeInv

LEMMA CloseLife ==
  ASSUME OneAtATime, TypeOK, LifeInv, NEW d \in Pids, Close(d)
  PROVE  LifeInv'
<1> USE DaemonFacts DEF OneAtATime
<1>0. /\ proc[d] = "ready" /\ proc' = [proc EXCEPT ![d] = "closing"] /\ sock' \in {sock, None}
      /\ UNCHANGED <<ver, meta, cli, tools>>
  BY DEF Close
<1>1. Findable'
  <2>1. meta \in {d, None} /\ sock \in {d, None}
    BY DEF Close, LifeInv, ClosesOnDemand, CommandOK
  <2>2. QED BY <1>0, <2>1 DEF TypeOK, ProcessesOK, LifeInv, Findable, Owned
<1>2. StartsAlone'
  <2>1. \A e \in Pids : proc'[e] \notin Starting
    BY <1>0 DEF Close, LifeInv, ClosesOnDemand, CommandOK, Starting, TypeOK, ProcessesOK
  <2>2. QED BY <2>1 DEF StartsAlone
<1>3. ClosesOnDemand'
  BY DEF Close, TypeOK, ProcessesOK, Maybe, LifeInv, Findable, Superseded, Owned, StartsAlone, ClosesOnDemand, CommandOK, Starting, Daemon, SessionsOK
<1>4. \A c \in Sessions : CommandOK(c)'
  BY DEF Close, TypeOK, ProcessesOK, Maybe, LifeInv, Findable, Superseded, Owned, StartsAlone, ClosesOnDemand, CommandOK, Starting, Daemon, SessionsOK
<1>5. QED BY <1>1, <1>2, <1>3, <1>4 DEF LifeInv

LEMMA ExitLife ==
  ASSUME OneAtATime, TypeOK, LifeInv, NEW d \in Pids, Exit(d)
  PROVE  LifeInv'
<1> USE DaemonFacts DEF OneAtATime
<1>1. Findable'
  BY DEF Exit, Die, ClearState, TypeOK, ProcessesOK, Maybe, LifeInv, Findable, Superseded, Owned, StartsAlone, ClosesOnDemand, CommandOK, Starting, Daemon
<1>2. StartsAlone'
  BY DEF Exit, Die, ClearState, TypeOK, ProcessesOK, Maybe, LifeInv, Findable, Superseded, Owned, StartsAlone, ClosesOnDemand, CommandOK, Starting, Daemon
<1>3. ClosesOnDemand'
  BY DEF Exit, Die, ClearState, TypeOK, ProcessesOK, Maybe, LifeInv, Findable, Superseded, Owned, StartsAlone, ClosesOnDemand, CommandOK, Starting, Daemon, SessionsOK
<1>4. \A c \in Sessions : CommandOK(c)'
  BY DEF Exit, Die, ClearState, TypeOK, ProcessesOK, Maybe, LifeInv, Findable, Superseded, Owned, StartsAlone, ClosesOnDemand, CommandOK, Starting, Daemon, SessionsOK
<1>5. QED BY <1>1, <1>2, <1>3, <1>4 DEF LifeInv

LEMMA CrashLife ==
  ASSUME OneAtATime, TypeOK, LifeInv, NEW d \in Pids, Crash(d)
  PROVE  LifeInv'
<1> USE DaemonFacts DEF OneAtATime
<1>1. Findable'
  BY DEF Crash, Die, state, TypeOK, ProcessesOK, Maybe, LifeInv, Findable, Superseded, Owned, StartsAlone, ClosesOnDemand, CommandOK, Starting, Daemon
<1>2. StartsAlone'
  BY DEF Crash, Die, state, TypeOK, ProcessesOK, Maybe, LifeInv, Findable, Superseded, Owned, StartsAlone, ClosesOnDemand, CommandOK, Starting, Daemon
<1>3. ClosesOnDemand'
  BY DEF Crash, Die, state, TypeOK, ProcessesOK, Maybe, LifeInv, Findable, Superseded, Owned, StartsAlone, ClosesOnDemand, CommandOK, Starting, Daemon, SessionsOK
<1>4. \A c \in Sessions : CommandOK(c)'
  BY DEF Crash, Die, state, TypeOK, ProcessesOK, Maybe, LifeInv, Findable, Superseded, Owned, StartsAlone, ClosesOnDemand, CommandOK, Starting, Daemon, SessionsOK
<1>5. QED BY <1>1, <1>2, <1>3, <1>4 DEF LifeInv

LEMMA ReuseLife ==
  ASSUME OneAtATime, TypeOK, LifeInv, NEW d \in Pids, Reuse(d)
  PROVE  LifeInv'
<1> USE DaemonFacts DEF OneAtATime
<1>1. Findable'
  BY DEF Reuse, state, IsAlive, TypeOK, ProcessesOK, Maybe, LifeInv, Findable, Superseded, Owned, StartsAlone, ClosesOnDemand, CommandOK, Starting, Daemon
<1>2. StartsAlone'
  <2>1. proc' = [proc EXCEPT ![d] = "stranger"] /\ UNCHANGED <<ver, meta, sock, tools>>
    BY DEF Reuse, state
  <2>2. \A e \in Pids : proc'[e] \in Starting \cup {"ready"} => proc'[e] = proc[e]
    BY <2>1 DEF Starting, TypeOK, ProcessesOK
  <2>3. QED BY <2>1, <2>2 DEF LifeInv, StartsAlone, Superseded, Starting
<1>3. ClosesOnDemand'
  BY DEF Reuse, state, IsAlive, TypeOK, ProcessesOK, Maybe, LifeInv, Findable, Superseded, Owned, StartsAlone, ClosesOnDemand, CommandOK, Starting, Daemon, SessionsOK
<1>4. \A c \in Sessions : CommandOK(c)'
  BY DEF Reuse, state, IsAlive, TypeOK, ProcessesOK, Maybe, LifeInv, Findable, Superseded, Owned, StartsAlone, ClosesOnDemand, CommandOK, Starting, Daemon, SessionsOK
<1>5. QED BY <1>1, <1>2, <1>3, <1>4 DEF LifeInv

LEMMA BeginLife ==
  ASSUME OneAtATime, TypeOK, LifeInv, NEW c \in Sessions, NEW command \in {"stop", "restart"}, Begin(c, command)
  PROVE  LifeInv'
<1> USE DaemonFacts DEF OneAtATime
<1>1. Findable'
  BY DEF Begin, TypeOK, ProcessesOK, Maybe, LifeInv, Findable, Superseded, Owned, StartsAlone, ClosesOnDemand, CommandOK, Starting, Daemon, SessionsOK, state, Go, Say, NoCommand
<1>2. StartsAlone'
  BY DEF Begin, TypeOK, ProcessesOK, Maybe, LifeInv, Findable, Superseded, Owned, StartsAlone, ClosesOnDemand, CommandOK, Starting, Daemon, SessionsOK, state, Go, Say, NoCommand
<1>3. ClosesOnDemand'
  BY DEF Begin, TypeOK, ProcessesOK, Maybe, LifeInv, Findable, Superseded, Owned, StartsAlone, ClosesOnDemand, CommandOK, Starting, Daemon, SessionsOK, state, Go, Say, NoCommand
<1>4. \A s \in Sessions : CommandOK(s)'
  BY DEF Begin, TypeOK, ProcessesOK, Maybe, LifeInv, Findable, Superseded, Owned, StartsAlone, ClosesOnDemand, CommandOK, Starting, Daemon, SessionsOK, state, Go, Say, NoCommand
<1>5. QED BY <1>1, <1>2, <1>3, <1>4 DEF LifeInv

LEMMA ReadStateLife ==
  ASSUME OneAtATime, TypeOK, LifeInv, NEW c \in Sessions, ReadState(c)
  PROVE  LifeInv'
<1> USE DaemonFacts DEF OneAtATime
<1>1. Findable'
  BY DEF ReadState, Validate, Stale, IsAlive, Stopped, TypeOK, ProcessesOK, Maybe, LifeInv, Findable, Superseded, Owned, StartsAlone, ClosesOnDemand, CommandOK, Starting, Daemon, SessionsOK, state, Go, Say, NoCommand
<1>2. StartsAlone'
  BY DEF ReadState, Validate, Stale, IsAlive, Stopped, TypeOK, ProcessesOK, Maybe, LifeInv, Findable, Superseded, Owned, StartsAlone, ClosesOnDemand, CommandOK, Starting, Daemon, SessionsOK, state, Go, Say, NoCommand
<1>3. ClosesOnDemand'
  BY DEF ReadState, Validate, Stale, IsAlive, Stopped, TypeOK, ProcessesOK, Maybe, LifeInv, Findable, Superseded, Owned, StartsAlone, ClosesOnDemand, CommandOK, Starting, Daemon, SessionsOK, state, Go, Say, NoCommand
<1>4. \A s \in Sessions : CommandOK(s)'
  <2>1. UNCHANGED <<proc, ver, meta, sock, tools>> /\ \A s \in Sessions : s = c
    BY DEF ReadState, state
  <2>2. CASE meta # None
    <3>1. cli' = [cli EXCEPT ![c] = [@ EXCEPT !.pc = Validate(c, meta), !.pid = meta]]
      BY <2>2 DEF ReadState
    <3>2. /\ cli'[c].pc = Validate(c, meta) /\ cli'[c].pid = meta /\ cli'[c].tools = cli[c].tools
          /\ cli'[c].said = cli[c].said /\ meta \in Pids
      BY <2>2, <3>1 DEF TypeOK, SessionsOK, ProcessesOK, Maybe
    <3>3. CASE Stale(c, meta)
      <4>0. ver[meta] # cli[c].tools \/ proc[meta] # "ready"
        BY <3>3 DEF Stale, SameProtocol, IsAlive, Daemon
      <4>1. Superseded
        BY <2>2, <3>2, <4>0 DEF ReadState, LifeInv, Findable, CommandOK, Superseded,
                                Owned, TypeOK, SessionsOK, ProcessesOK
      <4>2. QED BY <2>1, <3>2, <3>3, <4>1 DEF Validate, ReadState, LifeInv, CommandOK, Superseded
    <3>4. CASE ~Stale(c, meta)
      BY <2>1, <2>2, <3>2, <3>4 DEF Validate, Stale, ReadState, LifeInv, Findable, CommandOK
    <3>5. QED BY <3>3, <3>4
  <2>3. CASE meta = None
    <3>1. Superseded
      BY <2>3 DEF LifeInv, Findable, Superseded, Owned
    <3>2. \/ /\ cli'[c].pc \in {"clear", "spawn"}
             /\ cli'[c].tools = cli[c].tools /\ cli'[c].said = cli[c].said
          \/ cli'[c].pc = "idle"
      BY <2>3 DEF ReadState, Stopped, Go, Say, NoCommand, TypeOK, SessionsOK
    <3>3. cli'[c].pc = "spawn" => sock = None
      BY <2>3 DEF ReadState, Stopped, Go, Say, NoCommand, TypeOK, SessionsOK
    <3>4. QED BY <2>1, <2>3, <3>1, <3>2, <3>3 DEF ReadState, LifeInv, CommandOK, Superseded
  <2>4. QED BY <2>2, <2>3
<1>5. QED BY <1>1, <1>2, <1>3, <1>4 DEF LifeInv

LEMMA ProbeLife ==
  ASSUME OneAtATime, TypeOK, LifeInv, NEW c \in Sessions, Probe(c)
  PROVE  LifeInv'
<1> USE DaemonFacts DEF OneAtATime
<1>1. Findable'
  BY DEF Probe, Listening, TypeOK, ProcessesOK, Maybe, LifeInv, Findable, Superseded, Owned, StartsAlone, ClosesOnDemand, CommandOK, Starting, Daemon, SessionsOK, state, Go, Say, NoCommand
<1>2. StartsAlone'
  BY DEF Probe, Listening, TypeOK, ProcessesOK, Maybe, LifeInv, Findable, Superseded, Owned, StartsAlone, ClosesOnDemand, CommandOK, Starting, Daemon, SessionsOK, state, Go, Say, NoCommand
<1>3. ClosesOnDemand'
  BY DEF Probe, Listening, TypeOK, ProcessesOK, Maybe, LifeInv, Findable, Superseded, Owned, StartsAlone, ClosesOnDemand, CommandOK, Starting, Daemon, SessionsOK, state, Go, Say, NoCommand
<1>4. \A s \in Sessions : CommandOK(s)'
  BY DEF Probe, Listening, TypeOK, ProcessesOK, Maybe, LifeInv, Findable, Superseded, Owned, StartsAlone, ClosesOnDemand, CommandOK, Starting, Daemon, SessionsOK, state, Go, Say, NoCommand
<1>5. QED BY <1>1, <1>2, <1>3, <1>4 DEF LifeInv

LEMMA IdentifyLife ==
  ASSUME OneAtATime, TypeOK, LifeInv, NEW c \in Sessions, Identify(c)
  PROVE  LifeInv'
<1> USE DaemonFacts DEF OneAtATime
<1>1. Findable'
  BY DEF Identify, TypeOK, ProcessesOK, Maybe, LifeInv, Findable, Superseded, Owned, StartsAlone, ClosesOnDemand, CommandOK, Starting, Daemon, SessionsOK, state, Go, Say, NoCommand
<1>2. StartsAlone'
  BY DEF Identify, TypeOK, ProcessesOK, Maybe, LifeInv, Findable, Superseded, Owned, StartsAlone, ClosesOnDemand, CommandOK, Starting, Daemon, SessionsOK, state, Go, Say, NoCommand
<1>3. ClosesOnDemand'
  BY DEF Identify, TypeOK, ProcessesOK, Maybe, LifeInv, Findable, Superseded, Owned, StartsAlone, ClosesOnDemand, CommandOK, Starting, Daemon, SessionsOK, state, Go, Say, NoCommand
<1>4. \A s \in Sessions : CommandOK(s)'
  BY DEF Identify, TypeOK, ProcessesOK, Maybe, LifeInv, Findable, Superseded, Owned, StartsAlone, ClosesOnDemand, CommandOK, Starting, Daemon, SessionsOK, state, Go, Say, NoCommand
<1>5. QED BY <1>1, <1>2, <1>3, <1>4 DEF LifeInv

LEMMA TerminateLife ==
  ASSUME OneAtATime, TypeOK, LifeInv, NEW c \in Sessions, Terminate(c)
  PROVE  LifeInv'
<1> USE DaemonFacts DEF OneAtATime
<1>1. Findable'
  BY DEF Terminate, Signalled, IsAlive, Die, TypeOK, ProcessesOK, Maybe, LifeInv, Findable, Superseded, Owned, StartsAlone, ClosesOnDemand, CommandOK, Starting, Daemon, SessionsOK, state, Go, Say, NoCommand
<1>2. StartsAlone'
  BY DEF Terminate, Signalled, IsAlive, Die, TypeOK, ProcessesOK, Maybe, LifeInv, Findable, Superseded, Owned, StartsAlone, ClosesOnDemand, CommandOK, Starting, Daemon, SessionsOK, state, Go, Say, NoCommand
<1>3. ClosesOnDemand'
  BY DEF Terminate, Signalled, IsAlive, Die, TypeOK, ProcessesOK, Maybe, LifeInv, Findable, Superseded, Owned, StartsAlone, ClosesOnDemand, CommandOK, Starting, Daemon, SessionsOK, state, Go, Say, NoCommand
<1>4. \A s \in Sessions : CommandOK(s)'
  BY DEF Terminate, Signalled, IsAlive, Die, TypeOK, ProcessesOK, Maybe, LifeInv, Findable, Superseded, Owned, StartsAlone, ClosesOnDemand, CommandOK, Starting, Daemon, SessionsOK, state, Go, Say, NoCommand
<1>5. QED BY <1>1, <1>2, <1>3, <1>4 DEF LifeInv

LEMMA PollLife ==
  ASSUME OneAtATime, TypeOK, LifeInv, NEW c \in Sessions, Poll(c)
  PROVE  LifeInv'
<1> USE DaemonFacts DEF OneAtATime
<1>1. Findable'
  BY DEF Poll, IsAlive, Kill, Die, TypeOK, ProcessesOK, Maybe, LifeInv, Findable, Superseded, Owned, StartsAlone, ClosesOnDemand, CommandOK, Starting, Daemon, SessionsOK, state, Go, Say, NoCommand
<1>2. StartsAlone'
  BY DEF Poll, IsAlive, Kill, Die, TypeOK, ProcessesOK, Maybe, LifeInv, Findable, Superseded, Owned, StartsAlone, ClosesOnDemand, CommandOK, Starting, Daemon, SessionsOK, state, Go, Say, NoCommand
<1>3. ClosesOnDemand'
  BY DEF Poll, IsAlive, Kill, Die, TypeOK, ProcessesOK, Maybe, LifeInv, Findable, Superseded, Owned, StartsAlone, ClosesOnDemand, CommandOK, Starting, Daemon, SessionsOK, state, Go, Say, NoCommand
<1>4. \A s \in Sessions : CommandOK(s)'
  BY DEF Poll, IsAlive, Kill, Die, TypeOK, ProcessesOK, Maybe, LifeInv, Findable, Superseded, Owned, StartsAlone, ClosesOnDemand, CommandOK, Starting, Daemon, SessionsOK, state, Go, Say, NoCommand
<1>5. QED BY <1>1, <1>2, <1>3, <1>4 DEF LifeInv

LEMMA ClearLife ==
  ASSUME OneAtATime, TypeOK, LifeInv, NEW c \in Sessions, Clear(c)
  PROVE  LifeInv'
<1> USE DaemonFacts DEF OneAtATime
<1>1. Findable'
  BY DEF Clear, ClearState, Stopped, TypeOK, ProcessesOK, Maybe, LifeInv, Findable, Superseded, Owned, StartsAlone, ClosesOnDemand, CommandOK, Starting, Daemon, SessionsOK, state, Go, Say, NoCommand
<1>2. StartsAlone'
  BY DEF Clear, ClearState, Stopped, TypeOK, ProcessesOK, Maybe, LifeInv, Findable, Superseded, Owned, StartsAlone, ClosesOnDemand, CommandOK, Starting, Daemon, SessionsOK, state, Go, Say, NoCommand
<1>3. ClosesOnDemand'
  BY DEF Clear, ClearState, Stopped, TypeOK, ProcessesOK, Maybe, LifeInv, Findable, Superseded, Owned, StartsAlone, ClosesOnDemand, CommandOK, Starting, Daemon, SessionsOK, state, Go, Say, NoCommand
<1>4. \A s \in Sessions : CommandOK(s)'
  BY DEF Clear, ClearState, Stopped, TypeOK, ProcessesOK, Maybe, LifeInv, Findable, Superseded, Owned, StartsAlone, ClosesOnDemand, CommandOK, Starting, Daemon, SessionsOK, state, Go, Say, NoCommand
<1>5. QED BY <1>1, <1>2, <1>3, <1>4 DEF LifeInv

LEMMA SpawnLife ==
  ASSUME OneAtATime, TypeOK, LifeInv, NEW c \in Sessions, Spawn(c)
  PROVE  LifeInv'
<1> USE DaemonFacts DEF OneAtATime
<1>1. Findable'
  BY DEF Spawn, Unborn, TypeOK, ProcessesOK, Maybe, LifeInv, Findable, Superseded, Owned, StartsAlone, ClosesOnDemand, CommandOK, Starting, Daemon, SessionsOK, state, Go, Say, NoCommand
<1>2. StartsAlone'
  BY DEF Spawn, Unborn, TypeOK, ProcessesOK, Maybe, LifeInv, Findable, Superseded, Owned, StartsAlone, ClosesOnDemand, CommandOK, Starting, Daemon, SessionsOK, state, Go, Say, NoCommand
<1>3. ClosesOnDemand'
  BY DEF Spawn, Unborn, TypeOK, ProcessesOK, Maybe, LifeInv, Findable, Superseded, Owned, StartsAlone, ClosesOnDemand, CommandOK, Starting, Daemon, SessionsOK, state, Go, Say, NoCommand
<1>4. \A s \in Sessions : CommandOK(s)'
  BY DEF Spawn, Unborn, TypeOK, ProcessesOK, Maybe, LifeInv, Findable, Superseded, Owned, StartsAlone, ClosesOnDemand, CommandOK, Starting, Daemon, SessionsOK, state, Go, Say, NoCommand
<1>5. QED BY <1>1, <1>2, <1>3, <1>4 DEF LifeInv

LEMMA WaitLife ==
  ASSUME OneAtATime, TypeOK, LifeInv, NEW c \in Sessions, Wait(c)
  PROVE  LifeInv'
<1> USE DaemonFacts DEF OneAtATime
<1>1. Findable'
  BY DEF Wait, IsAlive, TypeOK, ProcessesOK, Maybe, LifeInv, Findable, Superseded, Owned, StartsAlone, ClosesOnDemand, CommandOK, Starting, Daemon, SessionsOK, state, Go, Say, NoCommand
<1>2. StartsAlone'
  BY DEF Wait, IsAlive, TypeOK, ProcessesOK, Maybe, LifeInv, Findable, Superseded, Owned, StartsAlone, ClosesOnDemand, CommandOK, Starting, Daemon, SessionsOK, state, Go, Say, NoCommand
<1>3. ClosesOnDemand'
  BY DEF Wait, IsAlive, TypeOK, ProcessesOK, Maybe, LifeInv, Findable, Superseded, Owned, StartsAlone, ClosesOnDemand, CommandOK, Starting, Daemon, SessionsOK, state, Go, Say, NoCommand
<1>4. \A s \in Sessions : CommandOK(s)'
  BY DEF Wait, IsAlive, TypeOK, ProcessesOK, Maybe, LifeInv, Findable, Superseded, Owned, StartsAlone, ClosesOnDemand, CommandOK, Starting, Daemon, SessionsOK, state, Go, Say, NoCommand
<1>5. QED BY <1>1, <1>2, <1>3, <1>4 DEF LifeInv

LEMMA LifeKept ==
  ASSUME LifeInv, UNCHANGED <<proc, ver, term, meta, sock, cli>>, tools' >= tools,
         TypeOK, tools' \in Nat
  PROVE  LifeInv'
<1> USE DaemonAssumption DEF DaemonAssumption, TypeOK
<1>1. Superseded => Superseded'
  BY DEF Superseded, ProcessesOK
<1>2. Findable' /\ StartsAlone' /\ ClosesOnDemand'
  BY <1>1 DEF LifeInv, Findable, Owned, StartsAlone, ClosesOnDemand, ProcessesOK
<1>3. \A c \in Sessions : CommandOK(c)'
  BY <1>1 DEF LifeInv, CommandOK, Owned, SessionsOK
<1>4. QED BY <1>2, <1>3 DEF LifeInv

LEMMA LifeStep ==
  ASSUME OneAtATime, TypeOK, LifeInv, [Next]_vars, Undisturbed'
  PROVE  LifeInv'
<1>0. tools \in Nat /\ (UNCHANGED <<proc, ver, term, meta, sock, cli, tools>> => LifeInv')
  BY LifeKept, DaemonAssumption DEF TypeOK, DaemonAssumption
<1>1. ASSUME NEW d \in Pids, DaemonStep(d) PROVE LifeInv'
  BY <1>1, PrepareLife, BindLife, PublishLife, CloseLife, ExitLife, CrashLife, ReuseLife
     DEF DaemonStep, Interrupt, Undisturbed
<1>2. ASSUME NEW d \in Pids, WorkStep(d) PROVE LifeInv'
  BY <1>0, <1>2 DEF WorkStep, Accept, ReadFile, Hashed, Loaded, Referenced, Answer, state
<1>3. ASSUME NEW c \in Sessions, ServerStep(c) PROVE LifeInv'
  BY <1>3, BeginLife, ReadStateLife, ProbeLife, IdentifyLife, TerminateLife, PollLife, ClearLife,
     SpawnLife, WaitLife DEF ServerStep
<1>4. ASSUME NEW k \in Clients, ClientStep(k) PROVE LifeInv'
  BY <1>0, <1>4 DEF ClientStep, Ask, Connect, TimeOut, OneShot, Done, state
<1>5. ASSUME NEW f \in Files, Edit(f) PROVE LifeInv'
  BY <1>0, <1>5 DEF Edit, state
<1>6. CASE Upgrade
  BY <1>0, <1>6, LifeKept DEF Upgrade, state
<1>7. CASE UNCHANGED vars
  BY <1>0, <1>7 DEF vars, state
<1>8. QED BY <1>1, <1>2, <1>3, <1>4, <1>5, <1>6, <1>7 DEF Next

(* A signal from outside is never taken back.                                  *)
LEMMA StaysDisturbed == [Next]_vars /\ Undisturbed' => Undisturbed
<1> SUFFICES ASSUME [Next]_vars, outside' = {} PROVE outside = {}
  BY DEF Undisturbed
<1>1. ASSUME NEW d \in Pids, DaemonStep(d) PROVE outside = {}
  BY <1>1 DEF DaemonStep, Prepare, Bind, Publish, Close, Exit, Crash, Interrupt, Reuse
<1>2. ASSUME NEW d \in Pids, WorkStep(d) PROVE outside = {}
  BY <1>2 DEF WorkStep, Accept, ReadFile, Hashed, Loaded, Referenced, Answer
<1>3. ASSUME NEW c \in Sessions, ServerStep(c) PROVE outside = {}
  BY <1>3 DEF ServerStep, Begin, ReadState, Probe, Identify, Terminate, Poll, Clear, Spawn, Wait
<1>4. ASSUME NEW k \in Clients, ClientStep(k) PROVE outside = {}
  BY <1>4 DEF ClientStep, Ask, Connect, TimeOut, OneShot, Done
<1>5. QED BY <1>1, <1>2, <1>3, <1>4 DEF Next, Edit, Upgrade, vars

LEMMA LifeInvariance ==
  ASSUME OneAtATime
  PROVE  Spec => [](Inv /\ (Undisturbed => LifeInv))
<1>1. Init => LifeInv
  BY DaemonAssumption
     DEF Init, LifeInv, Findable, StartsAlone, ClosesOnDemand, CommandOK, NoCommand, Starting,
         DaemonAssumption
<1>2. Inv /\ (Undisturbed => LifeInv) /\ [Next]_vars => (Undisturbed => LifeInv)'
  BY LifeStep, StaysDisturbed DEF Inv
<1>3. QED BY <1>1, <1>2, Invariance, PTL DEF Spec

(* Given one lifecycle command at a time, and none while a daemon starts, no   *)
(* daemon of the checked-out tools is out of the files' reach, however daemons      *)
(* crash, pids are given away and tools change, until somebody else signals one     *)
(* (server-cli.ts:151-179, daemon-server.ts:44-77).                                  *)
THEOREM NoneIsOrphaned ==
  ASSUME OneAtATime
  PROVE  Spec => []NoOrphan
<1>1. Inv /\ (Undisturbed => LifeInv) => NoOrphan
  BY DEF Inv, TypeOK, ProcessesOK, LifeInv, Findable, Owned, ClosesOnDemand, NoOrphan, Daemon
<1>2. QED BY <1>1, LifeInvariance, PTL

(* What spares a stranger does not ask who has signalled a daemon: the files   *)
(* never name two processes, nothing starts while a command looks for one, and    *)
(* what the command is about to signal was seen to be a daemon.                    *)
FilesAgree == meta # None /\ sock # None => meta = sock
StartsIntoEmpty ==
  \A d \in Pids : proc[d] \in Starting =>
    /\ meta = None /\ sock \in {d, None}
    /\ \A e \in Pids : proc[e] \in Starting => e = d
Spared(c) ==
  LET pc == cli[c].pc
      pid == cli[c].pid IN
    /\ pc \in {"read", "probe", "identify", "term", "poll", "clear", "spawn"} =>
         \A d \in Pids : proc[d] \notin Starting
    /\ pc \in {"probe", "identify", "term", "poll"} => meta \in {pid, None} /\ sock \in {pid, None}
    /\ pc \in {"term", "poll"} => proc[pid] # "stranger"
    /\ pc = "spawn" => meta = None /\ sock = None
    /\ pc = "wait" => \A d \in Pids : proc[d] \in Starting => d = pid
SparedInv == FilesAgree /\ StartsIntoEmpty /\ \A c \in Sessions : Spared(c)

(* Steps that name no process in the files, start none and give no pid away    *)
(* that a command holds.                                                           *)
LEMMA SparedKept ==
  ASSUME SparedInv, UNCHANGED cli, meta' \in {meta, None}, sock' \in {sock, None},
         \A p \in Pids : proc'[p] \in Starting => proc[p] \in Starting,
         \A p \in Pids : proc'[p] = "stranger" => proc[p] = "stranger" \/ \A c \in Sessions : cli[c].pid # p,
         TypeOK
  PROVE  SparedInv'
<1>1. FilesAgree' /\ StartsIntoEmpty'
  BY DEF SparedInv, FilesAgree, StartsIntoEmpty
<1>2. ASSUME NEW c \in Sessions
      PROVE  Spared(c)'
  <2>1. cli[c].pc \in {"term", "poll"} => cli[c].pid \in Pids
    BY DEF TypeOK, SessionsOK, Maybe
  <2>2. cli[c].pc \in {"term", "poll"} => proc'[cli[c].pid] # "stranger"
    BY <2>1 DEF SparedInv, Spared
  <2>3. QED BY <2>2 DEF SparedInv, Spared
<1>3. QED BY <1>1, <1>2 DEF SparedInv

(* The only session takes a step.                                              *)
LEMMA SparedMove ==
  ASSUME OneAtATime, SparedInv, NEW c \in Sessions, Spared(c)',
         meta' \in {meta, None}, sock' \in {sock, None},
         \A p \in Pids : proc'[p] \in Starting => proc[p] \in Starting
  PROVE  SparedInv'
<1>1. FilesAgree' /\ StartsIntoEmpty'
  BY DEF SparedInv, FilesAgree, StartsIntoEmpty
<1>2. \A s \in Sessions : s = c
  BY DEF OneAtATime
<1>3. QED BY <1>1, <1>2 DEF SparedInv

LEMMA DieSpared ==
  ASSUME TypeOK, NEW d \in Pids, Die(d)
  PROVE  \A p \in Pids : /\ proc'[p] \in Starting => proc[p] \in Starting
                         /\ proc'[p] = "stranger" => proc[p] = "stranger"
BY DEF Die, TypeOK, ProcessesOK, Starting

LEMMA DaemonSpared ==
  ASSUME TypeOK, SparedInv, NEW d \in Pids, DaemonStep(d)
  PROVE  SparedInv'
<1>1. CASE Prepare(d)
  BY <1>1, SparedKept DEF Prepare, Starting, TypeOK, ProcessesOK
<1>2. CASE Bind(d)
  <2>1. CASE dir /\ sock = None
    <3>1. proc[d] = "binding" /\ proc' = [proc EXCEPT ![d] = "bound"] /\ sock' = d /\ UNCHANGED <<meta, cli>>
      BY <1>2, <2>1 DEF Bind
    <3>2. \A p \in Pids : /\ proc'[p] \in Starting <=> proc[p] \in Starting
                          /\ proc'[p] = "stranger" => proc[p] = "stranger"
      BY <3>1 DEF Starting, TypeOK, ProcessesOK
    <3>3. proc[d] \in Starting /\ meta = None
      BY <3>1 DEF Starting, SparedInv, StartsIntoEmpty
    <3>4. FilesAgree' /\ StartsIntoEmpty'
      BY <3>1, <3>2, <3>3 DEF SparedInv, FilesAgree, StartsIntoEmpty
    <3>5. ASSUME NEW c \in Sessions
          PROVE  Spared(c)'
      <4>1. cli[c].pc \notin {"read", "probe", "identify", "term", "poll", "clear", "spawn"}
        BY <3>3 DEF SparedInv, Spared
      <4>2. QED BY <3>1, <3>2, <4>1 DEF SparedInv, Spared
    <3>6. QED BY <3>4, <3>5 DEF SparedInv
  <2>2. CASE ~(dir /\ sock = None)
    <3>1. Die(d) /\ UNCHANGED <<meta, sock, cli>>
      BY <1>2, <2>2 DEF Bind
    <3>2. QED BY <3>1, DieSpared, SparedKept
  <2>3. QED BY <2>1, <2>2
<1>3. CASE Publish(d)
  <2>1. proc[d] = "bound" /\ proc' = [proc EXCEPT ![d] = "ready"] /\ meta' = d /\ UNCHANGED <<sock, cli>>
    BY <1>3 DEF Publish
  <2>2. \A p \in Pids : proc'[p] \in Starting => proc[p] \in Starting /\ p # d
    BY <2>1 DEF Starting, TypeOK, ProcessesOK
  <2>3. proc[d] \in Starting /\ sock \in {d, None} /\ \A e \in Pids : proc[e] \in Starting => e = d
    BY <2>1 DEF Starting, SparedInv, StartsIntoEmpty
  <2>4. FilesAgree' /\ StartsIntoEmpty'
    BY <2>1, <2>2, <2>3 DEF SparedInv, FilesAgree, StartsIntoEmpty
  <2>5. ASSUME NEW c \in Sessions
        PROVE  Spared(c)'
    <3>1. cli[c].pc \notin {"read", "probe", "identify", "term", "poll", "clear", "spawn"}
      BY <2>3 DEF SparedInv, Spared
    <3>2. QED BY <2>1, <2>2, <3>1 DEF SparedInv, Spared
  <2>6. QED BY <2>4, <2>5 DEF SparedInv
<1>4. CASE Close(d)
  BY <1>4, SparedKept DEF Close, Starting, TypeOK, ProcessesOK
<1>5. CASE Exit(d) \/ Crash(d)
  <2>1. Die(d) /\ meta' \in {meta, None} /\ sock' \in {sock, None} /\ UNCHANGED cli
    BY <1>5 DEF Exit, Crash, ClearState, state
  <2>2. QED BY <2>1, DieSpared, SparedKept
<1>6. CASE Interrupt(d)
  <2>1. (Die(d) \/ UNCHANGED proc) /\ UNCHANGED <<meta, sock, cli>>
    BY <1>6, SignalledOutcome DEF Interrupt, state
  <2>2. QED BY <2>1, DieSpared, SparedKept
<1>7. CASE Reuse(d)
  BY <1>7, SparedKept DEF Reuse, state, Starting, TypeOK, ProcessesOK
<1>8. QED BY <1>1, <1>2, <1>3, <1>4, <1>5, <1>6, <1>7 DEF DaemonStep

LEMMA SessionSpared ==
  ASSUME OneAtATime, TypeOK, SparedInv, NEW c \in Sessions, ServerStep(c)
  PROVE  SparedInv'
<1> USE DEF Go, Say, NoCommand
<1>1. CASE \E command \in {"stop", "restart"} : Begin(c, command)
  <2>1. Spared(c)'
    BY <1>1 DEF Begin, OneAtATime, Spared, TypeOK, SessionsOK
  <2>2. QED BY <1>1, <2>1, SparedMove DEF Begin, state
<1>2. CASE ReadState(c)
  <2>1. UNCHANGED <<proc, meta, sock>> /\ cli[c].pc = "read"
    BY <1>2 DEF ReadState, state
  <2>2. \A p \in Pids : proc[p] \notin Starting
    BY <2>1 DEF SparedInv, Spared
  <2>3. CASE meta # None
    <3>1. cli'[c].pc \in {"clear", "probe"} /\ cli'[c].pid = meta
      BY ZenonT(60), <1>2, <2>3 DEF ReadState, Validate, TypeOK, SessionsOK
    <3>2. Spared(c)'
      BY <2>1, <2>2, <2>3, <3>1 DEF SparedInv, FilesAgree, Spared
    <3>3. QED BY <2>1, <3>2, SparedMove
  <2>4. CASE meta = None
    <3>1. cli'[c].pc \in {"clear", "idle"} \/ (cli'[c].pc = "spawn" /\ sock = None)
      BY <1>2, <2>4 DEF ReadState, Stopped, TypeOK, SessionsOK
    <3>2. Spared(c)'
      BY <2>1, <2>2, <2>4, <3>1 DEF Spared
    <3>3. QED BY <2>1, <3>2, SparedMove
  <2>5. QED BY <2>3, <2>4
<1>3. CASE Probe(c) \/ Identify(c)
  <2>1. UNCHANGED <<proc, meta, sock>> /\ cli[c].pc \in {"probe", "identify"}
    BY <1>3 DEF Probe, Identify, state
  <2>2. cli'[c].pc \in {"term", "clear", "identify", "idle"} /\ (cli'[c].pc # "idle" => cli'[c].pid = cli[c].pid)
    BY <1>3 DEF Probe, Identify, TypeOK, SessionsOK
  <2>3. (\A p \in Pids : proc[p] \notin Starting) /\ meta \in {cli[c].pid, None} /\ sock \in {cli[c].pid, None}
    BY <2>1 DEF SparedInv, Spared
  <2>4. cli'[c].pc = "term" => proc[cli[c].pid] # "stranger"
    BY <1>3, <2>3 DEF Probe, Identify, Daemon, Starting, TypeOK, SessionsOK
  <2>5. Spared(c)'
    BY <2>1, <2>2, <2>3, <2>4 DEF Spared
  <2>6. QED BY <2>1, <2>5, SparedMove
<1>4. CASE Terminate(c) \/ Poll(c)
  <2>1. cli[c].pc \in {"term", "poll"} /\ cli[c].pid \in Pids /\ UNCHANGED <<meta, sock>>
    BY <1>4 DEF Terminate, Poll, TypeOK, SessionsOK, Maybe, state
  <2>2. cli'[c].pc \in {"poll", "clear"} /\ cli'[c].pid = cli[c].pid
    BY <1>4 DEF Terminate, Poll, TypeOK, SessionsOK
  <2>3. (\A p \in Pids : proc[p] \notin Starting) /\ meta \in {cli[c].pid, None} /\ sock \in {cli[c].pid, None}
        /\ proc[cli[c].pid] # "stranger"
    BY <2>1 DEF SparedInv, Spared
  <2>4. Die(cli[c].pid) \/ UNCHANGED proc
    BY <1>4, <2>1, SignalledOutcome DEF Terminate, Poll, Kill
  <2>5. \A p \in Pids : /\ proc'[p] \in Starting => proc[p] \in Starting
                        /\ proc'[p] = "stranger" => proc[p] = "stranger"
    BY <2>1, <2>4, DieSpared
  <2>6. Spared(c)'
    BY <2>1, <2>2, <2>3, <2>5 DEF Spared
  <2>7. QED BY <2>1, <2>5, <2>6, SparedMove
<1>5. CASE Clear(c)
  <2>1. UNCHANGED proc /\ meta' = None /\ sock' = None /\ cli[c].pc = "clear"
    BY <1>5 DEF Clear, ClearState
  <2>2. cli'[c].pc \in {"spawn", "idle"} /\ \A p \in Pids : proc[p] \notin Starting
    BY <1>5, <2>1 DEF Clear, Stopped, TypeOK, SessionsOK, SparedInv, Spared
  <2>3. Spared(c)'
    BY <2>1, <2>2 DEF Spared
  <2>4. QED BY <2>1, <2>3, SparedMove
<1>6. CASE Spawn(c)
  <2>1. PICK d \in Pids : /\ proc' = [proc EXCEPT ![d] = "booting"]
                          /\ cli' = [cli EXCEPT ![c] = [@ EXCEPT !.pc = "wait", !.pid = d]]
    BY <1>6 DEF Spawn, Unborn
  <2>2. UNCHANGED <<meta, sock>> /\ meta = None /\ sock = None /\ \A p \in Pids : proc[p] \notin Starting
    BY <1>6 DEF Spawn, state, SparedInv, Spared
  <2>3. cli'[c].pc = "wait" /\ cli'[c].pid = d
    BY <2>1 DEF TypeOK, SessionsOK
  <2>4. \A p \in Pids : proc'[p] \in Starting => p = d
    BY <2>1, <2>2 DEF TypeOK, ProcessesOK
  <2>5. FilesAgree' /\ StartsIntoEmpty' /\ Spared(c)'
    BY <2>2, <2>3, <2>4 DEF FilesAgree, StartsIntoEmpty, Spared
  <2>6. QED BY <2>5 DEF SparedInv, OneAtATime
<1>7. CASE Wait(c)
  <2>1. cli'[c].pc = "idle"
    BY <1>7 DEF Wait, TypeOK, SessionsOK
  <2>2. QED BY <1>7, <2>1, SparedMove DEF Wait, Spared, state
<1>8. QED BY <1>1, <1>2, <1>3, <1>4, <1>5, <1>6, <1>7 DEF ServerStep

LEMMA SparedInvariance ==
  ASSUME OneAtATime
  PROVE  Spec => [](Inv /\ SparedInv)
<1>1. Init => SparedInv
  BY DEF Init, SparedInv, FilesAgree, StartsIntoEmpty, Spared, NoCommand, Starting
<1>2. ASSUME Inv, SparedInv, [Next]_vars
      PROVE  SparedInv'
  <2> USE <1>2 DEF Inv
  <2>1. UNCHANGED <<proc, meta, sock, cli>> => SparedInv'
    BY SparedKept
  <2>2. ASSUME NEW d \in Pids, WorkStep(d) PROVE SparedInv'
    BY <2>1, <2>2 DEF WorkStep, Accept, ReadFile, Hashed, Loaded, Referenced, Answer, state
  <2>3. ASSUME NEW k \in Clients, ClientStep(k) PROVE SparedInv'
    BY <2>1, <2>3 DEF ClientStep, Ask, Connect, TimeOut, OneShot, Done, state
  <2>4. ASSUME NEW f \in Files, Edit(f) PROVE SparedInv'
    BY <2>1, <2>4 DEF Edit, state
  <2>5. CASE Upgrade
    BY <2>1, <2>5 DEF Upgrade, state
  <2>6. CASE UNCHANGED vars
    BY <2>1, <2>6 DEF vars, state
  <2>7. QED BY <2>2, <2>3, <2>4, <2>5, <2>6, DaemonSpared, SessionSpared DEF Next
<1>3. QED BY <1>1, <1>2, Invariance, PTL DEF Spec

(* Under the same condition, and whoever else signals daemons, a command       *)
(* signals its own daemon or nothing: a process that has got a dead daemon's pid   *)
(* lives on (server-cli.ts:269-290).                                                *)
THEOREM StrangersAreSpared ==
  ASSUME OneAtATime
  PROVE  Spec => SignalsDaemonsOnly
<1>1. ASSUME Inv, SparedInv, [Next]_vars, NEW p \in Pids, proc[p] = "stranger"
      PROVE  proc'[p] = "stranger"
  <2> USE <1>1 DEF Inv
  <2>1. ASSUME NEW d \in Pids, DaemonStep(d) PROVE proc'[p] = "stranger"
    BY <2>1 DEF DaemonStep, Prepare, Bind, Publish, Close, Exit, Crash, Interrupt, Signalled, Reuse, Die, Daemon, Starting,
                TypeOK, ProcessesOK
  <2>2. ASSUME NEW c \in Sessions, ServerStep(c) PROVE proc'[p] = "stranger"
    <3>1. CASE Terminate(c) \/ Poll(c)
      <4>1. proc[cli[c].pid] # "stranger"
        BY <3>1 DEF Terminate, Poll, SparedInv, Spared
      <4>2. cli[c].pid \in Pids
        BY <3>1 DEF Terminate, Poll, TypeOK, SessionsOK, Maybe
      <4>3. Die(cli[c].pid) \/ UNCHANGED proc
        BY <3>1, SignalledOutcome DEF Terminate, Poll, Kill
      <4>4. QED BY <4>1, <4>2, <4>3 DEF Die, TypeOK, ProcessesOK
    <3>2. CASE Spawn(c)
      BY <3>2 DEF Spawn, Unborn, TypeOK, ProcessesOK
    <3>3. QED BY <2>2, <3>1, <3>2 DEF ServerStep, Begin, ReadState, Probe, Identify, Clear, Wait
  <2>3. CASE UNCHANGED proc
    BY <2>3
  <2>4. QED BY <2>1, <2>2, <2>3
            DEF Next, WorkStep, Accept, ReadFile, Hashed, Loaded, Referenced, Answer,
                ClientStep, Ask, Connect, TimeOut, OneShot, Done, Edit, Upgrade, vars
<1>2. Inv /\ SparedInv /\ [Next]_vars
        => [\A p \in Pids : proc[p] = "stranger" => proc'[p] = "stranger"]_vars
  BY <1>1
<1>3. Spec => [][\A p \in Pids : proc[p] = "stranger" => proc'[p] = "stranger"]_vars
  BY SparedInvariance, <1>2, PTL DEF Spec
<1>4. QED BY <1>3 DEF SignalsDaemonsOnly

(* And a daemon that shuts down because a command told it to finds only its    *)
(* own files to remove (daemon-server.ts:159-169).                                 *)
THEOREM ShutdownIsConfined ==
  ASSUME OneAtATime
  PROVE  Spec => ShutdownKeepsOthers
<1> DEFINE Confined == \A d \in Pids : Undisturbed /\ proc[d] = "closing" /\ proc'[d] = "dead" /\ dir /\ ~dir'
                         => {meta, sock} \subseteq {d, None}
<1>1. ASSUME LifeInv, NEW d \in Pids, proc[d] = "closing"
      PROVE  {meta, sock} \subseteq {d, None}
  BY <1>1 DEF LifeInv, ClosesOnDemand, CommandOK
<1>2. Inv /\ (Undisturbed => LifeInv) /\ [Next]_vars => [Confined]_vars
  BY <1>1
<1>3. Spec => [][Confined]_vars
  BY LifeInvariance, <1>2, PTL DEF Spec
<1>4. QED BY <1>3 DEF ShutdownKeepsOthers

(* And "started" is said of the daemon that was spawned, ready and with both   *)
(* files its own (server-cli.ts:228-238).                                          *)
THEOREM StartedMeansServing ==
  ASSUME OneAtATime
  PROVE  Spec => StartedServes
<1> DEFINE Serves == \A c \in Sessions : Undisturbed /\ cli[c].pc = "wait" /\ cli'[c].said = "started"
                       => meta = cli[c].pid /\ sock = cli[c].pid /\ proc[cli[c].pid] = "ready"
<1>1. ASSUME Inv, LifeInv, [Next]_vars, NEW c \in Sessions,
             cli[c].pc = "wait", cli'[c].said = "started"
      PROVE  meta = cli[c].pid /\ sock = cli[c].pid /\ proc[cli[c].pid] = "ready"
  <2> USE <1>1 DEF Inv
  <2>1. CommandOK(c) /\ cli[c].said # "started" /\ cli[c].pid \in Pids
    BY DEF LifeInv, CommandOK, TypeOK, SessionsOK, Maybe
  <2>2. Wait(c)
    <3>1. PICK s \in Sessions : ServerStep(s)
      BY <2>1 DEF Next, DaemonStep, Prepare, Bind, Publish, Close, Exit, Crash, Interrupt, Reuse,
                  WorkStep, Accept, ReadFile, Hashed, Loaded, Referenced, Answer,
                  ClientStep, Ask, Connect, TimeOut, OneShot, Done, Edit, Upgrade, vars
    <3>2. s = c
      BY DEF OneAtATime
    <3>3. QED BY <3>1, <3>2 DEF ServerStep, Begin, ReadState, Probe, Identify, Terminate, Poll, Clear, Spawn
  <2>3. IsAlive(cli[c].pid) /\ sock # None /\ meta # None
    BY <2>2, <2>1 DEF Wait, Say, NoCommand, TypeOK, SessionsOK
  <2>4. proc[cli[c].pid] \notin Starting
    BY <2>1, <2>3 DEF LifeInv, StartsAlone
  <2>5. QED BY <2>1, <2>3, <2>4 DEF CommandOK, IsAlive, Owned, Daemon
<1>2. Inv /\ (Undisturbed => LifeInv) /\ [Next]_vars => [Serves]_vars
  BY <1>1
<1>3. Spec => [][Serves]_vars
  BY LifeInvariance, <1>2, PTL DEF Spec
<1>4. QED BY <1>3 DEF StartedServes
=============================================================================
