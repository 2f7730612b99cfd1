--------------------------- MODULE CodeIntelDaemon ---------------------------
(* The code-intel daemon of one repository: its lifecycle as the server CLI   *)
(* drives it (server-cli.ts, daemon-process.ts, lifecycle-probe.ts), the       *)
(* files it publishes (daemon-server.ts, daemon-state.ts), the queries of       *)
(* clients (cli-main.ts, daemon-client.ts) and the caches they are answered     *)
(* from (daemon-query.ts, graph-cache.ts, project-cache.ts).                     *)
EXTENDS Integers, FiniteSets

CONSTANTS
  Sessions,    \* runs of the server CLI, each one command after another
  Clients,     \* runs of the query CLI
  Pids,        \* process ids that daemons get, 1..n
  Kinds,       \* the kinds of query that clients ask, of AllKinds
  Files,       \* what answers are computed from
  Inputs,      \* those that the manifest hashes; the rest is reached by imports only
  MaxEdits,    \* contents of a file, 0..MaxEdits, each a new one
  MaxTools,    \* checkouts of the tools, 1..MaxTools, one after another
  Protocol,    \* the protocol version of each checkout
  Events,      \* what may happen beside the commands, see EventKinds
  None         \* no process, no content

AllKinds == {"graph", "symbol", "refs"}
EventKinds ==
  { "crash",    \* a daemon is killed from outside
    "outside",  \* it gets a SIGINT or SIGTERM that no command has sent
    "reuse",    \* the pid of a dead daemon is given to an unrelated process
    "hasty",    \* a lifecycle command is given while a daemon still starts
    "upgrade" } \* another protocol version is checked out

ASSUME DaemonAssumption ==
  /\ Pids \subseteq Nat /\ None \notin Pids \cup Clients
  /\ Kinds \subseteq AllKinds
  /\ Inputs \subseteq Files
  /\ MaxEdits \in Nat /\ MaxTools \in Nat \ {0} /\ Protocol \in [1..MaxTools -> Nat]
  /\ Events \subseteq EventKinds
  /\ None \notin [Files -> 0..MaxEdits] \cup [Inputs -> 0..MaxEdits]

VARIABLES
  proc,   \* what each pid is
  ver,    \* the checkout that the daemon with the pid runs
  term,   \* daemons with a SIGTERM they have not handled
  dir,    \* the state directory exists
  meta,   \* the pid that daemon.json names
  sock,   \* the process whose socket daemon.sock is
  cli,    \* a session: its command and how far it is
  query,  \* a client: its query and how far it is
  job,    \* the request a daemon is working on
  cache,  \* the two caches of a daemon
  disk,   \* the content of each file
  tools,  \* the checkout in use
  outside \* daemons that were signalled from outside

state == <<dir, meta, sock>>
work == <<job, cache>>
vars == <<proc, ver, term, state, cli, query, work, disk, tools, outside>>

Starting == {"booting", "binding", "bound"}
Daemon == Starting \cup {"ready", "closing"}
Listening == {"bound", "ready"}

(* process.kill(pid, 0) says no more than that some process has the pid.       *)
IsAlive(p) == proc[p] \in Daemon \cup {"stranger"}

SameProtocol(v, w) == Protocol[v] = Protocol[w]

Contents == [Files -> 0..MaxEdits]
Manifests == [Inputs -> 0..MaxEdits]

(* computeWorkspaceManifest: discovered sources and configuration only.       *)
Manifest(content) == [f \in Inputs |-> content[f]]

CacheOf(kind) == IF kind = "graph" THEN "graph" ELSE "project"

Empty == [manifest |-> None, content |-> None, reference |-> None]
NoJob == [client |-> None, kind |-> "graph", step |-> "idle", todo |-> {}, read |-> None, hash |-> None]
NoQuery == [pc |-> "idle", kind |-> "graph", at |-> None, tools |-> 1, since |-> None, answer |-> None]
NoCommand == [pc |-> "idle", command |-> "stop", pid |-> None, tools |-> 1, said |-> "nothing"]

Init ==
  /\ proc = [p \in Pids |-> "unborn"]
  /\ ver = [p \in Pids |-> 1]
  /\ term = {}
  /\ dir = FALSE /\ meta = None /\ sock = None
  /\ cli = [c \in Sessions |-> NoCommand]
  /\ query = [k \in Clients |-> NoQuery]
  /\ job = [p \in Pids |-> NoJob]
  /\ cache = [p \in Pids |-> [name \in {"graph", "project"} |-> Empty]]
  /\ disk = [f \in Files |-> 0]
  /\ tools = 1
  /\ outside = {}

-----------------------------------------------------------------------------
(* A daemon process                                                           *)

(* A client that loses its connection falls back, whatever it asked for; one   *)
(* that is answered or has given up is not concerned.                           *)
Disconnect(lost) ==
  query' = [k \in Clients |-> IF k \in lost THEN [query[k] EXCEPT !.pc = "oneshot", !.at = None]
                              ELSE query[k]]

Connected(d) == {k \in Clients : query[k].pc = "sent" /\ query[k].at = d}

Busy(d) == job[d].step # "idle"

(* The process is gone, its files stay.                                        *)
Die(d) ==
  /\ proc' = [proc EXCEPT ![d] = "dead"]
  /\ term' = term \ {d}
  /\ job' = [job EXCEPT ![d] = NoJob]
  /\ cache' = [cache EXCEPT ![d] = [name \in {"graph", "project"} |-> Empty]]
  /\ Disconnect(Connected(d))

(* Mutant: only the socket is removed.                                         *)
ClearSocket == sock' = None /\ UNCHANGED <<dir, meta>>
(* clearDaemonState.                                                           *)
ClearState == dir' = FALSE /\ meta' = None /\ sock' = None

(* ensureStateDir and unlinkSocketFile.                                        *)
Prepare(d) ==
  /\ proc[d] = "booting"
  /\ proc' = [proc EXCEPT ![d] = "binding"]
  /\ dir' = TRUE /\ sock' = None
  /\ UNCHANGED <<ver, term, meta, cli, query, work, disk, tools, outside>>

(* listen() fails, and the process with it, without the directory or when the *)
(* name is taken.                                                               *)
Bind(d) ==
  /\ proc[d] = "binding"
  /\ IF dir /\ sock = None
     THEN /\ proc' = [proc EXCEPT ![d] = "bound"] /\ sock' = d
          /\ UNCHANGED <<term, query, work>>
     ELSE Die(d) /\ UNCHANGED sock
  /\ UNCHANGED <<ver, dir, meta, cli, disk, tools, outside>>

(* The listen callback; from here on the daemon handles SIGTERM.               *)
Publish(d) ==
  /\ proc[d] = "bound"
  /\ proc' = [proc EXCEPT ![d] = "ready"]
  /\ dir' = TRUE /\ meta' = d
  /\ UNCHANGED <<ver, term, sock, cli, query, work, disk, tools, outside>>

(* server.close() between two requests: connections not yet accepted are       *)
(* refused, the others are waited for.  The runtime may unlink the name.        *)
Close(d) ==
  /\ proc[d] = "ready" /\ d \in term /\ ~Busy(d)
  /\ proc' = [proc EXCEPT ![d] = "closing"]
  /\ \E lost \in SUBSET Connected(d) : Disconnect(lost)
  /\ sock' \in {sock, None}
  /\ UNCHANGED <<ver, term, dir, meta, cli, work, disk, tools, outside>>

Exit(d) ==
  /\ proc[d] = "closing" /\ ~Busy(d) /\ Connected(d) = {}
  /\ Die(d) /\ ClearState
  /\ UNCHANGED <<ver, cli, disk, tools, outside>>

Crash(d) ==
  /\ "crash" \in Events
  /\ proc[d] \in Daemon
  /\ Die(d)
  /\ UNCHANGED <<ver, state, cli, disk, tools, outside>>

(* process.once: a daemon that has not installed its handlers dies of a        *)
(* signal, and one that is closing dies of the next; its files stay then.       *)
Signalled(d) ==
  CASE proc[d] = "ready" -> term' = term \cup {d} /\ UNCHANGED <<proc, query, work>>
    [] proc[d] \in Starting \cup {"closing", "stranger"} -> Die(d)
    [] OTHER -> UNCHANGED <<proc, term, query, work>>

(* Whoever has the right to may send it a signal.                              *)
Interrupt(d) ==
  /\ "outside" \in Events
  /\ proc[d] \in Daemon
  /\ Signalled(d)
  /\ outside' = outside \cup {d}
  /\ UNCHANGED <<ver, state, cli, disk, tools>>

(* Not within the moments between a command's look at a pid and its signal.    *)
Reuse(p) ==
  /\ "reuse" \in Events
  /\ proc[p] = "dead"
  /\ \A c \in Sessions : cli[c].pid # p
  /\ proc' = [proc EXCEPT ![p] = "stranger"]
  /\ UNCHANGED <<ver, term, state, cli, query, work, disk, tools, outside>>

-----------------------------------------------------------------------------
(* The server CLI: stop, and restart, which is a stop and a start             *)

Go(c, pc) == cli' = [cli EXCEPT ![c].pc = pc]
Say(c, said) == cli' = [cli EXCEPT ![c] = [NoCommand EXCEPT !.said = said]]
(* Mutant: the new daemon is waited for and never spawned.                     *)
StoppedUnspawned(c) == IF cli[c].command = "restart" THEN Go(c, "wait") ELSE Say(c, "stopped")
Stopped(c) == IF cli[c].command = "restart" THEN Go(c, "spawn") ELSE Say(c, "stopped")

Unborn == {p \in Pids : proc[p] = "unborn"}
Restarting == {c \in Sessions : cli[c].pc # "idle" /\ cli[c].command = "restart"}

Begin(c, command) ==
  /\ cli[c].pc = "idle"
  /\ command = "restart" => Cardinality(Restarting) < Cardinality(Unborn)
  /\ "hasty" \in Events \/ \A p \in Pids : proc[p] \notin Starting
  /\ cli' = [cli EXCEPT ![c] = [NoCommand EXCEPT !.pc = "read", !.command = command, !.tools = tools]]
  /\ UNCHANGED <<proc, ver, term, state, query, work, disk, tools, outside>>

(* Metadata of another protocol version are stale whatever runs there.        *)
Stale(c, d) == ~SameProtocol(ver[d], cli[c].tools) \/ ~IsAlive(d)

(* Mutant: the pid is believed.                                                *)
ValidateByPid(c, d) == IF Stale(c, d) THEN "clear" ELSE "term"
Validate(c, d) == IF Stale(c, d) THEN "clear" ELSE "probe"

ReadState(c) ==
  /\ cli[c].pc = "read"
  /\ CASE meta # None -> cli' = [cli EXCEPT ![c] = [@ EXCEPT !.pc = Validate(c, meta), !.pid = meta]]
       [] meta = None /\ sock # None -> Go(c, "clear")
       [] OTHER -> Stopped(c)
  /\ UNCHANGED <<proc, ver, term, state, query, work, disk, tools, outside>>

(* The ping goes to whoever owns the socket: a pong, no answer in time, or no  *)
(* connection.                                                                  *)
Probe(c) ==
  /\ cli[c].pc = "probe"
  /\ \/ /\ sock # None /\ proc[sock] = "ready" /\ ~Busy(sock)
        /\ Go(c, IF SameProtocol(ver[sock], cli[c].tools) THEN "term" ELSE "clear")
     \/ /\ sock # None /\ proc[sock] \in Listening
        /\ proc[sock] = "bound" \/ Busy(sock) \/ Connected(sock) # {}
        /\ Go(c, "identify")
     \/ /\ sock \notin {p \in Pids : proc[p] \in Listening}
        /\ Go(c, "clear")
  /\ UNCHANGED <<proc, ver, term, state, query, work, disk, tools, outside>>

(* The command line in /proc; what is not a daemon of this repository is left. *)
Identify(c) ==
  /\ cli[c].pc = "identify"
  /\ IF proc[cli[c].pid] \in Daemon THEN Go(c, "term") ELSE Say(c, "preserved")
  /\ UNCHANGED <<proc, ver, term, state, query, work, disk, tools, outside>>

Terminate(c) ==
  /\ cli[c].pc = "term"
  /\ LET d == cli[c].pid IN Go(c, IF IsAlive(d) THEN "poll" ELSE "clear") /\ Signalled(d)
  /\ UNCHANGED <<ver, state, disk, tools, outside>>

(* Mutant: a daemon that does not stop in time is left to stop later.          *)
Forgo(d) == UNCHANGED <<proc, term, query, work>>
Kill(d) == Die(d)

Poll(c) ==
  /\ cli[c].pc = "poll"
  /\ IF IsAlive(cli[c].pid) THEN Kill(cli[c].pid) ELSE UNCHANGED <<proc, term, query, work>>
  /\ Go(c, "clear")
  /\ UNCHANGED <<ver, state, disk, tools, outside>>

Clear(c) ==
  /\ cli[c].pc = "clear"
  /\ ClearState /\ Stopped(c)
  /\ UNCHANGED <<proc, ver, term, query, work, disk, tools, outside>>

Spawn(c) ==
  /\ cli[c].pc = "spawn"
  /\ \E d \in Unborn :
       /\ \A q \in Unborn : d <= q
       /\ proc' = [proc EXCEPT ![d] = "booting"]
       /\ ver' = [ver EXCEPT ![d] = tools]
       /\ cli' = [cli EXCEPT ![c] = [@ EXCEPT !.pc = "wait", !.pid = d]]
  /\ UNCHANGED <<term, state, query, work, disk, tools, outside>>

(* waitForDaemonReady looks for the two files, not for whose they are, and     *)
(* gives up after a time that a slow start exceeds.                             *)
Wait(c) ==
  /\ cli[c].pc = "wait"
  /\ \/ ~IsAlive(cli[c].pid) /\ Say(c, "failed")
     \/ IsAlive(cli[c].pid) /\ sock # None /\ meta # None /\ Say(c, "started")
     \/ IsAlive(cli[c].pid) /\ (sock = None \/ meta = None) /\ Say(c, "failed")
  /\ UNCHANGED <<proc, ver, term, state, query, work, disk, tools, outside>>

-----------------------------------------------------------------------------
(* The query CLI: through the daemon where one answers, one-shot otherwise    *)

Set(k, pc) == query' = [query EXCEPT ![k].pc = pc]
Deliver(k, answer) ==
  query' = [query EXCEPT ![k] = [@ EXCEPT !.pc = "done", !.at = None, !.answer = answer]]

(* checkDaemonReady.                                                           *)
Handshake == meta # None /\ SameProtocol(ver[meta], tools) /\ IsAlive(meta) /\ sock # None

Ask(k, kind) ==
  /\ query[k].pc = "idle"
  /\ query' = [query EXCEPT ![k] =
                 [NoQuery EXCEPT !.pc = IF Handshake THEN "connect" ELSE "oneshot",
                                 !.kind = kind, !.tools = tools, !.since = disk]]
  /\ UNCHANGED <<proc, ver, term, state, cli, work, disk, tools, outside>>

Connect(k) ==
  /\ query[k].pc = "connect"
  /\ IF sock # None /\ proc[sock] \in Listening
     THEN query' = [query EXCEPT ![k] = [@ EXCEPT !.pc = "sent", !.at = sock]]
     ELSE Set(k, "oneshot")
  /\ UNCHANGED <<proc, ver, term, state, cli, work, disk, tools, outside>>

(* Mutant: every lost answer is computed again.                                *)
GiveUpAlways(kind) == "oneshot"
(* A refs query is left to be retried rather than scanned a second time.       *)
GiveUp(kind) == IF kind = "refs" THEN "retry" ELSE "oneshot"

TimeOut(k) ==
  /\ query[k].pc = "sent"
  /\ query' = [query EXCEPT ![k] = [@ EXCEPT !.pc = GiveUp(query[k].kind), !.at = None]]
  /\ job' = [d \in Pids |-> IF job[d].client = k THEN [job[d] EXCEPT !.client = None] ELSE job[d]]
  /\ UNCHANGED <<proc, ver, term, state, cli, cache, disk, tools, outside>>

OneShot(k) ==
  /\ query[k].pc = "oneshot"
  /\ Deliver(k, disk)
  /\ UNCHANGED <<proc, ver, term, state, cli, work, disk, tools, outside>>

Done(k) ==
  /\ query[k].pc \in {"done", "retry"}
  /\ query' = [query EXCEPT ![k] = NoQuery]
  /\ UNCHANGED <<proc, ver, term, state, cli, work, disk, tools, outside>>

-----------------------------------------------------------------------------
(* One request after another, each synchronous; files are read one by one     *)

Entry(d) == cache[d][CacheOf(job[d].kind)]
Store(d, entry) == cache' = [cache EXCEPT ![d][CacheOf(job[d].kind)] = entry]
Scan(d, step, files, hash) ==
  [job[d] EXCEPT !.step = step, !.todo = files, !.read = [f \in Files |-> 0], !.hash = hash]
Reply(d) == [job[d] EXCEPT !.step = "answer", !.read = None, !.hash = None]

(* A request of another protocol version is declined.                          *)
Accept(d, k) ==
  /\ proc[d] \in {"ready", "closing"} /\ ~Busy(d) /\ k \in Connected(d)
  /\ IF SameProtocol(query[k].tools, ver[d])
     THEN /\ job' = [job EXCEPT ![d] = [client |-> k, kind |-> query[k].kind, step |-> "hash",
                                        todo |-> Inputs, read |-> [f \in Files |-> 0], hash |-> None]]
          /\ UNCHANGED query
     ELSE Disconnect({k}) /\ UNCHANGED job
  /\ UNCHANGED <<proc, ver, term, state, cli, cache, disk, tools, outside>>

Reading(d, f) ==
  [job[d] EXCEPT !.todo = job[d].todo \ {f}, !.read = [job[d].read EXCEPT ![f] = disk[f]]]

ReadFile(d, f) ==
  /\ job[d].step \in {"hash", "load", "reference"} /\ f \in job[d].todo
  /\ job' = [job EXCEPT ![d] = Reading(d, f)]
  /\ UNCHANGED <<proc, ver, term, state, cli, query, cache, disk, tools, outside>>

(* What the request still needs of an entry: the reference project is built    *)
(* when the first refs query asks for it.                                       *)
Complete(d, entry) ==
  IF job[d].kind = "refs" /\ entry.reference = None THEN Scan(d, "reference", Files, None) ELSE Reply(d)

(* The import graph has the discovered files only; the projects follow what    *)
(* these import, wherever it is.                                                 *)
Loads(kind) == IF kind = "graph" THEN Inputs ELSE Files

Hashed(d) ==
  /\ job[d].step = "hash" /\ job[d].todo = {}
  /\ LET manifest == Manifest(job[d].read) IN
       job' = [job EXCEPT ![d] = IF Entry(d).manifest = manifest THEN Complete(d, Entry(d))
                                 ELSE Scan(d, "load", Loads(job[d].kind), manifest)]
  /\ UNCHANGED <<proc, ver, term, state, cli, query, cache, disk, tools, outside>>

(* Mutant: the entry is labelled after it has been built.                      *)
LabelledLate(d) == [manifest |-> Manifest(disk), content |-> job[d].read, reference |-> None]
Rebuilt(d) == [manifest |-> job[d].hash, content |-> job[d].read, reference |-> None]

Loaded(d) ==
  /\ job[d].step = "load" /\ job[d].todo = {}
  /\ Store(d, Rebuilt(d))
  /\ job' = [job EXCEPT ![d] = Complete(d, Rebuilt(d))]
  /\ UNCHANGED <<proc, ver, term, state, cli, query, disk, tools, outside>>

Referenced(d) ==
  /\ job[d].step = "reference" /\ job[d].todo = {}
  /\ Store(d, [Entry(d) EXCEPT !.reference = job[d].read])
  /\ job' = [job EXCEPT ![d] = Reply(d)]
  /\ UNCHANGED <<proc, ver, term, state, cli, query, disk, tools, outside>>

Answer(d) ==
  /\ job[d].step = "answer"
  /\ IF job[d].client = None THEN UNCHANGED query
     ELSE Deliver(job[d].client, IF job[d].kind = "refs" THEN Entry(d).reference ELSE Entry(d).content)
  /\ job' = [job EXCEPT ![d] = NoJob]
  /\ UNCHANGED <<proc, ver, term, state, cli, cache, disk, tools, outside>>

Edit(f) ==
  /\ disk[f] < MaxEdits
  /\ disk' = [disk EXCEPT ![f] = @ + 1]
  /\ UNCHANGED <<proc, ver, term, state, cli, query, work, tools, outside>>

Upgrade ==
  /\ "upgrade" \in Events /\ tools < MaxTools
  /\ tools' = tools + 1
  /\ UNCHANGED <<proc, ver, term, state, cli, query, work, disk, outside>>

DaemonStep(d) ==
  \/ Prepare(d) \/ Bind(d) \/ Publish(d) \/ Close(d) \/ Exit(d)
  \/ Crash(d) \/ Interrupt(d) \/ Reuse(d)
ServerStep(c) ==
  \/ \E command \in {"stop", "restart"} : Begin(c, command)
  \/ ReadState(c) \/ Probe(c) \/ Identify(c) \/ Terminate(c) \/ Poll(c) \/ Clear(c)
  \/ Spawn(c) \/ Wait(c)
ClientStep(k) ==
  \/ \E kind \in Kinds : Ask(k, kind)
  \/ Connect(k) \/ TimeOut(k) \/ OneShot(k) \/ Done(k)
WorkStep(d) ==
  \/ \E k \in Clients : Accept(d, k)
  \/ \E f \in Files : ReadFile(d, f)
  \/ Hashed(d) \/ Loaded(d) \/ Referenced(d) \/ Answer(d)

Next ==
  \/ \E d \in Pids : DaemonStep(d) \/ WorkStep(d)
  \/ \E c \in Sessions : ServerStep(c)
  \/ \E k \in Clients : ClientStep(k)
  \/ \E f \in Files : Edit(f)
  \/ Upgrade

Spec == Init /\ [][Next]_vars

-----------------------------------------------------------------------------
(* Properties                                                                 *)

Maybe(S) == S \cup {None}

ProcessesOK ==
  /\ proc \in [Pids -> Daemon \cup {"unborn", "dead", "stranger"}]
  /\ ver \in [Pids -> 1..MaxTools]
  /\ term \subseteq {p \in Pids : proc[p] \in {"ready", "closing"}}
  /\ dir \in BOOLEAN
  /\ meta \in Maybe({p \in Pids : proc[p] # "unborn"})
  /\ sock \in Maybe({p \in Pids : proc[p] # "unborn"})

SessionsOK ==
  /\ cli \in [Sessions -> [pc : {"idle", "read", "probe", "identify", "term", "poll", "clear", "spawn", "wait"},
                           command : {"stop", "restart"}, pid : Maybe(Pids), tools : 1..MaxTools,
                           said : {"nothing", "stopped", "started", "failed", "preserved"}]]
  /\ \A c \in Sessions : cli[c].pc \in {"probe", "identify", "term", "poll", "wait"} => cli[c].pid # None

Queries ==
  [pc : {"idle", "connect", "sent", "oneshot", "done", "retry"},
   kind : AllKinds, at : Maybe(Pids), tools : 1..MaxTools,
   since : Maybe(Contents), answer : Maybe(Contents)]
ClientsOK == query \in [Clients -> Queries]

Jobs ==
  [client : Maybe(Clients), kind : AllKinds,
   step : {"idle", "hash", "load", "reference", "answer"},
   todo : SUBSET Files, read : Maybe(Contents), hash : Maybe(Manifests)]
Entries == [manifest : Maybe(Manifests), content : Maybe(Contents), reference : Maybe(Contents)]
WorkOK ==
  /\ job \in [Pids -> Jobs]
  /\ cache \in [Pids -> [{"graph", "project"} -> Entries]]

(* Every variable keeps its shape: in particular a socket and the metadata     *)
(* name a process that was spawned, a signal is pending only where a handler     *)
(* is installed, and a session past the reading of the state has a pid to work    *)
(* with (server-cli.ts:151-238).                                                    *)
TypeOK ==
  /\ ProcessesOK /\ SessionsOK /\ ClientsOK /\ WorkOK
  /\ disk \in Contents
  /\ tools \in 1..MaxTools
  /\ outside \subseteq Pids

(* No lifecycle command ends a process that is not a daemon of this            *)
(* repository, even when such a process has got the pid in the metadata         *)
(* (server-cli.ts:269-290, lifecycle-probe.ts:58-77).                             *)
SignalsDaemonsOnly ==
  [][\A p \in Pids : proc[p] = "stranger" => proc'[p] = "stranger"]_vars

(* The commands alone have stopped daemons.                                    *)
Undisturbed == outside = {}

(* Once the commands are over and nothing is starting, a live daemon that      *)
(* speaks the protocol in use, and has since it was started, can be found        *)
(* through the files, so that a stop reaches it; as long as no daemon was         *)
(* signalled from outside (server-cli.ts:151-179, daemon-server.ts:44-77).         *)
NoOrphan ==
  Undisturbed /\ (\A c \in Sessions : cli[c].pc = "idle") /\ (\A p \in Pids : proc[p] \notin Starting)
    => \A d \in Pids : proc[d] \in Daemon /\ ver[d] = tools => meta = d /\ sock = d

(* A daemon that shuts down removes the state directory without looking; when  *)
(* a command has stopped it, it does not remove what another daemon has put        *)
(* there, even with daemons of other protocols left running (daemon-server.ts:159-169). *)
ShutdownKeepsOthers ==
  [][\A d \in Pids :
       Undisturbed /\ proc[d] = "closing" /\ proc'[d] = "dead" /\ dir /\ ~dir'
         => {meta, sock} \subseteq {d, None}]_vars

(* "started (pid ...)" is said of a daemon that serves: the two files that     *)
(* waitForDaemonReady saw are those of the daemon that was spawned, as long as   *)
(* no daemon was signalled from outside (server-cli.ts:228-238,                   *)
(* daemon-process.ts:59-76).                                                       *)
StartedServes ==
  [][\A c \in Sessions : Undisturbed /\ cli[c].pc = "wait" /\ cli'[c].said = "started"
       => meta = cli[c].pid /\ sock = cli[c].pid /\ proc[cli[c].pid] = "ready"]_vars

RefsLeft(k) ==
  query[k].pc = "sent" /\ query[k].kind = "refs" /\ query'[k].pc = "oneshot"
    => proc'[query[k].at] # "ready" \/ ~SameProtocol(ver[query[k].at], query[k].tools)

(* A refs query falls back to a scan of its own only when no daemon of its     *)
(* protocol still works on it or has it in its queue (daemon-client.ts:78-89).     *)
RefsScannedOnce == [][\A k \in Clients : RefsLeft(k)]_vars

(* An answer is never older than its question in what the manifest hashes:     *)
(* an edit there before the query was given is in the content it is answered        *)
(* from, cached or not (graph-cache.ts:39-45, project-cache.ts:58-75).               *)
AnswersCurrent ==
  \A k \in Clients :
    query[k].pc = "done" => \A f \in Inputs : query[k].answer[f] >= query[k].since[f]
=============================================================================
