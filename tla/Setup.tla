-------------------------------- MODULE Setup --------------------------------
(***************************************************************************)
(* How servers come to run and clients to find them: crossbridge_up of     *)
(* nix/direnvrc.sh, run by every shell that enters a repository, and the   *)
(* start of crossbridge-server and crossbridge-client (their main.rs).     *)
(*                                                                         *)
(* Shells of one repository start one server between them: they take a     *)
(* lock named for the slug, look for a process whose command line names    *)
(* the repository's path, start one if there is none, and keep the lock    *)
(* until the process can be seen.  Waiting for the lock and for the        *)
(* process are bounded; what happens when a bound is hit is a lapse.       *)
(***************************************************************************)
EXTENDS Slug, FiniteSets

CONSTANTS
    Repos,      \* repositories, by canonical path; one crosslink group
    Extensions, \* for each, the repositories whose path its own is a prefix of
    Setups,     \* login, origin remotes and slug arguments to begin with
    NewOrigins, \* what an origin remote may be changed to
    NewArguments, \* what the argument in an .envrc may be changed to
    UnitRoots,  \* what the supervisor's unit may set as the socket root
    Shells, Servers,
    MaxLapses, MaxChanges,
    NoRepo

Configs == Configurations(STRING)

ASSUME ExtensionsAssumption == Extensions \in [Repos -> SUBSET Repos]
ASSUME SetupsAssumption ==
    /\ NoFlag \notin Seq(STRING)
    /\ \A setup \in Setups :
         /\ setup.login \in [socketRoot : Seq(STRING) \cup {NoFlag}, xdg : Seq(STRING) \cup {NoFlag}]
         /\ setup.origin \in [Repos -> Configs]
         /\ setup.argument \in [Repos -> Seq(STRING)]
    /\ NewOrigins \subseteq Configs /\ NewArguments \subseteq Seq(STRING)
    /\ UnitRoots \subseteq Seq(STRING)
ASSUME BoundsAssumption == MaxLapses \in Nat /\ MaxChanges \in Nat
ASSUME NoRepoAssumption == NoRepo \notin Repos
ASSUME LiteralsAssumption == {"run", "crossbridge", "register.socket"} \subseteq STRING

VARIABLES
    login,      \* the user's environment
    supervisor, \* the supervisor's: the user's, or the one that systemd sets
    origin,     \* each repository's origin remote, as jj and git print it
    argument,   \* the slug that its .envrc passes, if any
    changed,    \* how often remote or argument was changed
    pc, at,     \* how far each shell is, and in which repository
    own,        \* CROSSBRIDGE_OWN_SLUG in each shell
    holding,    \* the shells that hold a lock
    servers,    \* the server processes
    lapses,     \* starts that went on without the lock's protection
    gone        \* shells that have seen a server of their repository exit

vars == <<login, supervisor, origin, argument, changed, pc, at, own, holding,
          servers, lapses, gone>>
settings == <<login, supervisor, origin, argument, changed>>

(* A process: for which repository, with which --slug, started by hand?,   *)
(* has it executed the binary?, and the slug it then resolved.             *)
NoServer == [repo |-> NoRepo, flag |-> NoFlag, byHand |-> FALSE, seen |-> FALSE, slug |-> None]

NoOrigin == [jj |-> FALSE, jjUrl |-> None, gitUrl |-> None]

(* The unit of nix/module.nix sets the root, whatever the login has, and   *)
(* once it is set nothing else counts.                                     *)
UnitEnv(root) == [login EXCEPT !.socketRoot = root]

Init ==
    /\ \E setup \in Setups :
          login = setup.login /\ origin = setup.origin /\ argument = setup.argument
    /\ supervisor \in {login} \cup {UnitEnv(root) : root \in UnitRoots}
    /\ changed = [r \in Repos |-> 0]
    /\ pc = [s \in Shells |-> "out"]
    /\ at = [s \in Shells |-> NoRepo]
    /\ own = [s \in Shells |-> None]
    /\ holding = {}
    /\ servers = [i \in Servers |-> NoServer]
    /\ lapses = 0
    /\ gone = {}

-----------------------------------------------------------------------------
(* crossbridge_up *)

Goto(s, label) == pc' = [pc EXCEPT ![s] = label]

(* The function gives up, without an export, where there is no slug.       *)
EnterRepo(s, r) ==
    /\ pc[s] = "out"
    /\ ShellSlug(argument[r], origin[r]) # None
    /\ Goto(s, "waiting")
    /\ at' = [at EXCEPT ![s] = r]
    /\ own' = [own EXCEPT ![s] = ShellSlug(argument[r], origin[r])]
    /\ gone' = gone \ {s}
    /\ UNCHANGED <<settings, holding, servers, lapses>>

(* The lock is a file named for the slug and the group.  Mutant: no lock.  *)
NoLock(s) == TRUE
LockIsFree(s) == \A h \in holding : own[h] # own[s]
TakeLock(s) ==
    /\ pc[s] = "waiting" /\ LockIsFree(s)
    /\ Goto(s, "checking")
    /\ holding' = holding \cup {s}
    /\ UNCHANGED <<settings, at, own, servers, lapses, gone>>

(* 30 seconds have passed, or there is no flock. *)
ProceedUnlocked(s) ==
    /\ pc[s] = "waiting"
    /\ lapses < MaxLapses
    /\ lapses' = lapses + 1
    /\ Goto(s, "checking")
    /\ UNCHANGED <<settings, at, own, holding, servers, gone>>

(* pgrep sees a process once it has executed the binary, and finds the     *)
(* path as a substring; a server that was started by hand names no path.   *)
(* Mutant: any server will do. *)
AnyServer(r) == \E i \in Servers : servers[i].seen
HasServer(r) == \E i \in Servers : servers[i].repo = r
Running(r) ==
    \E i \in Servers :
        /\ servers[i].seen /\ ~servers[i].byHand
        /\ servers[i].repo \in {r} \cup Extensions[r]

(* Mutant: the lock's file stays open in the server. *)
LeakLock(s) == UNCHANGED holding
ReleaseLock(s) == holding' = holding \ {s}
Return(s) ==
    /\ Goto(s, "in")
    /\ ReleaseLock(s)
    /\ UNCHANGED <<settings, at, own, servers, gone>>

FindRunning(s) ==
    /\ pc[s] = "checking" /\ Running(at[s])
    /\ Return(s)
    /\ UNCHANGED lapses

FindNone(s) ==
    /\ pc[s] = "checking" /\ ~Running(at[s])
    /\ Goto(s, "starting")
    /\ UNCHANGED <<settings, at, own, holding, servers, lapses, gone>>

StartServer(s, i) ==
    /\ pc[s] = "starting" /\ servers[i].repo = NoRepo
    /\ servers' = [servers EXCEPT ![i] =
           [repo |-> at[s], flag |-> own[s], byHand |-> FALSE, seen |-> FALSE, slug |-> None]]
    /\ Goto(s, "polling")
    /\ UNCHANGED <<settings, at, own, holding, lapses, gone>>

ServerObserved(s) ==
    /\ pc[s] = "polling" /\ Running(at[s])
    /\ Return(s)
    /\ UNCHANGED lapses

(* Sixty looks have not found it: it has exited, or it is late, and then   *)
(* the next shell will not see it either.                                  *)
PollExpires(s) ==
    /\ pc[s] = "polling" /\ ~Running(at[s])
    /\ IF HasServer(at[s]) THEN lapses < MaxLapses /\ lapses' = lapses + 1
                           ELSE UNCHANGED lapses
    /\ Return(s)

LeaveRepo(s) ==
    /\ pc[s] = "in"
    /\ Goto(s, "out")
    /\ at' = [at EXCEPT ![s] = NoRepo]
    /\ own' = [own EXCEPT ![s] = None]
    /\ gone' = gone \ {s}
    /\ UNCHANGED <<settings, holding, servers, lapses>>

-----------------------------------------------------------------------------
(* Processes *)

(* The slug is resolved once, when the process starts. *)
ServerExecs(i) ==
    /\ servers[i].repo # NoRepo /\ ~servers[i].seen
    /\ LET p == servers[i] IN
       servers' = [servers EXCEPT
           ![i].seen = TRUE,
           ![i].slug = resolve_slug(p.flag, p.flag, origin[p.repo])]
    /\ UNCHANGED <<settings, pc, at, own, holding, lapses, gone>>

(* A user starts a server in the repository's directory, outside direnv.   *)
StartByHand(i, r) ==
    /\ servers[i].repo = NoRepo
    /\ resolve_slug(NoFlag, None, origin[r]) # None
    /\ servers' = [servers EXCEPT ![i] =
           [repo |-> r, flag |-> NoFlag, byHand |-> TRUE, seen |-> TRUE,
            slug |-> resolve_slug(NoFlag, None, origin[r])]]
    /\ UNCHANGED <<settings, pc, at, own, holding, lapses, gone>>

ServerExits(i) ==
    /\ servers[i].repo # NoRepo
    /\ servers' = [servers EXCEPT ![i] = NoServer]
    /\ gone' = gone \cup {s \in Shells : at[s] = servers[i].repo}
    /\ UNCHANGED <<settings, pc, at, own, holding, lapses>>

ChangeOrigin(r) ==
    /\ changed[r] < MaxChanges
    /\ changed' = [changed EXCEPT ![r] = @ + 1]
    /\ \E o \in NewOrigins : origin' = [origin EXCEPT ![r] = o]
    /\ UNCHANGED <<login, supervisor, argument, pc, at, own, holding, servers, lapses, gone>>

(* The .envrc passes another slug, or none: a server that runs keeps its.  *)
ChangeArgument(r) ==
    /\ changed[r] < MaxChanges
    /\ changed' = [changed EXCEPT ![r] = @ + 1]
    /\ \E a \in NewArguments : argument' = [argument EXCEPT ![r] = a]
    /\ UNCHANGED <<login, supervisor, origin, pc, at, own, holding, servers, lapses, gone>>

-----------------------------------------------------------------------------
Next ==
    \/ \E s \in Shells :
          \/ \E r \in Repos : EnterRepo(s, r)
          \/ TakeLock(s) \/ ProceedUnlocked(s) \/ FindRunning(s) \/ FindNone(s)
          \/ \E i \in Servers : StartServer(s, i)
          \/ ServerObserved(s) \/ PollExpires(s) \/ LeaveRepo(s)
    \/ \E i \in Servers :
          \/ ServerExecs(i) \/ ServerExits(i)
          \/ \E r \in Repos : StartByHand(i, r)
    \/ \E r \in Repos : ChangeOrigin(r) \/ ChangeArgument(r)

Spec == Init /\ [][Next]_vars

-----------------------------------------------------------------------------
(* Properties *)

Process == {i \in Servers : servers[i].repo # NoRepo}
StartedFor(r) == {i \in Process : servers[i].repo = r /\ ~servers[i].byHand}

(* Types, and: no two shells hold the same lock, and only those that are   *)
(* about to look for a server or start one.                                *)
TypeOK ==
    /\ origin \in [Repos -> Configs]
    /\ changed \in [Repos -> 0..MaxChanges]
    /\ pc \in [Shells -> {"out", "waiting", "checking", "starting", "polling", "in"}]
    /\ at \in [Shells -> Repos \cup {NoRepo}]
    /\ own \in [Shells -> Seq(STRING)]
    /\ holding \subseteq {s \in Shells : pc[s] \in {"checking", "starting", "polling"}}
    /\ \A s, h \in holding : own[s] = own[h] => s = h
    /\ \A i \in Process : servers[i].repo \in Repos
    /\ lapses \in 0..MaxLapses
    /\ gone \subseteq Shells

(* As long as remote and argument, and so the name of the lock, are not    *)
(* changed, the shells start at most one server for a repository, and one  *)
(* more for each start without the lock's protection (direnvrc.sh:102-105).*)
(* Of a repository whose path begins another's, a shell may take the       *)
(* other's server for its own.                                             *)
OneServerPerRepo ==
    \A r \in Repos : Extensions[r] = {} /\ changed[r] = 0 =>
        Cardinality(StartedFor(r)) <= 1 + lapses

(* A shell that has entered a repository has a server there, or one of     *)
(* them has exited since.                                                  *)
EnteredIsServed ==
    \A s \in Shells :
        pc[s] = "in" /\ s \notin gone /\ Extensions[at[s]] = {} => HasServer(at[s])

Registered == {i \in Process : servers[i].seen /\ servers[i].slug # None}
RootOf(env) == resolve_runtime_root(NoFlag, env)

(* What module.nix:30-32 asks of the user: servers and clients use the     *)
(* root of the supervisor.  They set the same, or it is the default.       *)
SharesRoot ==
    \/ supervisor = login
    \/ login.socketRoot = supervisor.socketRoot
    \/ /\ login.socketRoot = NoFlag /\ login.xdg # NoFlag
       /\ supervisor.socketRoot = Append(login.xdg, "crossbridge")

(* A client that takes itself for that slug finds, as the socket of every  *)
(* other server, the one that server makes for the peer i; and, given a    *)
(* shared root, they have the supervisor's register socket and its         *)
(* directories.                                                            *)
Meet(i, slug) ==
    LET peer == servers[i].slug IN
    /\ socket_dir(login, slug) = peer_dir(RootOf(login), peer)
    /\ \A j \in Registered :
         target_socket(login, slug, servers[j].slug)
           = listener_socket(RootOf(login), peer, servers[j].slug)
    /\ SharesRoot =>
         /\ register_socket(RootOf(login)) = resolve_register_socket(NoFlag, supervisor)
         /\ peer_dir(RootOf(login), peer) = slug_dir(NoFlag, supervisor, peer)

(* What a client takes for its slug in a shell. *)
SlugIn(s) == resolve_own_slug(NoFlag, own[s], origin[at[s]])

(* A client that is run in a shell looks where the peers of its server put *)
(* their sockets, whichever shell has started the server and whatever the  *)
(* remote's URL, as long as remote and argument are not changed            *)
(* (direnvrc.sh:9-12).                                                     *)
PinnedClientFindsServer ==
    \A i \in Registered, s \in Shells :
        /\ ~servers[i].byHand
        /\ pc[s] = "in" /\ at[s] = servers[i].repo /\ changed[at[s]] = 0
        => Meet(i, SlugIn(s))

(* Server, client and shell derive a slug from a plain URL in three ways   *)
(* and agree on it: a client that is run outside direnv finds every server *)
(* of a repository whose .envrc passes no slug, however it was started, as *)
(* long as the remote is not changed (crossbridge-client/src/slug.rs:4-5). *)
DerivedClientFindsServer ==
    \A i \in Registered :
        LET r == servers[i].repo IN
        argument[r] = None /\ changed[r] = 0 /\ HasPlainOrigin(origin[r])
        => Meet(i, resolve_own_slug(NoFlag, None, origin[r]))
=============================================================================
