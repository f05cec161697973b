---------------------------- MODULE Setup_proofs ----------------------------
(***************************************************************************)
(* Setup, for any repositories, URLs, arguments, environments, shells and  *)
(* servers: the shells of a repository start one server between them, who  *)
(* enters it finds a server there, and clients look for sockets where the  *)
(* servers' supervisor puts them.                                          *)
(***************************************************************************)
EXTENDS Setup, Slug_proofs, FiniteSetTheorems

-----------------------------------------------------------------------------
(* The inductive invariant *)

ServerRecords ==
    [repo : Repos \cup {NoRepo}, flag : Seq(STRING) \cup {NoFlag}, byHand : BOOLEAN,
     seen : BOOLEAN, slug : Seq(STRING)]

Types ==
    /\ argument \in [Repos -> Seq(STRING)]
    /\ servers \in [Servers -> ServerRecords]

(* A root that is shared is one root, whoever resolves it. *)
SameRoot ==
    /\ default_socket_root(login) \in Seq(STRING)
    /\ SharesRoot => default_socket_root(supervisor) = default_socket_root(login)

InRepo == \A s \in Shells : pc[s] # "out" => at[s] \in Repos

(* What a shell exports is what any other shell of the repository exports, *)
(* until remote or argument is changed ...                                 *)
ShellsPinned ==
    \A s \in Shells :
        at[s] \in Repos /\ changed[at[s]] = 0 =>
            own[s] = ShellSlug(argument[at[s]], origin[at[s]])

(* ... and so is what a server is started with, and holds on to.           *)
StartedPinned ==
    \A i \in Servers :
        servers[i].repo \in Repos /\ ~servers[i].byHand =>
            /\ servers[i].flag \in Seq(STRING)
            /\ changed[servers[i].repo] = 0 =>
                 servers[i].flag = ShellSlug(argument[servers[i].repo], origin[servers[i].repo])
            /\ servers[i].seen => servers[i].slug = Trim(servers[i].flag)

ByHandPinned ==
    \A i \in Servers :
        servers[i].repo \in Repos /\ servers[i].byHand =>
            /\ servers[i].seen
            /\ changed[servers[i].repo] = 0 =>
                 servers[i].slug = derive_from_repo(origin[servers[i].repo])

(* A shell that waits for its server to be seen has one, too.              *)
Served ==
    \A s \in Shells :
        /\ pc[s] = "polling" \/ (pc[s] = "in" /\ Extensions[at[s]] = {})
        /\ s \notin gone
        => HasServer(at[s])

IInv ==
    /\ TypeOK /\ Types /\ SameRoot /\ InRepo
    /\ ShellsPinned /\ StartedPinned /\ ByHandPinned /\ Served

-----------------------------------------------------------------------------
(* Operators *)

(* The server's slug is a string. *)
LEMMA ServerSlugType ==
    ASSUME NEW cfg \in Configs
    PROVE  derive_from_repo(cfg) \in Seq(STRING)
<1> DEFINE url == ServerOriginUrl(cfg)
<1>1. cfg.jjUrl \in Seq(STRING) /\ cfg.gitUrl \in Seq(STRING)
  BY DEF Configs, Configurations
<1>2. url \in Seq(STRING)
  <2>1. CASE cfg.jj
    BY <1>1, <2>1, TrimType DEF ServerOriginUrl
  <2>2. CASE ~cfg.jj
    BY <1>1, <2>2, TrimType DEF ServerOriginUrl
  <2>. QED  BY <2>1, <2>2
<1> HIDE DEF url
<1>3. PathPart(url) \in Seq(STRING)
  BY <1>2, PathPartType
<1>4. TrimEnd(PathPart(url), "/") \in Seq(STRING)
  BY <1>3, TrimEndFacts
<1>5. LastSegment(TrimEnd(PathPart(url), "/"), {"/"}) \in Seq(STRING)
  BY <1>4, LastSegmentType
<1>6. StripGit(Trim(LastSegment(TrimEnd(PathPart(url), "/"), {"/"}))) \in Seq(STRING)
  BY <1>5, TrimType, StripGitType
<1>7. parse_slug(url) \in Seq(STRING)
  BY <1>6, EmptySeq DEF parse_slug, None
<1>. QED  BY <1>7 DEF derive_from_repo, url

LEMMA TrimNone == Trim(None) = None
<1>1. <<>> \in Seq(STRING) /\ Len(<<>>) = 0
  BY EmptySeq
<1>2. \A k \in 1..Len(<<>>) : <<>>[k] # Blank
  BY <1>1
<1>. QED  BY <1>1, <1>2, TrimWithoutBlank DEF None

(* A server that is started by hand takes the slug of the origin remote,   *)
(* one that a shell starts the shell's.                                    *)
LEMMA Resolved ==
    ASSUME NEW cfg
    PROVE  /\ resolve_slug(NoFlag, None, cfg) = derive_from_repo(cfg)
           /\ resolve_own_slug(NoFlag, None, cfg) = derive_own_slug(cfg)
           /\ \A flag \in Seq(STRING) : resolve_slug(flag, flag, cfg) = Trim(flag)
<1>1. NoFlag \notin Seq(STRING)
  BY SetupsAssumption
<1>. QED
  BY <1>1, TrimNone DEF resolve_slug, resolve_own_slug, FlagOrEnv, own_slug_from_env

-----------------------------------------------------------------------------
(* The initial states *)

LEMMA InitInvariant == Init => IInv
<1> SUFFICES ASSUME Init PROVE IInv
  OBVIOUS
<1> USE DEF Init
<1>1. PICK setup \in Setups :
        login = setup.login /\ origin = setup.origin /\ argument = setup.argument
  OBVIOUS
<1>2. /\ login \in [socketRoot : Seq(STRING) \cup {NoFlag}, xdg : Seq(STRING) \cup {NoFlag}]
      /\ origin \in [Repos -> Configs]
      /\ argument \in [Repos -> Seq(STRING)]
  BY <1>1, SetupsAssumption
<1>3. None \in Seq(STRING)
  BY EmptySeq DEF None
<1>4. \A i \in Servers : servers[i].repo = NoRepo
  BY DEF NoServer
<1>5. TypeOK
  BY <1>2, <1>3, <1>4, BoundsAssumption, NoRepoAssumption DEF TypeOK, Process
<1>6. Types
  BY <1>2, <1>3 DEF Types, NoServer, ServerRecords
<1>7. SameRoot
  <2>1. default_socket_root(login) \in Seq(STRING)
    <3>1. CASE login.socketRoot # NoFlag
      BY <1>2, <3>1 DEF default_socket_root
    <3>2. CASE login.socketRoot = NoFlag /\ login.xdg # NoFlag
      <4>1. login.xdg \in Seq(STRING) /\ "crossbridge" \in STRING
        BY <1>2, <3>2, LiteralsAssumption
      <4>2. Append(login.xdg, "crossbridge") \in Seq(STRING)
        BY <4>1, AppendProperties
      <4>. QED  BY <3>2, <4>2 DEF default_socket_root
    <3>3. CASE login.socketRoot = NoFlag /\ login.xdg = NoFlag
      <4>1. \A a, b \in STRING : <<a, b>> \in Seq(STRING)
        OBVIOUS
      <4>2. <<"run", "crossbridge">> \in Seq(STRING)
        BY <4>1, LiteralsAssumption
      <4>. QED  BY <3>3, <4>2 DEF default_socket_root
    <3>. QED  BY <3>1, <3>2, <3>3
  <2>2. CASE supervisor = login
    BY <2>1, <2>2 DEF SameRoot
  <2>3. ASSUME NEW root \in UnitRoots, supervisor = UnitEnv(root) PROVE SameRoot
    <3>1. supervisor.socketRoot = root /\ supervisor.xdg = login.xdg
      BY <1>2, <2>3 DEF UnitEnv
    <3>2. root # NoFlag
      BY SetupsAssumption
    <3>3. default_socket_root(supervisor) = root
      BY <3>1, <3>2 DEF default_socket_root
    <3>4. login.socketRoot = root => default_socket_root(login) = root
      BY <3>2 DEF default_socket_root
    <3>5. login.socketRoot = NoFlag /\ login.xdg # NoFlag
            => default_socket_root(login) = Append(login.xdg, "crossbridge")
      BY DEF default_socket_root
    <3>. QED  BY <2>1, <3>1, <3>3, <3>4, <3>5 DEF SameRoot, SharesRoot
  <2>. QED  BY <2>2, <2>3
<1>8. InRepo /\ ShellsPinned /\ Served
  BY NoRepoAssumption DEF InRepo, ShellsPinned, Served
<1>9. StartedPinned /\ ByHandPinned
  BY <1>4, NoRepoAssumption DEF StartedPinned, ByHandPinned
<1>. QED  BY <1>5, <1>6, <1>7, <1>8, <1>9 DEF IInv

-----------------------------------------------------------------------------
(* The steps *)

(* A shell waits, looks, or stops waiting or looking. *)
LookingStep(s) ==
    \/ TakeLock(s) \/ ProceedUnlocked(s) \/ FindRunning(s) \/ FindNone(s)
    \/ ServerObserved(s) \/ PollExpires(s)

LEMMA LookingFrame ==
    ASSUME NEW s \in Shells, LookingStep(s)
    PROVE  /\ UNCHANGED <<settings, at, own, servers, gone>>
           /\ pc[s] # "out"
           /\ \E label \in {"checking", "starting", "in"} : pc' = [pc EXCEPT ![s] = label]
  BY DEF LookingStep, TakeLock, ProceedUnlocked, FindRunning, FindNone, ServerObserved,
         PollExpires, Return, Goto

(* Remote or argument change. *)
Change(r) == ChangeOrigin(r) \/ ChangeArgument(r)

LEMMA NextCases ==
    ASSUME [Next]_vars
    PROVE  \/ \E s \in Shells : LookingStep(s)
           \/ \E s \in Shells, r \in Repos : EnterRepo(s, r)
           \/ \E s \in Shells, i \in Servers : StartServer(s, i)
           \/ \E s \in Shells : LeaveRepo(s)
           \/ \E i \in Servers : ServerExecs(i)
           \/ \E i \in Servers : ServerExits(i)
           \/ \E i \in Servers, r \in Repos : StartByHand(i, r)
           \/ \E r \in Repos : Change(r)
           \/ UNCHANGED vars
  BY DEF Next, LookingStep, Change

(* The servers' records, and the settings, keep their types.               *)
LEMMA TypesStep == IInv /\ [Next]_vars => Types' /\ SameRoot'
<1> SUFFICES ASSUME IInv, [Next]_vars PROVE Types' /\ SameRoot'
  OBVIOUS
<1> USE DEF IInv, Types
<1>0. UNCHANGED <<login, supervisor>> /\ (UNCHANGED argument \/ \E r \in Repos : ChangeArgument(r))
  BY DEF Next, EnterRepo, TakeLock, ProceedUnlocked, FindRunning, FindNone, StartServer,
         ServerObserved, PollExpires, LeaveRepo, ServerExecs, ServerExits, StartByHand,
         ChangeOrigin, ChangeArgument, Return, settings, vars
<1>1. SameRoot'
  BY <1>0 DEF SameRoot, SharesRoot, default_socket_root
<1>2. argument' \in [Repos -> Seq(STRING)]
  <2>1. NewArguments \subseteq Seq(STRING)
    BY SetupsAssumption
  <2>. QED  BY <1>0, <2>1 DEF ChangeArgument
<1>3. servers' \in [Servers -> ServerRecords]
  <2>1. CASE UNCHANGED servers
    BY <2>1
  <2>2. ASSUME NEW s \in Shells, NEW i \in Servers, StartServer(s, i) PROVE servers' \in [Servers -> ServerRecords]
    <3>1. at[s] \in Repos \cup {NoRepo} /\ own[s] \in Seq(STRING) /\ None \in Seq(STRING)
      BY EmptySeq DEF TypeOK, None
    <3>2. [repo |-> at[s], flag |-> own[s], byHand |-> FALSE, seen |-> FALSE, slug |-> None]
            \in ServerRecords
      BY <3>1 DEF ServerRecords
    <3>. QED  BY <2>2, <3>2 DEF StartServer
  <2>3. ASSUME NEW i \in Servers, ServerExecs(i) PROVE servers' \in [Servers -> ServerRecords]
    <3> DEFINE p == servers[i]
               slug == resolve_slug(p.flag, p.flag, origin[p.repo])
    <3>1. p \in ServerRecords /\ p.repo \in Repos /\ ~p.byHand /\ p.flag \in Seq(STRING)
      BY <2>3 DEF ServerExecs, ServerRecords, StartedPinned, ByHandPinned
    <3>2. slug \in Seq(STRING)
      BY <3>1, Resolved, TrimType
    <3>3. servers' = [servers EXCEPT ![i] = [[p EXCEPT !.seen = TRUE] EXCEPT !.slug = slug]]
      BY <2>3 DEF ServerExecs
    <3>4. [[p EXCEPT !.seen = TRUE] EXCEPT !.slug = slug] \in ServerRecords
      <4> HIDE DEF p, slug
      <4>. QED  BY <3>1, <3>2 DEF ServerRecords
    <3>. QED  BY <3>3, <3>4
  <2>4. ASSUME NEW i \in Servers, ServerExits(i) PROVE servers' \in [Servers -> ServerRecords]
    <3>1. NoServer \in ServerRecords
      BY EmptySeq DEF NoServer, ServerRecords, None
    <3>. QED  BY <2>4, <3>1 DEF ServerExits
  <2>5. ASSUME NEW i \in Servers, NEW r \in Repos, StartByHand(i, r) PROVE servers' \in [Servers -> ServerRecords]
    <3>1. derive_from_repo(origin[r]) \in Seq(STRING)
      BY ServerSlugType DEF TypeOK
    <3>2. resolve_slug(NoFlag, None, origin[r]) \in Seq(STRING)
      BY <3>1, Resolved
    <3>3. [repo |-> r, flag |-> NoFlag, byHand |-> TRUE, seen |-> TRUE,
           slug |-> resolve_slug(NoFlag, None, origin[r])] \in ServerRecords
      BY <3>2 DEF ServerRecords
    <3>. QED  BY <2>5, <3>3 DEF StartByHand
  <2>6. ASSUME NEW s \in Shells, LookingStep(s) PROVE servers' \in [Servers -> ServerRecords]
    BY <2>6, LookingFrame
  <2>. QED
    BY <2>1, <2>2, <2>3, <2>4, <2>5, <2>6, NextCases
       DEF EnterRepo, LeaveRepo, Change, ChangeOrigin, ChangeArgument, vars
<1>. QED  BY <1>1, <1>2, <1>3

(* The lock, and the remaining types. *)
LEMMA TypeOKStep == IInv /\ [Next]_vars => TypeOK'
<1> SUFFICES ASSUME IInv, [Next]_vars PROVE TypeOK'
  OBVIOUS
<1> USE DEF IInv
<1>0. \A i \in Servers : servers'[i].repo \in Repos \cup {NoRepo}
  <2>1. Types'
    BY TypesStep
  <2>. QED  BY <2>1 DEF Types, ServerRecords
<1>1. (\A i \in Process : servers[i].repo \in Repos)'
  BY <1>0 DEF Process
<1>2. ASSUME UNCHANGED <<settings, at, own, gone>>, lapses' \in 0..MaxLapses,
             pc' \in [Shells -> {"out", "waiting", "checking", "starting", "polling", "in"}],
             holding' \subseteq {s \in Shells : pc'[s] \in {"checking", "starting", "polling"}},
             \A s, h \in holding' : own[s] = own[h] => s = h
      PROVE  TypeOK'
  BY <1>1, <1>2 DEF TypeOK, settings
<1>3. ASSUME NEW s \in Shells, LookingStep(s) PROVE TypeOK'
  <2> USE DEF TypeOK
  <2>1. CASE TakeLock(s)
    BY <1>2, <2>1 DEF TakeLock, LockIsFree, Goto
  <2>2. CASE ProceedUnlocked(s)
    BY <1>2, <2>2, BoundsAssumption DEF ProceedUnlocked, Goto
  <2>3. CASE FindNone(s)
    BY <1>2, <2>3 DEF FindNone, Goto
  <2>4. CASE FindRunning(s)
    BY <1>2, <2>4 DEF FindRunning, Return, ReleaseLock, Goto
  <2>5. CASE ServerObserved(s)
    BY <1>2, <2>5 DEF ServerObserved, Return, ReleaseLock, Goto
  <2>6. CASE PollExpires(s)
    <3>1. lapses' \in 0..MaxLapses
      BY <2>6, BoundsAssumption DEF PollExpires
    <3>. QED  BY <1>2, <2>6, <3>1 DEF PollExpires, Return, ReleaseLock, Goto
  <2>. QED  BY <1>3, <2>1, <2>2, <2>3, <2>4, <2>5, <2>6 DEF LookingStep
<1>4. ASSUME NEW s \in Shells, NEW r \in Repos, EnterRepo(s, r) PROVE TypeOK'
  <2>1. ShellSlug(argument[r], origin[r]) \in Seq(STRING)
    BY ShellSlugType DEF TypeOK, Types, Configs
  <2>2. s \notin holding
    BY <1>4 DEF EnterRepo, TypeOK
  <2>3. /\ origin' \in [Repos -> Configs] /\ changed' \in [Repos -> 0..MaxChanges]
        /\ lapses' \in 0..MaxLapses /\ gone' \subseteq Shells
        /\ pc' \in [Shells -> {"out", "waiting", "checking", "starting", "polling", "in"}]
        /\ at' \in [Shells -> Repos \cup {NoRepo}]
    BY <1>4 DEF EnterRepo, TypeOK, Goto, settings
  <2>4. own' \in [Shells -> Seq(STRING)]
    BY <1>4, <2>1 DEF EnterRepo, TypeOK
  <2>5. /\ holding' \subseteq {h \in Shells : pc'[h] \in {"checking", "starting", "polling"}}
        /\ \A g, h \in holding' : own'[g] = own'[h] => g = h
    BY <1>4, <2>2 DEF EnterRepo, TypeOK, Goto
  <2>. QED  BY <1>1, <2>3, <2>4, <2>5 DEF TypeOK
<1>5. ASSUME NEW s \in Shells, LeaveRepo(s) PROVE TypeOK'
  <2>1. None \in Seq(STRING)
    BY EmptySeq DEF None
  <2>2. s \notin holding
    BY <1>5 DEF LeaveRepo, TypeOK
  <2>3. /\ origin' \in [Repos -> Configs] /\ changed' \in [Repos -> 0..MaxChanges]
        /\ lapses' \in 0..MaxLapses /\ gone' \subseteq Shells
        /\ pc' \in [Shells -> {"out", "waiting", "checking", "starting", "polling", "in"}]
        /\ at' \in [Shells -> Repos \cup {NoRepo}]
    BY <1>5 DEF LeaveRepo, TypeOK, Goto, settings
  <2>4. own' \in [Shells -> Seq(STRING)]
    BY <1>5, <2>1 DEF LeaveRepo, TypeOK
  <2>5. /\ holding' \subseteq {h \in Shells : pc'[h] \in {"checking", "starting", "polling"}}
        /\ \A g, h \in holding' : own'[g] = own'[h] => g = h
    BY <1>5, <2>2 DEF LeaveRepo, TypeOK, Goto
  <2>. QED  BY <1>1, <2>3, <2>4, <2>5 DEF TypeOK
<1>6. ASSUME NEW s \in Shells, NEW i \in Servers, StartServer(s, i) PROVE TypeOK'
  BY <1>2, <1>6 DEF StartServer, TypeOK, Goto
<1>7. ASSUME NEW i \in Servers, ServerExecs(i) PROVE TypeOK'
  BY <1>2, <1>7 DEF ServerExecs, TypeOK
<1>8. ASSUME NEW i \in Servers, ServerExits(i) PROVE TypeOK'
  BY <1>1, <1>8 DEF ServerExits, TypeOK, settings
<1>9. ASSUME NEW i \in Servers, NEW r \in Repos, StartByHand(i, r) PROVE TypeOK'
  BY <1>2, <1>9 DEF StartByHand, TypeOK
<1>10. ASSUME NEW r \in Repos, Change(r) PROVE TypeOK'
  <2>1. changed' \in [Repos -> 0..MaxChanges]
    BY <1>10, BoundsAssumption DEF Change, ChangeOrigin, ChangeArgument, TypeOK
  <2>2. origin' \in [Repos -> Configs]
    BY <1>10, SetupsAssumption DEF Change, ChangeOrigin, ChangeArgument, TypeOK
  <2>. QED  BY <1>1, <1>10, <2>1, <2>2 DEF Change, ChangeOrigin, ChangeArgument, TypeOK
<1>11. CASE UNCHANGED vars
  BY <1>2, <1>11 DEF TypeOK, settings, vars
<1>. QED  BY <1>3, <1>4, <1>5, <1>6, <1>7, <1>8, <1>9, <1>10, <1>11, NextCases

(* A change ends what is known of the repository. *)
LEMMA ChangeFacts ==
    ASSUME IInv, NEW r \in Repos, Change(r)
    PROVE  /\ changed'[r] # 0
           /\ \A q \in Repos \ {r} :
                 changed'[q] = changed[q] /\ origin'[q] = origin[q] /\ argument'[q] = argument[q]
           /\ UNCHANGED <<login, supervisor, pc, at, own, holding, servers, lapses, gone>>
  BY DEF Change, ChangeOrigin, ChangeArgument, IInv, TypeOK, Types

LEMMA ShellsStep == IInv /\ [Next]_vars => InRepo' /\ ShellsPinned'
<1> SUFFICES ASSUME IInv, [Next]_vars PROVE InRepo' /\ ShellsPinned'
  OBVIOUS
<1> USE DEF IInv
<1>0. /\ pc \in [Shells -> {"out", "waiting", "checking", "starting", "polling", "in"}]
      /\ at \in [Shells -> Repos \cup {NoRepo}] /\ own \in [Shells -> Seq(STRING)]
  BY DEF TypeOK
<1>1. CASE UNCHANGED <<pc, settings, at, own>>
  BY <1>1 DEF InRepo, ShellsPinned, settings
<1>2. ASSUME NEW s \in Shells, LookingStep(s) PROVE InRepo' /\ ShellsPinned'
  <2>1. UNCHANGED <<settings, at, own>> /\ pc[s] # "out"
        /\ \A t \in Shells \ {s} : pc'[t] = pc[t]
    BY <1>0, <1>2, LookingFrame
  <2>. QED  BY <2>1 DEF InRepo, ShellsPinned, settings
<1>3. ASSUME NEW s \in Shells, NEW r \in Repos, EnterRepo(s, r) PROVE InRepo' /\ ShellsPinned'
  <2>1. /\ at'[s] = r /\ own'[s] = ShellSlug(argument[r], origin[r])
        /\ \A t \in Shells \ {s} : pc'[t] = pc[t] /\ at'[t] = at[t] /\ own'[t] = own[t]
        /\ UNCHANGED <<argument, origin, changed>>
    BY <1>0, <1>3 DEF EnterRepo, Goto, settings
  <2>. QED  BY <2>1 DEF InRepo, ShellsPinned
<1>4. ASSUME NEW s \in Shells, NEW i \in Servers, StartServer(s, i)
      PROVE  InRepo' /\ ShellsPinned'
  <2>1. UNCHANGED <<settings, at, own>> /\ pc[s] # "out"
        /\ \A t \in Shells \ {s} : pc'[t] = pc[t]
    BY <1>0, <1>4 DEF StartServer, Goto
  <2>. QED  BY <2>1 DEF InRepo, ShellsPinned, settings
<1>5. ASSUME NEW s \in Shells, LeaveRepo(s) PROVE InRepo' /\ ShellsPinned'
  <2>1. /\ pc'[s] = "out" /\ at'[s] = NoRepo
        /\ \A t \in Shells \ {s} : pc'[t] = pc[t] /\ at'[t] = at[t] /\ own'[t] = own[t]
        /\ UNCHANGED <<argument, origin, changed>>
    BY <1>0, <1>5 DEF LeaveRepo, Goto, settings
  <2>. QED  BY <2>1, NoRepoAssumption DEF InRepo, ShellsPinned
<1>6. ASSUME NEW i \in Servers,
             ServerExecs(i) \/ ServerExits(i) \/ \E r \in Repos : StartByHand(i, r)
      PROVE  InRepo' /\ ShellsPinned'
  BY <1>1, <1>6 DEF ServerExecs, ServerExits, StartByHand
<1>7. ASSUME NEW r \in Repos, Change(r) PROVE InRepo' /\ ShellsPinned'
  BY <1>7, ChangeFacts DEF InRepo, ShellsPinned
<1>8. CASE UNCHANGED vars
  BY <1>1, <1>8 DEF vars, settings
<1>. QED  BY <1>2, <1>3, <1>4, <1>5, <1>6, <1>7, <1>8, NextCases

LEMMA ServersStep == IInv /\ [Next]_vars => StartedPinned' /\ ByHandPinned'
<1> SUFFICES ASSUME IInv, [Next]_vars PROVE StartedPinned' /\ ByHandPinned'
  OBVIOUS
<1> USE DEF IInv
<1>0. servers \in [Servers -> ServerRecords]
  BY DEF Types
<1>1. CASE UNCHANGED <<settings, servers>>
  BY <1>1 DEF StartedPinned, ByHandPinned, settings
<1>2. ASSUME NEW s \in Shells, LookingStep(s) PROVE StartedPinned' /\ ByHandPinned'
  BY <1>1, <1>2, LookingFrame
<1>3. ASSUME NEW s \in Shells, LeaveRepo(s) \/ \E r \in Repos : EnterRepo(s, r)
      PROVE  StartedPinned' /\ ByHandPinned'
  BY <1>1, <1>3 DEF LeaveRepo, EnterRepo
<1>4. ASSUME NEW s \in Shells, NEW i \in Servers, StartServer(s, i)
      PROVE  StartedPinned' /\ ByHandPinned'
  <2>1. /\ UNCHANGED <<argument, origin, changed>>
        /\ \A j \in Servers \ {i} : servers'[j] = servers[j]
        /\ servers'[i].repo = at[s] /\ servers'[i].flag = own[s]
        /\ ~servers'[i].byHand /\ ~servers'[i].seen
    BY <1>0, <1>4 DEF StartServer, settings
  <2>2. own[s] \in Seq(STRING)
    BY DEF TypeOK
  <2>. QED  BY <2>1, <2>2 DEF StartedPinned, ByHandPinned, ShellsPinned
<1>5. ASSUME NEW i \in Servers, ServerExecs(i) PROVE StartedPinned' /\ ByHandPinned'
  <2> DEFINE p == servers[i]
  <2>1. p \in ServerRecords /\ p.repo \in Repos /\ ~p.byHand /\ p.flag \in Seq(STRING)
    BY <1>0, <1>5 DEF ServerExecs, ServerRecords, StartedPinned, ByHandPinned
  <2>2. resolve_slug(p.flag, p.flag, origin[p.repo]) = Trim(p.flag)
    BY <2>1, Resolved
  <2>3. /\ UNCHANGED <<argument, origin, changed>>
        /\ \A j \in Servers \ {i} : servers'[j] = servers[j]
        /\ servers'[i] = [[p EXCEPT !.seen = TRUE] EXCEPT !.slug = Trim(p.flag)]
    BY <1>0, <1>5, <2>2 DEF ServerExecs, settings
  <2>4. /\ servers'[i].repo = p.repo /\ servers'[i].flag = p.flag
        /\ ~servers'[i].byHand /\ servers'[i].slug = Trim(p.flag)
    <3> HIDE DEF p
    <3>. QED  BY <2>1, <2>3 DEF ServerRecords
  <2>5. /\ p.flag \in Seq(STRING)
        /\ changed[p.repo] = 0 => p.flag = ShellSlug(argument[p.repo], origin[p.repo])
    BY <2>1 DEF StartedPinned
  <2>6. ByHandPinned'
    BY <2>3, <2>4 DEF ByHandPinned
  <2>7. StartedPinned'
    <3> HIDE DEF p
    <3>. QED  BY <2>3, <2>4, <2>5 DEF StartedPinned
  <2>. QED  BY <2>6, <2>7
<1>6. ASSUME NEW i \in Servers, ServerExits(i) PROVE StartedPinned' /\ ByHandPinned'
  <2>1. /\ UNCHANGED <<argument, origin, changed>>
        /\ \A j \in Servers \ {i} : servers'[j] = servers[j]
        /\ servers'[i].repo = NoRepo
    BY <1>0, <1>6 DEF ServerExits, NoServer, settings
  <2>. QED  BY <2>1, NoRepoAssumption DEF StartedPinned, ByHandPinned
<1>7. ASSUME NEW i \in Servers, NEW r \in Repos, StartByHand(i, r)
      PROVE  StartedPinned' /\ ByHandPinned'
  <2>1. /\ UNCHANGED <<argument, origin, changed>>
        /\ \A j \in Servers \ {i} : servers'[j] = servers[j]
        /\ servers'[i].repo = r /\ servers'[i].byHand /\ servers'[i].seen
        /\ servers'[i].slug = derive_from_repo(origin[r])
    BY <1>0, <1>7, Resolved DEF StartByHand, settings
  <2>. QED  BY <2>1 DEF StartedPinned, ByHandPinned
<1>8. ASSUME NEW r \in Repos, Change(r) PROVE StartedPinned' /\ ByHandPinned'
  BY <1>8, ChangeFacts DEF StartedPinned, ByHandPinned
<1>9. CASE UNCHANGED vars
  BY <1>1, <1>9 DEF vars, settings
<1>. QED  BY <1>2, <1>3, <1>4, <1>5, <1>6, <1>7, <1>8, <1>9, NextCases

LEMMA ServedStep == IInv /\ [Next]_vars => Served'
<1> SUFFICES ASSUME IInv, [Next]_vars PROVE Served'
  OBVIOUS
<1> USE DEF IInv
<1>0. /\ pc \in [Shells -> {"out", "waiting", "checking", "starting", "polling", "in"}]
      /\ at \in [Shells -> Repos \cup {NoRepo}] /\ gone \subseteq Shells
      /\ servers \in [Servers -> ServerRecords]
  BY DEF TypeOK, Types
<1>1. ASSUME UNCHANGED <<pc, at>>, gone \subseteq gone',
             \A i \in Servers : servers[i].repo # NoRepo => servers'[i].repo = servers[i].repo
      PROVE  Served'
  <2> SUFFICES ASSUME NEW s \in Shells, s \notin gone,
                      pc[s] = "polling" \/ (pc[s] = "in" /\ Extensions[at[s]] = {})
               PROVE  HasServer(at[s])'
    BY <1>1 DEF Served
  <2>1. HasServer(at[s]) /\ at[s] \in Repos
    BY <1>0 DEF Served, InRepo
  <2>. QED  BY <1>1, <2>1, NoRepoAssumption DEF HasServer
<1>2. ASSUME NEW s \in Shells, LookingStep(s) PROVE Served'
  <2>1. /\ UNCHANGED <<at, gone, servers>>
        /\ \A t \in Shells \ {s} : pc'[t] = pc[t]
    BY <1>0, <1>2, LookingFrame DEF settings
  <2>2. \A r \in Repos : Running(r) /\ Extensions[r] = {} => HasServer(r)
    BY DEF Running, HasServer
  <2>3. at[s] \in Repos
    BY <1>2, LookingFrame DEF InRepo
  <2>4. /\ pc'[s] # "polling"
        /\ pc'[s] = "in" => pc[s] = "polling" \/ Running(at[s])
    BY <1>0, <1>2 DEF LookingStep, TakeLock, ProceedUnlocked, FindRunning, FindNone,
           ServerObserved, PollExpires, Return, Goto
  <2>5. ASSUME NEW t \in Shells, t \notin gone,
               pc'[t] = "polling" \/ (pc'[t] = "in" /\ Extensions[at[t]] = {})
        PROVE  HasServer(at[t])
    <3>1. CASE t = s
      BY <2>2, <2>3, <2>4, <2>5, <3>1 DEF Served
    <3>2. CASE t # s
      BY <2>1, <2>5, <3>2 DEF Served
    <3>. QED  BY <3>1, <3>2
  <2>. QED  BY <2>1, <2>5 DEF Served, HasServer
<1>3. ASSUME NEW s \in Shells,
             LeaveRepo(s) \/ \E r \in Repos : EnterRepo(s, r)
      PROVE  Served'
  <2>1. /\ UNCHANGED servers /\ pc'[s] \in {"out", "waiting"}
        /\ \A t \in Shells \ {s} : /\ pc'[t] = pc[t] /\ at'[t] = at[t]
                                   /\ t \notin gone' => t \notin gone
    BY <1>0, <1>3 DEF LeaveRepo, EnterRepo, Goto
  <2>. QED  BY <2>1 DEF Served, HasServer
<1>4. ASSUME NEW s \in Shells, NEW i \in Servers, StartServer(s, i) PROVE Served'
  <2>1. /\ UNCHANGED <<at, gone>> /\ servers[i].repo = NoRepo
        /\ \A t \in Shells \ {s} : pc'[t] = pc[t]
        /\ \A j \in Servers \ {i} : servers'[j] = servers[j]
        /\ servers'[i].repo = at[s]
    BY <1>0, <1>4 DEF StartServer, Goto
  <2>2. ASSUME NEW t \in Shells, t \notin gone,
               pc'[t] = "polling" \/ (pc'[t] = "in" /\ Extensions[at[t]] = {})
        PROVE  \E j \in Servers : servers'[j].repo = at[t]
    <3>1. CASE t = s
      BY <2>1, <3>1
    <3>2. CASE t # s
      <4>1. HasServer(at[t]) /\ at[t] \in Repos
        BY <1>0, <2>1, <2>2, <3>2 DEF Served, InRepo
      <4>. QED  BY <2>1, <4>1, NoRepoAssumption DEF HasServer
    <3>. QED  BY <3>1, <3>2
  <2>. QED  BY <2>1, <2>2 DEF Served, HasServer
<1>5. ASSUME NEW i \in Servers, ServerExecs(i) PROVE Served'
  <2>1. \A j \in Servers : servers'[j].repo = servers[j].repo
    <3>1. servers[i] \in ServerRecords
      BY <1>0
    <3>. QED  BY <1>0, <1>5, <3>1 DEF ServerExecs, ServerRecords
  <2>. QED  BY <1>1, <1>5, <2>1 DEF ServerExecs
<1>6. ASSUME NEW i \in Servers, ServerExits(i) PROVE Served'
  <2>1. /\ UNCHANGED <<pc, at>>
        /\ gone' = gone \cup {s \in Shells : at[s] = servers[i].repo}
        /\ \A j \in Servers \ {i} : servers'[j] = servers[j]
    BY <1>0, <1>6 DEF ServerExits
  <2>2. ASSUME NEW t \in Shells, t \notin gone',
               pc[t] = "polling" \/ (pc[t] = "in" /\ Extensions[at[t]] = {})
        PROVE  \E j \in Servers : servers'[j].repo = at[t]
    <3>1. HasServer(at[t]) /\ at[t] # servers[i].repo
      BY <2>1, <2>2 DEF Served
    <3>. QED  BY <2>1, <3>1 DEF HasServer
  <2>. QED  BY <2>1, <2>2 DEF Served, HasServer
<1>7. ASSUME NEW i \in Servers, NEW r \in Repos, StartByHand(i, r) PROVE Served'
  <2>1. \A j \in Servers : servers[j].repo # NoRepo => servers'[j].repo = servers[j].repo
    BY <1>0, <1>7 DEF StartByHand
  <2>. QED  BY <1>1, <1>7, <2>1 DEF StartByHand
<1>8. ASSUME NEW r \in Repos, Change(r) PROVE Served'
  BY <1>1, <1>8, ChangeFacts
<1>9. CASE UNCHANGED vars
  BY <1>1, <1>9 DEF vars
<1>. QED  BY <1>2, <1>3, <1>4, <1>5, <1>6, <1>7, <1>8, <1>9, NextCases

LEMMA Invariant == Spec => []IInv
<1>1. IInv /\ [Next]_vars => IInv'
  BY TypesStep, TypeOKStep, ShellsStep, ServersStep, ServedStep DEF IInv
<1>. QED  BY InitInvariant, <1>1, PTL DEF Spec

-----------------------------------------------------------------------------
(* Theorems *)

(* Types, and no two shells ever hold the same lock. *)
THEOREM TypesCorrect == Spec => []TypeOK
<1>1. IInv => TypeOK
  BY DEF IInv
<1>. QED  BY Invariant, <1>1, PTL

(* However many shells enter, time out, and see servers come and go: one   *)
(* that is done has a server, unless one exited since it came.             *)
THEOREM EnteringServes == Spec => []EnteredIsServed
<1>1. IInv => EnteredIsServed
  BY DEF IInv, Served, EnteredIsServed
<1>. QED  BY Invariant, <1>1, PTL

-----------------------------------------------------------------------------
(* How many servers                                                        *)

(* Shells that are between looking and starting without holding the lock,  *)
(* and where the shell is that holds it.                                   *)
Unlocked(r) == {s \in Shells \ holding : at[s] = r /\ pc[s] \in {"checking", "starting"}}
LockedIn(r, label) == \E h \in holding : at[h] = r /\ pc[h] = label

(* The servers of a repository, and those that such a shell may add.       *)
Expected(r) == Cardinality(StartedFor(r)) + Cardinality(Unlocked(r))

(* What is expected stays below the lapses, except for the one server of   *)
(* the lock's holder, while that one waits for it or any server is seen.   *)
LockLimits(r) ==
    /\ Expected(r) <= 1 + lapses
    /\ LockedIn(r, "starting") => Expected(r) <= lapses
    /\ ~LockedIn(r, "polling") /\ ~Running(r) => Expected(r) <= lapses

CountedFor(r) ==
    /\ IsFiniteSet(StartedFor(r)) /\ IsFiniteSet(Unlocked(r))
    /\ Cardinality(Unlocked(r)) <= lapses
    /\ Extensions[r] = {} /\ changed[r] = 0 => LockLimits(r)

Counted == \A r \in Repos : CountedFor(r)

LEMMA CountedInit == Init => Counted
<1> SUFFICES ASSUME Init PROVE Counted
  OBVIOUS
<1>1. \A r \in Repos : StartedFor(r) = {} /\ Unlocked(r) = {}
  BY NoRepoAssumption DEF Init, StartedFor, Process, Unlocked, NoServer
<1>2. Cardinality({}) = 0 /\ IsFiniteSet({})
  BY FS_EmptySet
<1>. QED  BY <1>1, <1>2 DEF Init, Counted, CountedFor, LockLimits, Expected, LockedIn

(* Only one shell of a repository holds its lock. *)
LEMMA OneHolder ==
    ASSUME IInv, NEW r \in Repos, changed[r] = 0,
           NEW s \in holding, NEW h \in holding, at[s] = r, at[h] = r
    PROVE  s = h
<1>1. s \in Shells /\ h \in Shells
  BY DEF IInv, TypeOK
<1>2. own[s] = own[h]
  BY <1>1 DEF IInv, ShellsPinned
<1>. QED  BY <1>2 DEF IInv, TypeOK

LEMMA CountTypes ==
    ASSUME IInv, Counted, NEW r \in Repos
    PROVE  /\ IsFiniteSet(StartedFor(r)) /\ IsFiniteSet(Unlocked(r)) /\ lapses \in Nat
           /\ Cardinality(StartedFor(r)) \in Nat /\ Cardinality(Unlocked(r)) \in Nat
           /\ Cardinality(Unlocked(r)) <= lapses
<1>1. /\ IsFiniteSet(StartedFor(r)) /\ IsFiniteSet(Unlocked(r))
      /\ Cardinality(Unlocked(r)) <= lapses
  BY DEF Counted, CountedFor
<1>. QED  BY <1>1, FS_CardinalityType DEF IInv, TypeOK

(* A step that starts and stops no server of a repository and sends no     *)
(* shell there to start one without the lock: what is expected does not    *)
(* grow.                                                                   *)
LEMMA CountedKept ==
    ASSUME IInv, Counted, NEW r \in Repos, lapses' \in Nat, lapses <= lapses',
           StartedFor(r)' = StartedFor(r), Unlocked(r)' \subseteq Unlocked(r),
           Extensions[r] = {} /\ changed'[r] = 0 =>
               /\ changed[r] = 0
               /\ LockedIn(r, "starting")' => Expected(r) <= lapses'
               /\ ~LockedIn(r, "polling")' /\ ~Running(r)' => Expected(r) <= lapses'
    PROVE  CountedFor(r)'
<1>1. /\ IsFiniteSet(StartedFor(r)) /\ IsFiniteSet(Unlocked(r)) /\ lapses \in Nat
      /\ Cardinality(StartedFor(r)) \in Nat /\ Cardinality(Unlocked(r)) \in Nat
      /\ Cardinality(Unlocked(r)) <= lapses
  BY CountTypes
<1>2. IsFiniteSet(Unlocked(r)') /\ Cardinality(Unlocked(r)') <= Cardinality(Unlocked(r))
  BY <1>1, FS_Subset
<1>3. Cardinality(Unlocked(r)') \in Nat
  BY <1>2, FS_CardinalityType
<1>4. Expected(r)' <= Expected(r) /\ Expected(r) \in Nat /\ Expected(r)' \in Nat
  BY <1>1, <1>2, <1>3 DEF Expected
<1>5. Extensions[r] = {} /\ changed[r] = 0 => Expected(r) <= 1 + lapses
  BY DEF Counted, CountedFor, LockLimits
<1>6. Extensions[r] = {} /\ changed'[r] = 0 => LockLimits(r)'
  <2> SUFFICES ASSUME Extensions[r] = {}, changed'[r] = 0 PROVE LockLimits(r)'
    OBVIOUS
  <2>1. Expected(r)' <= 1 + lapses'
    BY <1>1, <1>4, <1>5
  <2>2. LockedIn(r, "starting")' => Expected(r)' <= lapses'
    BY <1>4
  <2>3. ~LockedIn(r, "polling")' /\ ~Running(r)' => Expected(r)' <= lapses'
    BY <1>4
  <2>. QED  BY <2>1, <2>2, <2>3 DEF LockLimits
<1>. QED  BY <1>1, <1>2, <1>3, <1>6 DEF CountedFor

(* A shell that is elsewhere, or is not past the lock, counts for nothing. *)
Idle(s, r) == at[s] # r \/ pc[s] \in {"out", "waiting", "in"}

LEMMA IdleShell ==
    ASSUME IInv, TypeOK', NEW r \in Repos, NEW s \in Shells, Idle(s, r), Idle(s, r)',
           \A q \in Shells \ {s} :
               pc'[q] = pc[q] /\ at'[q] = at[q] /\ (q \in holding' <=> q \in holding)
    PROVE  /\ Unlocked(r)' = Unlocked(r)
           /\ LockedIn(r, "starting")' <=> LockedIn(r, "starting")
           /\ LockedIn(r, "polling")' <=> LockedIn(r, "polling")
<1>1. holding \subseteq Shells /\ holding' \subseteq Shells
  BY DEF IInv, TypeOK
<1>2. ASSUME NEW q \in Shells
      PROVE  q \in Unlocked(r)' <=> q \in Unlocked(r)
  <2>1. CASE q = s
    BY <2>1 DEF Unlocked, Idle
  <2>2. CASE q # s
    BY <2>2 DEF Unlocked
  <2>. QED  BY <2>1, <2>2
<1>3. ASSUME NEW label \in {"starting", "polling"}
      PROVE  LockedIn(r, label)' <=> LockedIn(r, label)
  BY <1>1 DEF LockedIn, Idle
<1>. QED  BY <1>2, <1>3 DEF Unlocked

(* A repository whose servers and settings a step leaves alone, and whose  *)
(* shells.                                                                 *)
LEMMA CountedElsewhere ==
    ASSUME IInv, Counted, TypeOK', NEW r \in Repos, lapses <= lapses',
           StartedFor(r)' = StartedFor(r),
           Extensions[r] = {} /\ Running(r) => Running(r)',
           changed'[r] = 0 => changed[r] = 0,
           Unlocked(r)' = Unlocked(r),
           LockedIn(r, "starting")' <=> LockedIn(r, "starting"),
           LockedIn(r, "polling")' <=> LockedIn(r, "polling")
    PROVE  CountedFor(r)'
<1>1. lapses \in Nat /\ lapses' \in Nat
  BY DEF IInv, TypeOK
<1>2. Expected(r) \in Nat
  BY CountTypes DEF Expected
<1>3. Extensions[r] = {} /\ changed'[r] = 0 =>
          /\ changed[r] = 0
          /\ LockedIn(r, "starting")' => Expected(r) <= lapses'
          /\ ~LockedIn(r, "polling")' /\ ~Running(r)' => Expected(r) <= lapses'
  BY <1>1, <1>2 DEF Counted, CountedFor, LockLimits
<1>. QED  BY <1>1, <1>3, CountedKept

(* Entering or leaving a repository, or looking around in another one.     *)
LEMMA CountedIdle ==
    ASSUME IInv, Counted, TypeOK', NEW r \in Repos, NEW s \in Shells, Idle(s, r),
           \/ LookingStep(s) /\ at[s] # r
           \/ LeaveRepo(s)
           \/ \E q \in Repos : EnterRepo(s, q)
    PROVE  CountedFor(r)'
<1>1. lapses \in Nat /\ lapses <= lapses' /\ servers' = servers /\ changed' = changed
  BY DEF IInv, TypeOK, LookingStep, TakeLock, ProceedUnlocked, FindRunning, FindNone,
         ServerObserved, PollExpires, Return, LeaveRepo, EnterRepo, settings
<1>2. /\ pc \in [Shells -> {"out", "waiting", "checking", "starting", "polling", "in"}]
      /\ at \in [Shells -> Repos \cup {NoRepo}]
  BY DEF IInv, TypeOK
<1>3. Idle(s, r)'
  <2>1. CASE LookingStep(s) /\ at[s] # r
    BY <2>1, LookingFrame DEF Idle
  <2>2. CASE LeaveRepo(s)
    BY <1>2, <2>2 DEF LeaveRepo, Goto, Idle
  <2>3. CASE \E q \in Repos : EnterRepo(s, q)
    BY <1>2, <2>3 DEF EnterRepo, Goto, Idle
  <2>. QED  BY <2>1, <2>2, <2>3
<1>4. \A q \in Shells \ {s} :
          pc'[q] = pc[q] /\ at'[q] = at[q] /\ (q \in holding' <=> q \in holding)
  BY <1>2 DEF LookingStep, TakeLock, ProceedUnlocked, FindRunning, FindNone, ServerObserved,
         PollExpires, Return, ReleaseLock, LeaveRepo, EnterRepo, Goto
<1>5. StartedFor(r)' = StartedFor(r) /\ (Running(r)' <=> Running(r))
  BY <1>1 DEF StartedFor, Process, Running
<1>. QED  BY <1>1, <1>3, <1>4, <1>5, IdleShell, CountedElsewhere

(* A shell that holds the lock is the only one that any condition on the   *)
(* lock speaks of.                                                         *)
LEMMA CountedLooking ==
    ASSUME IInv, Counted, TypeOK', NEW r \in Repos,
           NEW s \in Shells, at[s] = r,
           \/ TakeLock(s) \/ FindRunning(s) \/ FindNone(s)
           \/ ServerObserved(s) \/ PollExpires(s)
    PROVE  CountedFor(r)'
<1>1. /\ lapses \in Nat /\ lapses' \in Nat /\ lapses <= lapses'
      /\ servers' = servers /\ changed' = changed /\ at' = at
  BY DEF IInv, TypeOK, TakeLock, FindRunning, FindNone,
         ServerObserved, PollExpires, Return, settings
<1>2. /\ pc \in [Shells -> {"out", "waiting", "checking", "starting", "polling", "in"}]
      /\ holding \subseteq Shells
      /\ \A h \in holding : pc[h] \in {"checking", "starting", "polling"}
  BY DEF IInv, TypeOK
<1>3. StartedFor(r)' = StartedFor(r) /\ (Running(r)' <=> Running(r))
  BY <1>1 DEF StartedFor, Process, Running
<1>4. Unlocked(r)' \subseteq Unlocked(r)
  BY <1>1, <1>2 DEF TakeLock, FindRunning, FindNone, ServerObserved, PollExpires,
                    Return, ReleaseLock, Goto, Unlocked
<1>5. ASSUME Extensions[r] = {}, changed'[r] = 0
      PROVE  /\ changed[r] = 0
             /\ LockedIn(r, "starting")' => Expected(r) <= lapses'
             /\ ~LockedIn(r, "polling")' /\ ~Running(r)' => Expected(r) <= lapses'
  <2> USE <1>5
  <2>0. changed[r] = 0 /\ LockLimits(r) /\ Expected(r) \in Nat
    BY <1>1, CountTypes DEF Counted, CountedFor, Expected
  <2>1. CASE TakeLock(s)
    <3>1. \A label \in {"starting", "polling"} : LockedIn(r, label)' <=> LockedIn(r, label)
      BY <1>1, <1>2, <2>1 DEF TakeLock, Goto, LockedIn
    <3>. QED  BY <1>1, <1>3, <2>0, <3>1 DEF LockLimits
  <2>2. CASE FindRunning(s) \/ ServerObserved(s)
    <3>1. LockedIn(r, "starting")' => LockedIn(r, "starting")
      BY <1>1, <1>2, <2>2 DEF FindRunning, ServerObserved, Return, ReleaseLock, Goto, LockedIn
    <3>2. Running(r)'
      BY <1>3, <2>2 DEF FindRunning, ServerObserved
    <3>. QED  BY <1>1, <2>0, <3>1, <3>2 DEF LockLimits
  <2>3. CASE FindNone(s)
    <3>1. /\ holding' = holding /\ lapses' = lapses /\ ~Running(r) /\ pc[s] = "checking"
          /\ pc' = [pc EXCEPT ![s] = "starting"]
      BY <2>3 DEF FindNone, Goto
    <3>2. CASE s \in holding
      <4>1. \A h \in holding : at[h] = r => h = s
        BY <2>0, <3>2, OneHolder
      <4>2. ~LockedIn(r, "polling")
        BY <3>1, <4>1 DEF LockedIn
      <4>. QED  BY <1>1, <2>0, <3>1, <4>2 DEF LockLimits
    <3>3. CASE s \notin holding
      <4>1. \A label \in {"starting", "polling"} : LockedIn(r, label)' <=> LockedIn(r, label)
        BY <1>1, <1>2, <3>1, <3>3 DEF LockedIn
      <4>. QED  BY <1>1, <1>3, <2>0, <3>1, <4>1 DEF LockLimits
    <3>. QED  BY <3>2, <3>3
  <2>4. CASE PollExpires(s)
    <3>1. CASE HasServer(r)
      <4>1. lapses' = lapses + 1
        BY <2>4, <3>1 DEF PollExpires
      <4>. QED  BY <1>1, <2>0, <4>1 DEF LockLimits
    <3>2. CASE ~HasServer(r)
      <4>1. StartedFor(r) = {}
        BY <3>2 DEF HasServer, StartedFor, Process
      <4>2. Cardinality(StartedFor(r)) = 0
        BY <4>1, FS_EmptySet
      <4>3. Expected(r) <= lapses
        BY <4>2, CountTypes DEF Expected
      <4>. QED  BY <1>1, <2>0, <4>3
    <3>. QED  BY <3>1, <3>2
  <2>. QED  BY <2>1, <2>2, <2>3, <2>4
<1>. QED  BY <1>1, <1>3, <1>4, <1>5, CountedKept

(* A start without the lock is a lapse. *)
LEMMA CountedUnlocked ==
    ASSUME IInv, Counted, TypeOK', NEW r \in Repos,
           NEW s \in Shells, at[s] = r, ProceedUnlocked(s)
    PROVE  CountedFor(r)'
<1>1. /\ lapses' = lapses + 1 /\ lapses' \in Nat /\ pc[s] = "waiting"
      /\ pc' = [pc EXCEPT ![s] = "checking"]
      /\ servers' = servers /\ changed' = changed /\ at' = at /\ holding' = holding
  BY DEF IInv, TypeOK, ProceedUnlocked, Goto, settings
<1>2. /\ pc \in [Shells -> {"out", "waiting", "checking", "starting", "polling", "in"}]
      /\ holding \subseteq Shells
      /\ \A h \in holding : pc[h] \in {"checking", "starting", "polling"}
  BY DEF IInv, TypeOK
<1>3. StartedFor(r)' = StartedFor(r) /\ (Running(r)' <=> Running(r))
  BY <1>1 DEF StartedFor, Process, Running
<1>4. Unlocked(r)' = Unlocked(r) \cup {s} /\ s \notin Unlocked(r)
  BY <1>1, <1>2 DEF Unlocked
<1>5. /\ IsFiniteSet(StartedFor(r)) /\ IsFiniteSet(Unlocked(r)) /\ lapses \in Nat
      /\ Cardinality(StartedFor(r)) \in Nat /\ Cardinality(Unlocked(r)) \in Nat
      /\ Cardinality(Unlocked(r)) <= lapses
  BY CountTypes
<1>6. IsFiniteSet(Unlocked(r)') /\ Cardinality(Unlocked(r)') = Cardinality(Unlocked(r)) + 1
  BY <1>4, <1>5, FS_AddElement
<1>7. Expected(r)' = Expected(r) + 1
  BY <1>3, <1>5, <1>6 DEF Expected
<1>8. \A label \in {"starting", "polling"} : LockedIn(r, label)' <=> LockedIn(r, label)
  BY <1>1, <1>2 DEF LockedIn
<1>9. Extensions[r] = {} /\ changed'[r] = 0 => LockLimits(r)'
  <2>1. Expected(r) \in Nat
    BY <1>5 DEF Expected
  <2>. QED  BY <1>1, <1>3, <1>5, <1>7, <1>8, <2>1 DEF Counted, CountedFor, LockLimits
<1>. QED  BY <1>1, <1>3, <1>5, <1>6, <1>9 DEF CountedFor

(* A start under the lock uses up the one server that is not a lapse, a    *)
(* start without it the lapse that is counted already.                     *)
LEMMA CountedStart ==
    ASSUME IInv, Counted, TypeOK', NEW r \in Repos,
           NEW s \in Shells, NEW i \in Servers, StartServer(s, i)
    PROVE  CountedFor(r)'
<1>1. /\ pc \in [Shells -> {"out", "waiting", "checking", "starting", "polling", "in"}]
      /\ holding \subseteq Shells /\ lapses \in Nat
      /\ \A h \in holding : pc[h] \in {"checking", "starting", "polling"}
      /\ servers \in [Servers -> ServerRecords]
      /\ at[s] \in Repos
  BY DEF IInv, TypeOK, Types, InRepo, StartServer
<1>2. /\ pc[s] = "starting" /\ pc' = [pc EXCEPT ![s] = "polling"]
      /\ servers[i].repo = NoRepo
      /\ at' = at /\ holding' = holding /\ lapses' = lapses /\ changed' = changed
      /\ \A j \in Servers \ {i} : servers'[j] = servers[j]
      /\ servers'[i].repo = at[s] /\ ~servers'[i].byHand
  BY <1>1 DEF StartServer, Goto, settings
<1>3. Running(r) => Running(r)'
  BY <1>2, NoRepoAssumption, ExtensionsAssumption DEF Running
<1>4. /\ i \notin StartedFor(r)
      /\ at[s] # r => StartedFor(r)' = StartedFor(r)
      /\ at[s] = r => StartedFor(r)' = StartedFor(r) \cup {i}
  BY <1>1, <1>2, NoRepoAssumption DEF StartedFor, Process
<1>5. CASE at[s] # r
  <2>1. Idle(s, r) /\ Idle(s, r)'
    BY <1>2, <1>5 DEF Idle
  <2>2. \A q \in Shells \ {s} :
            pc'[q] = pc[q] /\ at'[q] = at[q] /\ (q \in holding' <=> q \in holding)
    BY <1>1, <1>2
  <2>. QED  BY <1>1, <1>2, <1>3, <1>4, <1>5, <2>1, <2>2, IdleShell, CountedElsewhere
<1>6. CASE at[s] = r
  <2>1. /\ IsFiniteSet(StartedFor(r)) /\ IsFiniteSet(Unlocked(r))
        /\ Cardinality(StartedFor(r)) \in Nat /\ Cardinality(Unlocked(r)) \in Nat
        /\ Cardinality(Unlocked(r)) <= lapses
    BY CountTypes
  <2>2. /\ IsFiniteSet(StartedFor(r)')
        /\ Cardinality(StartedFor(r)') = Cardinality(StartedFor(r)) + 1
    BY <1>4, <1>6, <2>1, FS_AddElement
  <2>3. CASE s \in holding
    <3>1. Unlocked(r)' = Unlocked(r)
      BY <1>1, <1>2, <2>3 DEF Unlocked
    <3>2. LockedIn(r, "starting") /\ LockedIn(r, "polling")'
      BY <1>1, <1>2, <1>6, <2>3 DEF LockedIn
    <3>3. changed[r] = 0 => ~LockedIn(r, "starting")'
      <4>1. changed[r] = 0 => \A h \in holding : at[h] = r => h = s
        BY <1>6, <2>3, OneHolder
      <4>. QED  BY <1>1, <1>2, <4>1 DEF LockedIn
    <3>4. Expected(r) \in Nat /\ Expected(r)' = Expected(r) + 1
      BY <2>1, <2>2, <3>1 DEF Expected
    <3>5. Extensions[r] = {} /\ changed'[r] = 0 => LockLimits(r)'
      BY <1>1, <1>2, <3>2, <3>3, <3>4 DEF Counted, CountedFor, LockLimits
    <3>. QED  BY <1>2, <2>1, <2>2, <3>1, <3>5 DEF CountedFor
  <2>4. CASE s \notin holding
    <3>1. Unlocked(r)' = Unlocked(r) \ {s} /\ s \in Unlocked(r)
      BY <1>1, <1>2, <1>6, <2>4 DEF Unlocked
    <3>2. /\ IsFiniteSet(Unlocked(r)')
          /\ Cardinality(Unlocked(r)') = Cardinality(Unlocked(r)) - 1
      BY <2>1, <3>1, FS_RemoveElement
    <3>3. \A label \in {"starting", "polling"} : LockedIn(r, label)' <=> LockedIn(r, label)
      BY <1>1, <1>2, <2>4 DEF LockedIn
    <3>4. Expected(r) \in Nat /\ Expected(r)' = Expected(r)
      BY <2>1, <2>2, <3>2 DEF Expected
    <3>5. Extensions[r] = {} /\ changed'[r] = 0 => LockLimits(r)'
      BY <1>1, <1>2, <1>3, <3>3, <3>4 DEF Counted, CountedFor, LockLimits
    <3>. QED  BY <1>1, <1>2, <2>1, <2>2, <3>2, <3>5 DEF CountedFor
  <2>. QED  BY <2>3, <2>4
<1>. QED  BY <1>5, <1>6

(* Where the shells are left alone, so are those that wait and look.       *)
LEMMA ShellsAlone ==
    ASSUME NEW r \in Repos, UNCHANGED <<pc, at, holding>>
    PROVE  /\ Unlocked(r)' = Unlocked(r)
           /\ LockedIn(r, "starting")' <=> LockedIn(r, "starting")
           /\ LockedIn(r, "polling")' <=> LockedIn(r, "polling")
  BY DEF Unlocked, LockedIn

(* A server that exits makes room for the next one. *)
LEMMA CountedExit ==
    ASSUME IInv, Counted, TypeOK', NEW r \in Repos, NEW i \in Servers, ServerExits(i)
    PROVE  CountedFor(r)'
<1>1. /\ servers \in [Servers -> ServerRecords] /\ lapses \in Nat
      /\ servers' = [servers EXCEPT ![i] = NoServer]
      /\ UNCHANGED <<pc, at, holding, changed, lapses>>
  BY DEF IInv, TypeOK, Types, ServerExits, settings
<1>2. StartedFor(r)' = StartedFor(r) \ {i}
  BY <1>1 DEF StartedFor, Process, NoServer
<1>3. CASE i \in StartedFor(r)
  <2>1. /\ IsFiniteSet(StartedFor(r)) /\ IsFiniteSet(Unlocked(r))
        /\ Cardinality(StartedFor(r)) \in Nat /\ Cardinality(Unlocked(r)) \in Nat
        /\ Cardinality(Unlocked(r)) <= lapses
    BY CountTypes
  <2>2. /\ IsFiniteSet(StartedFor(r)')
        /\ Cardinality(StartedFor(r)') = Cardinality(StartedFor(r)) - 1
    BY <1>2, <1>3, <2>1, FS_RemoveElement
  <2>3. Unlocked(r)' = Unlocked(r)
    BY <1>1, ShellsAlone
  <2>4. Expected(r) \in Nat /\ Expected(r)' = Expected(r) - 1
    BY <2>1, <2>2, <2>3 DEF Expected
  <2>5. Extensions[r] = {} /\ changed'[r] = 0 => LockLimits(r)'
    BY <1>1, <2>4 DEF Counted, CountedFor, LockLimits
  <2>. QED  BY <1>1, <2>1, <2>2, <2>3, <2>5 DEF CountedFor
<1>4. CASE i \notin StartedFor(r)
  <2>1. StartedFor(r)' = StartedFor(r)
    BY <1>2, <1>4
  <2>2. Extensions[r] = {} /\ Running(r) => Running(r)'
    BY <1>1, <1>4, NoRepoAssumption DEF Running, StartedFor, Process
  <2>. QED  BY <1>1, <2>1, <2>2, ShellsAlone, CountedElsewhere
<1>. QED  BY <1>3, <1>4

(* No other process is started or stopped by a shell. *)
LEMMA CountedProcess ==
    ASSUME IInv, Counted, TypeOK', NEW r \in Repos, NEW i \in Servers,
           ServerExecs(i) \/ \E q \in Repos : StartByHand(i, q)
    PROVE  CountedFor(r)'
<1>1. /\ servers \in [Servers -> ServerRecords] /\ lapses \in Nat
      /\ UNCHANGED <<pc, at, holding, changed, lapses>>
      /\ \A j \in Servers \ {i} : servers'[j] = servers[j]
  BY DEF IInv, TypeOK, Types, ServerExecs, StartByHand, settings
<1>2. CASE ServerExecs(i)
  <2>1. /\ servers'[i].repo = servers[i].repo /\ servers'[i].byHand = servers[i].byHand
        /\ servers'[i].seen
    BY <1>1, <1>2 DEF ServerExecs, ServerRecords
  <2>2. StartedFor(r)' = StartedFor(r) /\ (Running(r) => Running(r)')
    BY <1>1, <2>1 DEF StartedFor, Process, Running
  <2>. QED  BY <1>1, <2>2, ShellsAlone, CountedElsewhere
<1>3. CASE \E q \in Repos : StartByHand(i, q)
  <2>1. servers[i].repo = NoRepo /\ servers'[i].byHand
    BY <1>1, <1>3 DEF StartByHand, ServerRecords
  <2>2. StartedFor(r)' = StartedFor(r) /\ (Running(r) => Running(r)')
    BY <1>1, <2>1, NoRepoAssumption, ExtensionsAssumption DEF StartedFor, Process, Running
  <2>. QED  BY <1>1, <2>2, ShellsAlone, CountedElsewhere
<1>. QED  BY <1>2, <1>3

LEMMA CountedNext == IInv /\ Counted /\ [Next]_vars => Counted'
<1> SUFFICES ASSUME IInv, Counted, [Next]_vars, NEW r \in Repos PROVE CountedFor(r)'
  BY DEF Counted
<1>0. TypeOK'
  BY TypeOKStep
<1>1. ASSUME NEW s \in Shells, LookingStep(s) PROVE CountedFor(r)'
  <2>1. CASE at[s] = r
    BY <1>0, <1>1, <2>1, CountedLooking, CountedUnlocked DEF LookingStep
  <2>2. CASE at[s] # r
    BY <1>0, <1>1, <2>2, CountedIdle DEF Idle
  <2>. QED  BY <2>1, <2>2
<1>2. ASSUME NEW s \in Shells, LeaveRepo(s) \/ \E q \in Repos : EnterRepo(s, q)
      PROVE  CountedFor(r)'
  <2>1. Idle(s, r)
    BY <1>2 DEF LeaveRepo, EnterRepo, Idle
  <2>. QED  BY <1>0, <1>2, <2>1, CountedIdle
<1>3. ASSUME NEW s \in Shells, NEW i \in Servers, StartServer(s, i) PROVE CountedFor(r)'
  BY <1>0, <1>3, CountedStart
<1>4. ASSUME NEW i \in Servers, ServerExecs(i) \/ \E q \in Repos : StartByHand(i, q)
      PROVE  CountedFor(r)'
  BY <1>0, <1>4, CountedProcess
<1>5. ASSUME NEW i \in Servers, ServerExits(i) PROVE CountedFor(r)'
  BY <1>0, <1>5, CountedExit
<1>6. ASSUME NEW q \in Repos, Change(q) PROVE CountedFor(r)'
  <2>1. servers' = servers /\ lapses' = lapses /\ UNCHANGED <<pc, at, holding>> /\ lapses \in Nat
    BY <1>6, ChangeFacts DEF IInv, TypeOK
  <2>2. changed'[r] = 0 => changed[r] = 0
    BY <1>6, ChangeFacts
  <2>3. StartedFor(r)' = StartedFor(r) /\ (Running(r)' <=> Running(r))
    BY <2>1 DEF StartedFor, Process, Running
  <2>. QED  BY <1>0, <2>1, <2>2, <2>3, ShellsAlone, CountedElsewhere
<1>7. CASE UNCHANGED vars
  <2>1. /\ servers' = servers /\ lapses' = lapses /\ changed' = changed
        /\ UNCHANGED <<pc, at, holding>> /\ lapses \in Nat
    BY <1>7 DEF vars, IInv, TypeOK
  <2>2. StartedFor(r)' = StartedFor(r) /\ (Running(r)' <=> Running(r))
    BY <2>1 DEF StartedFor, Process, Running
  <2>. QED  BY <1>0, <2>1, <2>2, ShellsAlone, CountedElsewhere
<1>. QED  BY <1>1, <1>2, <1>3, <1>4, <1>5, <1>6, <1>7, NextCases

(* The shells start one server for a repository, and one more for each     *)
(* start that the lock did not protect (crossbridge_up of nix/direnvrc.sh).*)
THEOREM OneServerAlways == Spec => []OneServerPerRepo
<1>1. IInv /\ Counted => OneServerPerRepo
  <2> SUFFICES ASSUME IInv, Counted, NEW r \in Repos, Extensions[r] = {}, changed[r] = 0
               PROVE  Cardinality(StartedFor(r)) <= 1 + lapses
    BY DEF OneServerPerRepo
  <2>1. Expected(r) <= 1 + lapses
    BY DEF Counted, CountedFor, LockLimits
  <2>. QED  BY <2>1, CountTypes DEF Expected
<1>. QED  BY Invariant, CountedInit, CountedNext, <1>1, PTL DEF Spec

(* With the same slug, client, server and supervisor mean the same files.  *)
LEMMA SameSlugMeets ==
    ASSUME IInv, NEW i \in Servers
    PROVE  Meet(i, servers[i].slug)
<1> DEFINE root == default_socket_root(login)
           slug == servers[i].slug
<1>1. root \in Seq(STRING) /\ (SharesRoot => default_socket_root(supervisor) = root)
  BY DEF IInv, SameRoot
<1>2. RootOf(login) = root
  BY DEF RootOf, resolve_runtime_root
<1>3. SharesRoot => resolve_register_socket(NoFlag, supervisor) = register_socket(root)
  BY <1>1 DEF resolve_register_socket
<1> HIDE DEF root
<1>4. Front(register_socket(root)) = root
  <2>1. \A x \in STRING : Front(Append(root, x)) = root
    <3> SUFFICES ASSUME NEW x \in STRING PROVE Front(Append(root, x)) = root
      OBVIOUS
    <3>0. root \in Seq(STRING) /\ Len(root) \in Nat
      BY <1>1, LenProperties
    <3>1. /\ Append(root, x) \in Seq(STRING)
          /\ Len(Append(root, x)) = Len(root) + 1
          /\ \A k \in 1..Len(root) : Append(root, x)[k] = root[k]
      <4> HIDE DEF root
      <4>1. Append(root, x) \in Seq(STRING) /\ Len(Append(root, x)) = Len(root) + 1
        BY <3>0, AppendProperties
      <4>2. \A k \in 1..Len(root) : Append(root, x)[k] = root[k]
        BY <3>0, AppendProperties
      <4>. QED  BY <4>1, <4>2
    <3>2. Len(root) \in Nat
      BY <3>0
    <3>3. Front(Append(root, x)) = [k \in 1..Len(root) |-> Append(root, x)[k]]
      BY <3>1, <3>2 DEF Front
    <3>4. root = [k \in 1..Len(root) |-> root[k]]
      BY <1>1
    <3>. QED  BY <3>1, <3>3, <3>4
  <2>. QED  BY <2>1, LiteralsAssumption DEF register_socket
<1>5. socket_dir(login, slug) = peer_dir(root, slug)
  BY DEF socket_dir, peer_dir, root
<1>6. \A j \in Servers :
        target_socket(login, slug, servers[j].slug) = listener_socket(root, slug, servers[j].slug)
  BY <1>5 DEF target_socket, listener_socket
<1>7. SharesRoot => slug_dir(NoFlag, supervisor, slug) = peer_dir(root, slug)
  BY <1>3, <1>4 DEF slug_dir, peer_dir
<1>. QED  BY <1>2, <1>3, <1>5, <1>6, <1>7 DEF Meet, Registered, Process

(* A client in a shell finds the server of its repository whichever shell  *)
(* has started it and whatever the remote's URL is, until remote or        *)
(* argument are changed; and both find the supervisor, whatever root its   *)
(* unit and the login set, if that is the same.                            *)
THEOREM PinnedClientsMeet == Spec => []PinnedClientFindsServer
<1>1. ASSUME IInv PROVE PinnedClientFindsServer
  <2> SUFFICES ASSUME NEW i \in Registered, NEW s \in Shells,
                      ~servers[i].byHand, at[s] = servers[i].repo, changed[at[s]] = 0
               PROVE  Meet(i, SlugIn(s))
    BY DEF PinnedClientFindsServer
  <2>1. /\ i \in Servers /\ servers[i].repo \in Repos
        /\ servers[i].seen /\ servers[i].slug # None
    BY <1>1 DEF Registered, Process, IInv, TypeOK
  <2>2. servers[i].slug = Trim(own[s])
    BY <1>1, <2>1 DEF IInv, ShellsPinned, StartedPinned
  <2>3. SlugIn(s) = servers[i].slug
    BY <2>1, <2>2 DEF SlugIn, resolve_own_slug, FlagOrEnv, own_slug_from_env
  <2>. QED  BY <1>1, <2>1, <2>3, SameSlugMeets
<1>. QED  BY Invariant, <1>1, PTL

(* A client that is run outside a shell of the repository derives the slug *)
(* itself, and from a plain URL the one that every server took, whether a  *)
(* shell or a user has started it.                                         *)
THEOREM DerivedClientsMeet == Spec => []DerivedClientFindsServer
<1>1. ASSUME IInv PROVE DerivedClientFindsServer
  <2> SUFFICES ASSUME NEW i \in Registered, argument[servers[i].repo] = None,
                      changed[servers[i].repo] = 0, HasPlainOrigin(origin[servers[i].repo])
               PROVE  Meet(i, resolve_own_slug(NoFlag, None, origin[servers[i].repo]))
    BY DEF DerivedClientFindsServer
  <2> DEFINE cfg == origin[servers[i].repo]
  <2>1. i \in Servers /\ servers[i].repo \in Repos /\ servers[i].seen
    BY <1>1 DEF Registered, Process, IInv, TypeOK
  <2>2. cfg \in Configurations(STRING)
    BY <1>1, <2>1 DEF IInv, TypeOK, Configs
  <2>3. /\ derive_from_repo(cfg) = derive_own_slug(cfg)
        /\ ShellSlug(None, cfg) = derive_own_slug(cfg)
        /\ Trim(derive_own_slug(cfg)) = derive_own_slug(cfg)
    <3> HIDE DEF cfg
    <3>1. HasPlainOrigin(cfg)
      BY DEF cfg
    <3>. QED  BY <2>2, <3>1, DerivedSlugsAgree
  <2>4. servers[i].slug = derive_own_slug(cfg)
    <3>1. CASE servers[i].byHand
      BY <1>1, <2>1, <2>3, <3>1 DEF IInv, ByHandPinned
    <3>2. CASE ~servers[i].byHand
      BY <1>1, <2>1, <2>3, <3>2 DEF IInv, StartedPinned
    <3>. QED  BY <3>1, <3>2
  <2>5. resolve_own_slug(NoFlag, None, cfg) = derive_own_slug(cfg)
    BY Resolved
  <2>. QED  BY <1>1, <2>1, <2>4, <2>5, SameSlugMeets
<1>. QED  BY Invariant, <1>1, PTL
=============================================================================
