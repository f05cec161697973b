--------------------------------- MODULE Slug ---------------------------------
(***************************************************************************)
(* How a repository gets its name, three times over: by the server         *)
(* (crossbridge-server/src/slug.rs), by the client                         *)
(* (crossbridge-client/src/slug.rs) and by the shell (nix/direnvrc.sh);    *)
(* and where sockets are looked for (crossbridge-protocol/src/lib.rs,      *)
(* crossbridge-server/src/paths.rs, crossbridge-client/src/lib.rs).        *)
(*                                                                         *)
(* A string is a sequence of tokens: the characters that the code tests    *)
(* for, "://" and ".git", and words for what is between.  The empty        *)
(* sequence stands for what the code treats alike: None, an error, and a   *)
(* value that is empty or not set.                                         *)
(***************************************************************************)
EXTENDS Naturals, Sequences, SequencesExt

None == <<>>
Blank == " "

FirstOf(s, tokens) == SelectInSeq(s, LAMBDA t : t \in tokens)
LastOf(s, tokens) == SelectLastInSeq(s, LAMBDA t : t \in tokens)

(* With index 0, which is not found, both return the whole string.         *)
After(s, i) == SubSeq(s, i + 1, Len(s))
UpTo(s, i) == IF i = 0 THEN s ELSE SubSeq(s, 1, i - 1)

LastSegment(s, separators) == After(s, LastOf(s, separators))
TrimEnd(s, token) == SubSeq(s, 1, SelectLastInSeq(s, LAMBDA t : t # token))
Trim(s) == Reverse(TrimEnd(Reverse(TrimEnd(s, Blank)), Blank))
FirstWord(s) == UpTo(Trim(s), FirstOf(Trim(s), {Blank}))
StripGit(s) == IF s # None /\ Last(s) = ".git" THEN Front(s) ELSE s

-----------------------------------------------------------------------------
(* The origin remote.  A configuration says whether there is a .jj         *)
(* directory, and what jj and git print as the URL of origin.              *)
Configurations(S) == [jj : BOOLEAN, jjUrl : Seq(S), gitUrl : Seq(S)]

ServerOriginUrl(cfg) == Trim(IF cfg.jj THEN cfg.jjUrl ELSE cfg.gitUrl)

(* Client and shell fall back from jj to git, and take one word of jj's.   *)
ClientOriginUrl(cfg) ==
    IF cfg.jj /\ FirstWord(cfg.jjUrl) # None THEN FirstWord(cfg.jjUrl) ELSE Trim(cfg.gitUrl)

-----------------------------------------------------------------------------
(* From a URL to a slug *)

(* Server and shell: what follows the host, without query and fragment.    *)
PathPart(url) ==
    LET scheme == FirstOf(url, {"://"})
        path == IF scheme > 0
                THEN After(After(url, scheme), FirstOf(After(url, scheme), {"/"}))
                ELSE After(url, FirstOf(url, {":"}))
    IN  UpTo(path, FirstOf(path, {"?", "#"}))

HasNoPath(url) ==
    LET scheme == FirstOf(url, {"://"})
    IN  scheme > 0 /\ FirstOf(After(url, scheme), {"/"}) = 0

parse_slug(url) ==
    IF HasNoPath(url) THEN None
    ELSE StripGit(Trim(LastSegment(TrimEnd(PathPart(url), "/"), {"/"})))

(* Mutant: the client cuts at slashes only. *)
SlashOnly(url) == StripGit(LastSegment(url, {"/", "://"}))
parse_origin_url(url) == StripGit(LastSegment(url, {"/", ":", "://"}))

(* The shell drops one trailing slash, and takes a host without a path.    *)
ShellParse(url) ==
    LET path == PathPart(url)
        cut == IF path # None /\ Last(path) = "/" THEN Front(path) ELSE path
    IN  StripGit(LastSegment(cut, {"/"}))

(* The URLs that slug.rs names as supported: no blank, query or fragment,  *)
(* no trailing slash, a path after a host, and no colon but the host's.    *)
AtMostOne(s, token) == \A i, j \in DOMAIN s : s[i] = token /\ s[j] = token => i = j
IsPlain(url) ==
    /\ \A t \in {Blank, "?", "#"} : ~Contains(url, t)
    /\ url # None /\ Last(url) # "/"
    /\ AtMostOne(url, "://")
    /\ IF Contains(url, "://") THEN ~HasNoPath(url) /\ ~Contains(LastSegment(url, {"/"}), ":")
                               ELSE AtMostOne(url, ":")
HasPlainOrigin(cfg) == IsPlain(IF cfg.jj THEN cfg.jjUrl ELSE cfg.gitUrl)

derive_from_repo(cfg) == parse_slug(ServerOriginUrl(cfg))
derive_own_slug(cfg) == parse_origin_url(ClientOriginUrl(cfg))
ShellSlug(arg, cfg) == IF arg # None THEN arg ELSE ShellParse(ClientOriginUrl(cfg))

-----------------------------------------------------------------------------
(* Precedence: the flag, CROSSBRIDGE_OWN_SLUG, the origin remote.  A flag  *)
(* that is given and blank is an error.                                    *)
CONSTANT NoFlag

own_slug_from_env(env) == Trim(env)
FlagOrEnv(flag, env, derived) ==
    IF flag # NoFlag THEN Trim(flag)
    ELSE IF own_slug_from_env(env) # None THEN own_slug_from_env(env) ELSE derived

resolve_slug(flag, env, cfg) == FlagOrEnv(flag, env, derive_from_repo(cfg))
resolve_own_slug(flag, env, cfg) == FlagOrEnv(flag, env, derive_own_slug(cfg))

-----------------------------------------------------------------------------
(* The socket root.  An environment has the values of the two variables,   *)
(* NoFlag where one is not set; a path is a sequence of its components.    *)
default_socket_root(env) ==
    IF env.socketRoot # NoFlag THEN env.socketRoot
    ELSE IF env.xdg # NoFlag THEN Append(env.xdg, "crossbridge")
    ELSE <<"run", "crossbridge">>

(* Mutant: the server prefers the XDG directory. *)
XdgFirst(flag, env) ==
    default_socket_root([env EXCEPT !.socketRoot = IF env.xdg # NoFlag THEN NoFlag ELSE @])
resolve_runtime_root(flag, env) ==
    IF flag # NoFlag THEN flag ELSE default_socket_root(env)

register_socket(root) == Append(root, "register.socket")
peer_dir(root, slug) == Append(root, slug)
listener_socket(root, peer, own) == Append(peer_dir(root, peer), own \o <<".socket">>)

(* The client: the directory it lists, and the socket it connects to.      *)
socket_dir(env, own) == Append(default_socket_root(env), own)
target_socket(env, own, target) == Append(socket_dir(env, own), target \o <<".socket">>)

(* The supervisor: its register socket, and from that its directories.     *)
resolve_register_socket(flag, env) ==
    IF flag # NoFlag THEN flag ELSE register_socket(default_socket_root(env))
slug_dir(flag, env, slug) == Append(Front(resolve_register_socket(flag, env)), slug)
=============================================================================
