------------------------------- MODULE MCSetup -------------------------------
(* Small instances of Setup for TLC. *)
EXTENDS Setup, TLC

CONSTANTS r1, r2, s1, s2, i1, i2, i3

(* The path of r1 is a prefix of the path of r2. *)
Nested == [r \in Repos |-> IF r = r1 THEN {r2} ELSE {}]

(* URLs: what may stand before a repository's name, and what may follow.   *)
Beginnings ==
    {<<>>, <<"/">>, <<"host", ":">>, <<"host", ":", "org", "/">>,
     <<"https", "://", "host", "/">>, <<"https", "://", "host">>}
Tokens == {"fw", "/", ":", "?", " ", ".git"}
Ends == UNION {[1..n -> Tokens] : n \in 0..2}
Urls == {b \o e : b \in Beginnings, e \in Ends} \cup {b \o <<"fw">> \o e : b \in Beginnings, e \in Ends}

Git(url) == [jj |-> FALSE, jjUrl |-> None, gitUrl |-> url]
Jj(url) == [jj |-> TRUE, jjUrl |-> url, gitUrl |-> None]
Colocated(url) == [jj |-> TRUE, jjUrl |-> url, gitUrl |-> url]
Fw == <<"host", ":", "fw", ".git">>
Odd == <<"https", "://", "host">>

Run == <<"run", "user">>
Plain == [socketRoot |-> NoFlag, xdg |-> Run]
Crowd == [socketRoot |-> <<"srv", "crowd">>, xdg |-> Run]
Logins == {Plain, [socketRoot |-> <<"srv">>, xdg |-> Run], [socketRoot |-> NoFlag, xdg |-> NoFlag]}

With(env, o1, o2, arg) ==
    [login |-> env, origin |-> [r \in Repos |-> IF r = r1 THEN o1 ELSE o2],
     argument |-> [r \in Repos |-> arg]]

(* One repository with any URL or any environment; or two of one remote,   *)
(* with and without an argument.                                           *)
AllSetups ==
    {With(Plain, Git(u), NoOrigin, None) : u \in Urls}
      \cup {With(Plain, Jj(u), NoOrigin, None) : u \in Urls}
      \cup {With(env, Colocated(Fw), NoOrigin, None) : env \in Logins}
      \cup {With(Crowd, Git(Fw), Git(Fw), None), With(Crowd, Git(Odd), Git(Odd), <<"fw">>)}
Changes == {Git(<<"other">>)}
Arguments == {<<"other">>}
Roots == {<<"run", "user", "crossbridge">>, <<"srv">>}

(* Where there is one repository, one shell and one server at a time do;   *)
(* where there are two, shells and servers meet, with one root and one     *)
(* change.                                                                 *)
Bounded ==
    IF login = Crowd
    THEN supervisor = login /\ (changed[r1] = 0 \/ changed[r2] = 0)
    ELSE /\ Cardinality({s \in Shells : pc[s] # "out"}) <= 1
         /\ Cardinality(Process) <= 1
         /\ \A r \in Repos : changed[r] = 0

ServerSymmetry == Permutations(Servers) \cup Permutations(Shells)
=============================================================================
