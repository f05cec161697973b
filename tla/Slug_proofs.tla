------------------------------ MODULE Slug_proofs ------------------------------
(***************************************************************************)
(* Facts about the operators of Slug, for every string: what FirstOf and   *)
(* LastOf return, that all three parsers return strings, and that they     *)
(* agree on plain URLs.                                                    *)
(***************************************************************************)
EXTENDS Slug, SequenceTheorems, WellFoundedInduction, TLAPS

-----------------------------------------------------------------------------
(* Least and greatest indices *)

LEMMA LeastExists ==
    ASSUME NEW S \in SUBSET Nat, S # {}
    PROVE  \E x \in S : \A y \in S : x <= y
<1> DEFINE Less == {p \in Nat \X Nat : p[1] < p[2]}
<1>1. Less = OpToRel(<, Nat)
  BY DEF OpToRel
<1>2. IsWellFoundedOn(Less, Nat)
  BY <1>1, NatLessThanWellFounded
<1>3. \A x, y \in Nat : <<y, x>> \in Less <=> y < x
  OBVIOUS
<1> HIDE DEF Less
<1>4. PICK x \in S : \A y \in S : ~(<<y, x>> \in Less)
  BY <1>2, WFMin
<1>5. ASSUME NEW y \in S PROVE x <= y
  <2>1. x \in Nat /\ y \in Nat /\ ~(y < x)
    BY <1>3, <1>4
  <2>. QED  BY <2>1
<1>. QED  BY <1>5

LEMMA GreatestExists ==
    ASSUME NEW n \in Nat, NEW S \in SUBSET (1..n), S # {}
    PROVE  \E x \in S : \A y \in S : x >= y
<1> DEFINE T == {n - x : x \in S}
<1>1. T \in SUBSET Nat
  <2>1. \A x \in S : n - x \in Nat
    OBVIOUS
  <2>. QED  BY <2>1
<1>2. T # {}
  OBVIOUS
<1>3. \E t \in T : \A u \in T : t <= u
  <2> HIDE DEF T
  <2>. QED  BY <1>1, <1>2, LeastExists
<1>4. PICK x \in S : \A u \in T : n - x <= u
  BY <1>3
<1>5. ASSUME NEW y \in S PROVE x >= y
  <2>1. n - y \in T
    OBVIOUS
  <2>2. n - x <= n - y
    BY <1>4, <2>1
  <2>3. x \in Int /\ y \in Int
    OBVIOUS
  <2>. QED  BY <2>2, <2>3
<1>. QED  BY <1>5

(* FirstOf returns the least index of one of the tokens, or 0.             *)
LEMMA FirstOfFacts ==
    ASSUME NEW S, NEW s \in Seq(S), NEW tokens
    PROVE  LET i == FirstOf(s, tokens) IN
           /\ i \in 0..Len(s)
           /\ i = 0 => \A j \in 1..Len(s) : s[j] \notin tokens
           /\ i > 0 => s[i] \in tokens /\ \A j \in 1..(i - 1) : s[j] \notin tokens
<1> DEFINE I == {i \in 1..Len(s) : s[i] \in tokens}
<1>1. FirstOf(s, tokens) = IF I # {} THEN Min(I) ELSE 0
  BY DEF FirstOf, SelectInSeq
<1>2. I # {} => Min(I) \in I /\ \A y \in I : Min(I) <= y
  <2> SUFFICES ASSUME I # {} PROVE Min(I) \in I /\ \A y \in I : Min(I) <= y
    OBVIOUS
  <2>1. I \in SUBSET Nat
    OBVIOUS
  <2> HIDE DEF I
  <2>2. \E x \in I : \A y \in I : x <= y
    BY <2>1, LeastExists
  <2>. QED  BY <2>2 DEF Min
<1>3. CASE I = {}
  <2>1. \A j \in 1..Len(s) : s[j] \notin tokens
    BY <1>3
  <2>2. FirstOf(s, tokens) = 0 /\ Len(s) \in Nat
    BY <1>1, <1>3
  <2>. QED  BY <2>1, <2>2
<1>4. CASE I # {}
  <2>1. FirstOf(s, tokens) \in I /\ Len(s) \in Nat
    BY <1>1, <1>2, <1>4
  <2>2. \A j \in 1..Len(s) : s[j] \in tokens => FirstOf(s, tokens) <= j
    BY <1>1, <1>2, <1>4
  <2>. QED  BY <2>1, <2>2
<1>. QED  BY <1>3, <1>4

(* LastOf returns the greatest one, or 0. *)
LEMMA LastOfFacts ==
    ASSUME NEW S, NEW s \in Seq(S), NEW tokens
    PROVE  LET i == LastOf(s, tokens) IN
           /\ i \in 0..Len(s)
           /\ i = 0 => \A j \in 1..Len(s) : s[j] \notin tokens
           /\ i > 0 => s[i] \in tokens /\ \A j \in (i + 1)..Len(s) : s[j] \notin tokens
<1> DEFINE I == {i \in 1..Len(s) : s[i] \in tokens}
<1>1. LastOf(s, tokens) = IF I # {} THEN Max(I) ELSE 0
  BY DEF LastOf, SelectLastInSeq
<1>2. I # {} => Max(I) \in I /\ \A y \in I : Max(I) >= y
  <2> SUFFICES ASSUME I # {} PROVE Max(I) \in I /\ \A y \in I : Max(I) >= y
    OBVIOUS
  <2>1. I \in SUBSET (1..Len(s)) /\ Len(s) \in Nat
    OBVIOUS
  <2> HIDE DEF I
  <2>2. \E x \in I : \A y \in I : x >= y
    BY <2>1, GreatestExists
  <2>. QED  BY <2>2 DEF Max
<1>3. CASE I = {}
  <2>1. \A j \in 1..Len(s) : s[j] \notin tokens
    BY <1>3
  <2>2. LastOf(s, tokens) = 0 /\ Len(s) \in Nat
    BY <1>1, <1>3
  <2>. QED  BY <2>1, <2>2
<1>4. CASE I # {}
  <2>1. LastOf(s, tokens) \in I /\ Len(s) \in Nat
    BY <1>1, <1>2, <1>4
  <2>2. \A j \in 1..Len(s) : s[j] \in tokens => LastOf(s, tokens) >= j
    BY <1>1, <1>2, <1>4
  <2>. QED  BY <2>1, <2>2
<1>. QED  BY <1>3, <1>4

(* TrimEnd drops a suffix of one token: it keeps what ends in another one. *)
LEMMA TrimEndFacts ==
    ASSUME NEW S, NEW s \in Seq(S), NEW token
    PROVE  /\ TrimEnd(s, token) \in Seq(S)
           /\ Len(TrimEnd(s, token)) <= Len(s)
           /\ s # <<>> /\ Last(s) # token => TrimEnd(s, token) = s
<1> DEFINE I == {i \in 1..Len(s) : s[i] # token}
           m == IF I # {} THEN Max(I) ELSE 0
<1>1. TrimEnd(s, token) = SubSeq(s, 1, m)
  BY DEF TrimEnd, SelectLastInSeq
<1>2. I # {} => Max(I) \in I /\ \A y \in I : Max(I) >= y
  <2> SUFFICES ASSUME I # {} PROVE Max(I) \in I /\ \A y \in I : Max(I) >= y
    OBVIOUS
  <2>1. I \in SUBSET (1..Len(s)) /\ Len(s) \in Nat
    OBVIOUS
  <2> HIDE DEF I
  <2>2. \E x \in I : \A y \in I : x >= y
    BY <2>1, GreatestExists
  <2>. QED  BY <2>2 DEF Max
<1>3. m \in 0..Len(s)
  BY <1>2
<1>4. SubSeq(s, 1, m) \in Seq(S) /\ Len(SubSeq(s, 1, m)) <= Len(s)
  <2> HIDE DEF m
  <2>1. \A i \in 1..m : s[i] \in S
    BY <1>3
  <2>. QED  BY <1>3, <2>1, SubSeqProperties
<1>5. ASSUME s # <<>>, Last(s) # token PROVE SubSeq(s, 1, m) = s
  <2>1. Len(s) \in I
    BY <1>5 DEF Last
  <2>2. m = Len(s)
    BY <1>2, <2>1
  <2> HIDE DEF m
  <2>. QED  BY <2>2, SubSeqFull
<1>. QED  BY <1>1, <1>4, <1>5

-----------------------------------------------------------------------------
(* Pieces of strings *)

LEMMA AfterFacts ==
    ASSUME NEW S, NEW s \in Seq(S), NEW i \in 0..Len(s)
    PROVE  /\ After(s, i) \in Seq(S)
           /\ Len(After(s, i)) = Len(s) - i
           /\ \A j \in 1..(Len(s) - i) : After(s, i)[j] = s[i + j]
<1>1. \A j \in (i + 1)..Len(s) : s[j] \in S
  OBVIOUS
<1>2. i + 1 \in Int /\ Len(s) \in Int
  OBVIOUS
<1>3. /\ SubSeq(s, i + 1, Len(s)) \in Seq(S)
      /\ Len(SubSeq(s, i + 1, Len(s))) = IF i + 1 <= Len(s) THEN Len(s) - (i + 1) + 1 ELSE 0
      /\ \A j \in 1..(Len(s) - (i + 1) + 1) :
           SubSeq(s, i + 1, Len(s))[j] = s[(i + 1) + j - 1]
  BY <1>1, <1>2, SubSeqProperties
<1>. QED  BY <1>2, <1>3 DEF After

LEMMA AfterAfter ==
    ASSUME NEW S, NEW s \in Seq(S), NEW i \in 0..Len(s), NEW j \in 0..(Len(s) - i)
    PROVE  After(After(s, i), j) = After(s, i + j)
<1>1. /\ After(s, i) \in Seq(S)
      /\ Len(After(s, i)) = Len(s) - i
      /\ \A k \in 1..(Len(s) - i) : After(s, i)[k] = s[i + k]
  BY AfterFacts
<1>2. /\ After(After(s, i), j) \in Seq(S)
      /\ Len(After(After(s, i), j)) = (Len(s) - i) - j
      /\ \A k \in 1..((Len(s) - i) - j) : After(After(s, i), j)[k] = After(s, i)[j + k]
  <2> DEFINE t == After(s, i)
  <2>1. t \in Seq(S) /\ j \in 0..Len(t)
    BY <1>1
  <2> HIDE DEF t
  <2>2. /\ After(t, j) \in Seq(S)
        /\ Len(After(t, j)) = Len(t) - j
        /\ \A k \in 1..(Len(t) - j) : After(t, j)[k] = t[j + k]
    BY <2>1, AfterFacts
  <2>. QED  BY <1>1, <2>2 DEF t
<1>3. i + j \in 0..Len(s) /\ Len(s) \in Nat /\ i \in Nat /\ j \in Nat
  OBVIOUS
<1>4. /\ After(s, i + j) \in Seq(S)
      /\ Len(After(s, i + j)) = Len(s) - (i + j)
      /\ \A k \in 1..(Len(s) - (i + j)) : After(s, i + j)[k] = s[(i + j) + k]
  BY <1>3, AfterFacts
<1>5. Len(After(After(s, i), j)) = Len(After(s, i + j))
  <2>1. ASSUME NEW n \in Nat PROVE (n - i) - j = n - (i + j)
    BY <1>3
  <2>2. (Len(s) - i) - j = Len(s) - (i + j)
    BY <1>3, <2>1
  <2>. QED  BY <1>2, <1>4, <2>2
<1>6. ASSUME NEW k \in 1..Len(After(s, i + j))
      PROVE  After(After(s, i), j)[k] = After(s, i + j)[k]
  <2>1. k \in 1..(Len(s) - (i + j)) /\ k \in 1..((Len(s) - i) - j) /\ j + k \in 1..(Len(s) - i)
    BY <1>3, <1>4
  <2>2. After(After(s, i), j)[k] = s[i + (j + k)]
    BY <1>1, <1>2, <2>1
  <2>3. After(s, i + j)[k] = s[(i + j) + k]
    BY <1>4, <2>1
  <2>. QED  BY <2>1, <2>2, <2>3
<1>. QED  BY <1>2, <1>4, <1>5, <1>6, SeqEqual

LEMMA UpToType ==
    ASSUME NEW S, NEW s \in Seq(S), NEW i \in 0..Len(s)
    PROVE  UpTo(s, i) \in Seq(S)
<1>1. \A j \in 1..(i - 1) : s[j] \in S
  OBVIOUS
<1>2. SubSeq(s, 1, i - 1) \in Seq(S)
  BY <1>1, SubSeqProperties
<1>. QED  BY <1>2 DEF UpTo

LEMMA LastSegmentType ==
    ASSUME NEW S, NEW s \in Seq(S), NEW separators
    PROVE  LastSegment(s, separators) \in Seq(S)
<1>1. LastOf(s, separators) \in 0..Len(s)
  BY LastOfFacts
<1>. QED  BY <1>1, AfterFacts DEF LastSegment

LEMMA ReverseFacts ==
    ASSUME NEW S, NEW s \in Seq(S)
    PROVE  /\ Reverse(s) \in Seq(S) /\ Len(Reverse(s)) = Len(s)
           /\ \A i \in 1..Len(s) : Reverse(s)[i] = s[(Len(s) - i) + 1]
<1>1. \A i \in 1..Len(s) : s[(Len(s) - i) + 1] \in S
  OBVIOUS
<1>. QED  BY <1>1 DEF Reverse

LEMMA ReverseTwice ==
    ASSUME NEW S, NEW s \in Seq(S)
    PROVE  Reverse(Reverse(s)) = s
<1> DEFINE t == Reverse(s)
<1>1. t \in Seq(S) /\ Len(t) = Len(s) /\ \A i \in 1..Len(s) : t[i] = s[(Len(s) - i) + 1]
  BY ReverseFacts
<1> HIDE DEF t
<1>2. Reverse(t) \in Seq(S) /\ Len(Reverse(t)) = Len(t)
      /\ \A i \in 1..Len(t) : Reverse(t)[i] = t[(Len(t) - i) + 1]
  BY <1>1, ReverseFacts
<1>3. ASSUME NEW i \in 1..Len(s) PROVE Reverse(t)[i] = s[i]
  <2>1. (Len(t) - i) + 1 \in 1..Len(s) /\ (Len(s) - ((Len(t) - i) + 1)) + 1 = i
    BY <1>1
  <2>. QED  BY <1>1, <1>2, <2>1
<1>4. Reverse(t) = s
  BY <1>1, <1>2, <1>3, SeqEqual
<1>. QED  BY <1>4 DEF t

LEMMA TrimType ==
    ASSUME NEW S, NEW s \in Seq(S)
    PROVE  Trim(s) \in Seq(S)
<1>1. TrimEnd(s, Blank) \in Seq(S)
  BY TrimEndFacts
<1>2. Reverse(TrimEnd(s, Blank)) \in Seq(S)
  BY <1>1, ReverseFacts
<1>3. TrimEnd(Reverse(TrimEnd(s, Blank)), Blank) \in Seq(S)
  BY <1>2, TrimEndFacts
<1>. QED  BY <1>3, ReverseFacts DEF Trim

(* A string without blanks is trimmed already. *)
LEMMA TrimWithoutBlank ==
    ASSUME NEW S, NEW s \in Seq(S), \A i \in 1..Len(s) : s[i] # Blank
    PROVE  Trim(s) = s
<1>1. ASSUME NEW t \in Seq(S), \A i \in 1..Len(t) : t[i] # Blank
      PROVE  TrimEnd(t, Blank) = t
  <2>1. CASE t = <<>>
    <3>1. TrimEnd(t, Blank) \in Seq(S) /\ Len(TrimEnd(t, Blank)) <= Len(t)
      BY TrimEndFacts
    <3>2. Len(TrimEnd(t, Blank)) = 0
      <4>1. Len(TrimEnd(t, Blank)) \in Nat /\ Len(t) = 0
        BY <2>1, <3>1, LenProperties, EmptySeq
      <4>. QED  BY <3>1, <4>1
    <3>. QED  BY <2>1, <3>1, <3>2, EmptySeq
  <2>2. CASE t # <<>>
    <3>1. Len(t) \in 1..Len(t)
      <4>1. Len(t) \in Nat \ {0}
        BY <1>1, <2>2, EmptySeq
      <4>. QED  BY <4>1
    <3>2. Last(t) # Blank
      BY <1>1, <3>1 DEF Last
    <3>. QED  BY <1>1, <2>2, <3>2, TrimEndFacts
  <2>. QED  BY <2>1, <2>2
<1>2. TrimEnd(s, Blank) = s
  BY <1>1
<1>3. Reverse(s) \in Seq(S) /\ Len(Reverse(s)) = Len(s)
      /\ \A i \in 1..Len(s) : Reverse(s)[i] = s[(Len(s) - i) + 1]
  BY ReverseFacts
<1>4. ASSUME NEW i \in 1..Len(Reverse(s)) PROVE Reverse(s)[i] # Blank
  <2>1. Len(s) \in Nat /\ i \in 1..Len(s)
    BY <1>3, LenProperties
  <2>2. (Len(s) - i) + 1 \in 1..Len(s)
    BY <2>1
  <2>. QED  BY <1>3, <2>1, <2>2
<1>5. TrimEnd(Reverse(s), Blank) = Reverse(s)
  BY <1>1, <1>3, <1>4
<1>. QED  BY <1>2, <1>5, ReverseTwice DEF Trim

LEMMA StripGitType ==
    ASSUME NEW S, NEW s \in Seq(S)
    PROVE  /\ StripGit(s) \in Seq(S) /\ Len(StripGit(s)) <= Len(s)
           /\ \A i \in 1..Len(StripGit(s)) : StripGit(s)[i] = s[i]
<1>1. CASE s # None
  <2>1. Len(s) \in Nat \ {0}
    BY <1>1, EmptySeq DEF None
  <2>2. \A i \in 1..(Len(s) - 1) : s[i] \in S
    OBVIOUS
  <2>3. /\ SubSeq(s, 1, Len(s) - 1) \in Seq(S)
        /\ Len(SubSeq(s, 1, Len(s) - 1)) = IF 1 <= Len(s) - 1 THEN (Len(s) - 1) - 1 + 1 ELSE 0
        /\ \A i \in 1..((Len(s) - 1) - 1 + 1) : SubSeq(s, 1, Len(s) - 1)[i] = s[1 + i - 1]
    BY <2>1, <2>2, SubSeqProperties
  <2>4. ASSUME NEW n \in Nat \ {0}
        PROVE  /\ (n - 1) - 1 + 1 = n - 1
               /\ (IF 1 <= n - 1 THEN (n - 1) - 1 + 1 ELSE 0) = n - 1
               /\ \A i \in 1..(n - 1) : 1 + i - 1 = i
    OBVIOUS
  <2>5. /\ Front(s) \in Seq(S) /\ Len(Front(s)) = Len(s) - 1
        /\ \A i \in 1..(Len(s) - 1) : Front(s)[i] = s[i]
    BY <2>1, <2>3, <2>4 DEF Front
  <2>. QED  BY <2>1, <2>5 DEF StripGit
<1>2. CASE s = None
  BY <1>2 DEF StripGit
<1>. QED  BY <1>1, <1>2

-----------------------------------------------------------------------------
(* The parsers return strings *)

LEMMA PathPartType ==
    ASSUME NEW S, NEW url \in Seq(S)
    PROVE  PathPart(url) \in Seq(S)
<1> DEFINE scheme == FirstOf(url, {"://"})
           rest == After(url, scheme)
           path == IF scheme > 0 THEN After(rest, FirstOf(rest, {"/"}))
                   ELSE After(url, FirstOf(url, {":"}))
<1>1. rest \in Seq(S)
  <2>1. scheme \in 0..Len(url)
    BY FirstOfFacts
  <2>. QED  BY <2>1, AfterFacts
<1>2. After(rest, FirstOf(rest, {"/"})) \in Seq(S)
  <2> HIDE DEF rest
  <2>1. FirstOf(rest, {"/"}) \in 0..Len(rest)
    BY <1>1, FirstOfFacts
  <2>. QED  BY <1>1, <2>1, AfterFacts
<1>3. After(url, FirstOf(url, {":"})) \in Seq(S)
  <2>1. FirstOf(url, {":"}) \in 0..Len(url)
    BY FirstOfFacts
  <2>. QED  BY <2>1, AfterFacts
<1>4. path \in Seq(S)
  BY <1>2, <1>3
<1>5. PathPart(url) = UpTo(path, FirstOf(path, {"?", "#"}))
  BY DEF PathPart
<1> HIDE DEF path
<1>6. FirstOf(path, {"?", "#"}) \in 0..Len(path)
  BY <1>4, FirstOfFacts
<1>. QED  BY <1>4, <1>5, <1>6, UpToType

LEMMA ShellParseType ==
    ASSUME NEW S, NEW url \in Seq(S)
    PROVE  ShellParse(url) \in Seq(S)
<1> DEFINE path == PathPart(url)
           cut == IF path # None /\ Last(path) = "/" THEN Front(path) ELSE path
<1>1. path \in Seq(S)
  BY PathPartType
<1>2. cut \in Seq(S)
  <2> HIDE DEF path
  <2>1. ASSUME path # None PROVE Front(path) \in Seq(S)
    <3>1. Len(path) \in Nat \ {0}
      BY <1>1, <2>1, EmptySeq DEF None
    <3>2. \A i \in 1..(Len(path) - 1) : path[i] \in S
      BY <1>1
    <3>. QED  BY <3>1, <3>2, SubSeqProperties DEF Front
  <2>. QED  BY <1>1, <2>1
<1>3. ShellParse(url) = StripGit(LastSegment(cut, {"/"}))
  BY DEF ShellParse
<1> HIDE DEF cut
<1>4. LastSegment(cut, {"/"}) \in Seq(S)
  BY <1>2, LastSegmentType
<1>. QED  BY <1>3, <1>4, StripGitType

LEMMA FirstWordType ==
    ASSUME NEW S, NEW s \in Seq(S)
    PROVE  FirstWord(s) \in Seq(S)
<1> DEFINE t == Trim(s)
<1>1. t \in Seq(S)
  BY TrimType
<1>2. FirstWord(s) = UpTo(t, FirstOf(t, {Blank}))
  BY DEF FirstWord
<1> HIDE DEF t
<1>3. FirstOf(t, {Blank}) \in 0..Len(t)
  BY <1>1, FirstOfFacts
<1>. QED  BY <1>1, <1>2, <1>3, UpToType

(* The slug that the shell exports is a string. *)
LEMMA ShellSlugType ==
    ASSUME NEW S, NEW arg \in Seq(S), NEW cfg \in Configurations(S)
    PROVE  ShellSlug(arg, cfg) \in Seq(S)
<1>1. cfg.jjUrl \in Seq(S) /\ cfg.gitUrl \in Seq(S)
  BY DEF Configurations
<1>2. FirstWord(cfg.jjUrl) \in Seq(S) /\ Trim(cfg.gitUrl) \in Seq(S)
  BY <1>1, FirstWordType, TrimType
<1>3. ClientOriginUrl(cfg) \in Seq(S)
  BY <1>2 DEF ClientOriginUrl
<1>4. ShellParse(ClientOriginUrl(cfg)) \in Seq(S)
  BY <1>3, ShellParseType
<1>. QED  BY <1>4 DEF ShellSlug

-----------------------------------------------------------------------------
(* Plain URLs *)

Separators == {"/", ":", "://"}

(* What IsPlain says of the indices of a URL. *)
LEMMA PlainFacts ==
    ASSUME NEW url \in Seq(STRING), IsPlain(url)
    PROVE  /\ Len(url) \in Nat \ {0}
           /\ url[Len(url)] # "/"
           /\ \A i \in 1..Len(url) : url[i] \notin {Blank, "?", "#"}
           /\ \A i, j \in 1..Len(url) : url[i] = "://" /\ url[j] = "://" => i = j
           /\ (\E k \in 1..Len(url) : url[k] = "://") => ~HasNoPath(url)
           /\ (\E k \in 1..Len(url) : url[k] = "://") =>
                \A i \in 1..Len(LastSegment(url, {"/"})) : LastSegment(url, {"/"})[i] # ":"
           /\ (\A k \in 1..Len(url) : url[k] # "://") =>
                \A i, j \in 1..Len(url) : url[i] = ":" /\ url[j] = ":" => i = j
<1>1. Len(url) \in Nat \ {0} /\ DOMAIN url = 1..Len(url)
  BY EmptySeq, LenProperties DEF IsPlain, None
<1>2. \A i \in 1..Len(url) : url[i] # Blank /\ url[i] # "?" /\ url[i] # "#"
  BY DEF IsPlain, Contains
<1>3. \A i, j \in 1..Len(url) : url[i] = "://" /\ url[j] = "://" => i = j
  BY <1>1 DEF IsPlain, AtMostOne
<1>4. ASSUME NEW k \in 1..Len(url), url[k] = "://"
      PROVE  ~HasNoPath(url) /\ ~Contains(LastSegment(url, {"/"}), ":")
  BY <1>4 DEF IsPlain, Contains
<1>5. (\A k \in 1..Len(url) : url[k] # "://") => AtMostOne(url, ":")
  BY DEF IsPlain, Contains
<1>6. url[Len(url)] # "/"
  BY DEF IsPlain, Last
<1>7. (\E k \in 1..Len(url) : url[k] = "://") => ~HasNoPath(url)
  BY <1>4
<1>8. (\E k \in 1..Len(url) : url[k] = "://") =>
         \A i \in 1..Len(LastSegment(url, {"/"})) : LastSegment(url, {"/"})[i] # ":"
  BY <1>4 DEF Contains
<1>9. (\A k \in 1..Len(url) : url[k] # "://") =>
         \A i, j \in 1..Len(url) : url[i] = ":" /\ url[j] = ":" => i = j
  BY <1>1, <1>5 DEF AtMostOne
<1>. QED  BY <1>1, <1>2, <1>3, <1>6, <1>7, <1>8, <1>9

LEMMA NoQuery ==
    ASSUME NEW url \in Seq(STRING), NEW p \in 0..Len(url),
           \A i \in 1..Len(url) : url[i] \notin {"?", "#"}
    PROVE  UpTo(After(url, p), FirstOf(After(url, p), {"?", "#"})) = After(url, p)
<1> DEFINE path == After(url, p)
<1>1. path \in Seq(STRING) /\ Len(path) = Len(url) - p
      /\ \A j \in 1..(Len(url) - p) : path[j] = url[p + j]
  BY AfterFacts
<1> HIDE DEF path
<1>2. ASSUME NEW j \in 1..Len(path) PROVE path[j] \notin {"?", "#"}
  <2>1. Len(url) \in Nat /\ p \in Nat
    BY LenProperties
  <2>2. p + j \in 1..Len(url) /\ j \in 1..(Len(url) - p)
    BY <1>1, <2>1
  <2>. QED  BY <1>1, <2>2
<1>3. FirstOf(path, {"?", "#"}) = 0
  <2> DEFINE i == FirstOf(path, {"?", "#"})
  <2>1. i \in 0..Len(path) /\ (i > 0 => path[i] \in {"?", "#"})
    BY <1>1, FirstOfFacts
  <2> HIDE DEF i
  <2>2. i = 0
    <3>1. ASSUME i > 0 PROVE FALSE
      <4>1. Len(path) \in Nat
        BY <1>1, LenProperties
      <4>2. i \in 1..Len(path)
        BY <2>1, <3>1, <4>1
      <4>. QED  BY <1>2, <2>1, <3>1, <4>2
    <3>2. i \in Nat
      BY <1>1, <2>1, LenProperties
    <3>. QED  BY <3>1, <3>2
  <2>. QED  BY <2>2 DEF i
<1>4. UpTo(path, FirstOf(path, {"?", "#"})) = path
  BY <1>3 DEF UpTo
<1>. QED  BY <1>4 DEF path

(* Where the path begins: p is the index before it.  After p there is no   *)
(* separator but slashes, unless a slash follows it.                       *)
LEMMA PlainPath ==
    ASSUME NEW url \in Seq(STRING), IsPlain(url)
    PROVE  \E p \in 0..Len(url) :
             /\ PathPart(url) = After(url, p)
             /\ p > 0 => url[p] \in Separators
             /\ p = 0 => \A i \in 1..Len(url) : url[i] \notin {":", "://"}
             /\ \A i \in 1..Len(url) :
                  i > p /\ url[i] \in {":", "://"} => \E j \in 1..Len(url) : j > i /\ url[j] = "/"
<1> DEFINE scheme == FirstOf(url, {"://"})
           rest == After(url, scheme)
           path == IF scheme > 0 THEN After(rest, FirstOf(rest, {"/"}))
                   ELSE After(url, FirstOf(url, {":"}))
<1>1. PathPart(url) = UpTo(path, FirstOf(path, {"?", "#"}))
  BY DEF PathPart
<1>2. Len(url) \in Nat /\ \A i \in 1..Len(url) : url[i] \notin {"?", "#"}
  BY PlainFacts
<1>3. ASSUME NEW p \in 0..Len(url), path = After(url, p) PROVE PathPart(url) = After(url, p)
  BY <1>1, <1>2, <1>3, NoQuery
<1>4. /\ scheme \in 0..Len(url)
      /\ scheme = 0 => \A j \in 1..Len(url) : url[j] \notin {"://"}
      /\ scheme > 0 => url[scheme] \in {"://"}
  BY FirstOfFacts
<1>5. CASE scheme = 0
  <2> DEFINE p == FirstOf(url, {":"})
  <2>1. /\ p \in 0..Len(url)
        /\ p = 0 => \A j \in 1..Len(url) : url[j] \notin {":"}
        /\ p > 0 => url[p] \in {":"}
    BY FirstOfFacts
  <2>2. path = After(url, p)
    BY <1>5
  <2>3. PathPart(url) = After(url, p)
    BY <1>3, <2>1, <2>2
  <2> HIDE DEF p
  <2>4. \A k \in 1..Len(url) : url[k] # "://"
    BY <1>4, <1>5
  <2>5. \A i, j \in 1..Len(url) : url[i] = ":" /\ url[j] = ":" => i = j
    BY <2>4, PlainFacts
  <2>6. ASSUME NEW i \in 1..Len(url), i > p PROVE url[i] # ":"
    <3>1. CASE p = 0
      BY <2>1, <3>1
    <3>2. CASE p > 0
      <4>1. p \in 1..Len(url) /\ url[p] = ":" /\ i # p
        BY <1>2, <2>1, <2>6, <3>2
      <4>. QED  BY <2>5, <4>1
    <3>. QED  BY <1>2, <2>1, <3>1, <3>2
  <2>7. p = 0 => \A i \in 1..Len(url) : url[i] \notin {":", "://"}
    BY <2>1, <2>4
  <2>8. \A i \in 1..Len(url) : i > p => url[i] \notin {":", "://"}
    BY <2>4, <2>6
  <2>9. p > 0 => url[p] \in Separators
    BY <2>1 DEF Separators
  <2>. QED  BY <2>1, <2>3, <2>7, <2>8, <2>9
<1>6. CASE scheme > 0
  <2> DEFINE q == FirstOf(rest, {"/"})
             p == scheme + q
  <2>1. rest \in Seq(STRING) /\ Len(rest) = Len(url) - scheme
        /\ \A j \in 1..(Len(url) - scheme) : rest[j] = url[scheme + j]
    BY <1>4, AfterFacts
  <2>2. scheme \in 1..Len(url) /\ url[scheme] = "://"
    BY <1>2, <1>4, <1>6
  <2>3. ~HasNoPath(url)
    BY <2>2, PlainFacts
  <2>4. q # 0
    BY <1>6, <2>3 DEF HasNoPath
  <2>5. q \in 0..Len(rest) /\ (q > 0 => rest[q] \in {"/"})
    <3> HIDE DEF rest
    <3>. QED  BY <2>1, FirstOfFacts
  <2>6. path = After(After(url, scheme), q)
    BY <1>6
  <2> HIDE DEF scheme, rest, q
  <2>7. q \in 1..(Len(url) - scheme) /\ q \in 0..(Len(url) - scheme)
    <3>1. Len(url) - scheme \in Nat
      BY <1>2, <2>2
    <3>. QED  BY <2>1, <2>4, <2>5, <3>1
  <2>8. p \in 1..Len(url) /\ p > scheme
    BY <1>2, <2>2, <2>7
  <2>9. url[p] = "/"
    BY <2>1, <2>5, <2>7
  <2>10. path = After(url, p)
    BY <1>4, <2>6, <2>7, AfterAfter
  <2>11. PathPart(url) = After(url, p)
    <3>1. p \in 0..Len(url)
      BY <2>8
    <3> HIDE DEF p, path
    <3>. QED  BY <1>3, <2>10, <3>1
  <2> HIDE DEF p
  <2>12. ASSUME NEW i \in 1..Len(url), i > p, url[i] \in {":", "://"}
         PROVE  \E j \in 1..Len(url) : j > i /\ url[j] = "/"
    <3> DEFINE l == LastOf(url, {"/"})
    <3>1. /\ l \in 0..Len(url)
          /\ l = 0 => \A j \in 1..Len(url) : url[j] \notin {"/"}
          /\ l > 0 => url[l] \in {"/"} /\ \A j \in (l + 1)..Len(url) : url[j] \notin {"/"}
      BY LastOfFacts
    <3>2. LastSegment(url, {"/"}) = After(url, l)
      BY DEF LastSegment
    <3> HIDE DEF l
    <3>3. l > 0 /\ url[l] = "/"
      <4>1. l # 0
        BY <2>8, <2>9, <3>1
      <4>2. l \in Nat
        BY <1>2, <3>1
      <4>. QED  BY <3>1, <4>1, <4>2
    <3>4. url[i] = ":"
      <4>1. url[i] = "://" => i = scheme
        BY <2>2, PlainFacts
      <4>2. i # scheme
        BY <1>2, <2>2, <2>8, <2>12
      <4>. QED  BY <2>12, <4>1, <4>2
    <3>5. ASSUME l < i PROVE FALSE
      <4>1. /\ Len(After(url, l)) = Len(url) - l
            /\ \A j \in 1..(Len(url) - l) : After(url, l)[j] = url[l + j]
        BY <3>1, AfterFacts
      <4>2. i - l \in 1..(Len(url) - l) /\ l + (i - l) = i
        BY <1>2, <3>1, <3>5
      <4>3. After(url, l)[i - l] = ":"
        BY <3>4, <4>1, <4>2
      <4>4. \A j \in 1..Len(After(url, l)) : After(url, l)[j] # ":"
        BY <2>2, <3>2, PlainFacts
      <4>. QED  BY <4>1, <4>2, <4>3, <4>4
    <3>6. l # i
      BY <3>3, <3>4
    <3>7. l > i /\ l \in 1..Len(url)
      BY <1>2, <3>1, <3>3, <3>5, <3>6
    <3>. QED  BY <3>3, <3>7
  <2>13. p \in 0..Len(url) /\ url[p] \in Separators /\ p # 0
    BY <2>8, <2>9 DEF Separators
  <2>. QED  BY <2>11, <2>12, <2>13
<1>7. scheme = 0 \/ scheme > 0
  BY <1>2, <1>4
<1>. QED  BY <1>5, <1>6, <1>7

(* The last segment of the path is what follows the last separator.        *)
LEMMA PlainSegment ==
    ASSUME NEW url \in Seq(STRING), IsPlain(url)
    PROVE  LastSegment(PathPart(url), {"/"}) = LastSegment(url, Separators)
<1>1. PICK p \in 0..Len(url) :
             /\ PathPart(url) = After(url, p)
             /\ p > 0 => url[p] \in Separators
             /\ p = 0 => \A i \in 1..Len(url) : url[i] \notin {":", "://"}
             /\ \A i \in 1..Len(url) :
                  i > p /\ url[i] \in {":", "://"} => \E j \in 1..Len(url) : j > i /\ url[j] = "/"
  BY PlainPath
<1> DEFINE path == After(url, p)
           l == LastOf(path, {"/"})
           c == LastOf(url, Separators)
<1>2. Len(url) \in Nat /\ p \in Nat /\ p <= Len(url)
  BY LenProperties
<1>3. path \in Seq(STRING) /\ Len(path) = Len(url) - p
      /\ \A j \in 1..(Len(url) - p) : path[j] = url[p + j]
  BY AfterFacts
<1>4. /\ c \in 0..Len(url)
      /\ c = 0 => \A j \in 1..Len(url) : url[j] \notin Separators
      /\ c > 0 => url[c] \in Separators /\ \A j \in (c + 1)..Len(url) : url[j] \notin Separators
  BY LastOfFacts
<1>5. LastSegment(PathPart(url), {"/"}) = After(path, l) /\ LastSegment(url, Separators) = After(url, c)
  BY <1>1 DEF LastSegment
<1> HIDE DEF path, c
<1>6. /\ l \in 0..Len(path)
      /\ l = 0 => \A j \in 1..Len(path) : path[j] \notin {"/"}
      /\ l > 0 => path[l] \in {"/"} /\ \A j \in (l + 1)..Len(path) : path[j] \notin {"/"}
  BY <1>3, LastOfFacts
<1> HIDE DEF l
<1>7. l \in 0..(Len(url) - p) /\ l \in Nat
  BY <1>2, <1>3, <1>6
<1>8. ASSUME NEW i \in 1..Len(url), i > p + l PROVE url[i] # "/"
  <2>1. i - p \in 1..(Len(url) - p) /\ p + (i - p) = i /\ i - p > l
    BY <1>2, <1>7, <1>8
  <2>2. path[i - p] = url[i]
    BY <1>3, <2>1
  <2>3. CASE l = 0
    BY <1>3, <1>6, <2>1, <2>2, <2>3
  <2>4. CASE l > 0
    <3>1. i - p \in (l + 1)..Len(path)
      BY <1>2, <1>3, <1>7, <2>1
    <3>. QED  BY <1>6, <2>2, <2>4, <3>1
  <2>. QED  BY <1>7, <2>3, <2>4
<1>9. ASSUME NEW i \in 1..Len(url), i > p + l PROVE url[i] \notin Separators
  <2>1. url[i] \in {":", "://"} => \E j \in 1..Len(url) : j > i /\ url[j] = "/"
    <3>1. i > p
      BY <1>2, <1>7, <1>9
    <3>. QED  BY <1>1, <3>1
  <2>2. \A j \in 1..Len(url) : j > i => url[j] # "/"
    BY <1>2, <1>7, <1>8, <1>9
  <2>. QED  BY <1>8, <1>9, <2>1, <2>2 DEF Separators
<1>10. p + l > 0 => url[p + l] \in Separators
  <2>1. CASE l = 0
    BY <1>1, <1>2, <2>1
  <2>2. CASE l > 0
    <3>1. l \in 1..(Len(url) - p)
      BY <1>2, <1>7, <2>2
    <3>2. url[p + l] = "/"
      BY <1>3, <1>6, <2>2, <3>1
    <3>. QED  BY <3>2 DEF Separators
  <2>. QED  BY <1>7, <2>1, <2>2
<1>11. c = p + l
  <2>1. p + l \in 0..Len(url) /\ c \in Nat /\ c <= Len(url)
    BY <1>2, <1>4, <1>7
  <2>2. ASSUME c < p + l PROVE FALSE
    <3>1. p + l > 0 /\ p + l \in 1..Len(url) /\ p + l \in (c + 1)..Len(url)
      BY <1>2, <1>7, <2>1, <2>2
    <3>2. CASE c = 0
      BY <1>4, <1>10, <3>1, <3>2
    <3>3. CASE c > 0
      BY <1>4, <1>10, <3>1, <3>3
    <3>. QED  BY <2>1, <3>2, <3>3
  <2>3. ASSUME c > p + l PROVE FALSE
    <3>1. c \in 1..Len(url) /\ c > 0
      BY <1>2, <1>7, <2>1, <2>3
    <3>. QED  BY <1>4, <1>9, <2>3, <3>1
  <2>. QED  BY <1>2, <1>7, <2>1, <2>2, <2>3
<1>12. After(path, l) = After(url, p + l)
  BY <1>7, AfterAfter DEF path
<1>. QED  BY <1>5, <1>11, <1>12

(* The three parsers return the same slug, which has no blanks.            *)
LEMMA PlainParse ==
    ASSUME NEW url \in Seq(STRING), IsPlain(url)
    PROVE  /\ parse_slug(url) = parse_origin_url(url)
           /\ ShellParse(url) = parse_origin_url(url)
           /\ Trim(parse_origin_url(url)) = parse_origin_url(url)
<1> DEFINE path == PathPart(url)
           last == LastSegment(url, Separators)
<1>1. path \in Seq(STRING)
  BY PathPartType
<1>2. /\ last \in Seq(STRING)
      /\ \A i \in 1..Len(last) : last[i] # Blank
  <2> DEFINE c == LastOf(url, Separators)
  <2>1. c \in 0..Len(url)
    BY LastOfFacts
  <2>2. last = After(url, c)
    BY DEF LastSegment
  <2> HIDE DEF c, last
  <2>3. /\ After(url, c) \in Seq(STRING) /\ Len(After(url, c)) = Len(url) - c
        /\ \A j \in 1..(Len(url) - c) : After(url, c)[j] = url[c + j]
    BY <2>1, AfterFacts
  <2>4. ASSUME NEW i \in 1..Len(last) PROVE last[i] # Blank
    <3>1. Len(url) \in Nat /\ c \in Nat /\ i \in 1..(Len(url) - c)
      BY <2>1, <2>2, <2>3, LenProperties
    <3>2. c + i \in 1..Len(url)
      BY <3>1
    <3>3. last[i] = url[c + i]
      BY <2>2, <2>3, <3>1
    <3>. QED  BY <3>2, <3>3, PlainFacts
  <2>. QED  BY <2>2, <2>3, <2>4
<1>3. LastSegment(path, {"/"}) = last
  BY PlainSegment
<1>4. path = <<>> \/ Last(path) # "/"
  <2>1. PICK p \in 0..Len(url) : path = After(url, p)
    BY PlainPath
  <2>2. /\ Len(path) = Len(url) - p
        /\ \A j \in 1..(Len(url) - p) : path[j] = url[p + j]
    <3>1. /\ Len(After(url, p)) = Len(url) - p
          /\ \A j \in 1..(Len(url) - p) : After(url, p)[j] = url[p + j]
      BY AfterFacts
    <3>. QED  BY <2>1, <3>1
  <2> HIDE DEF path
  <2>3. CASE path # <<>>
    <3>1. Len(path) \in Nat \ {0} /\ Len(url) \in Nat /\ p \in Nat
      BY <1>1, <2>3, EmptySeq, LenProperties
    <3>2. Len(path) \in 1..(Len(url) - p) /\ p + Len(path) = Len(url)
      BY <2>2, <3>1
    <3>3. path[Len(path)] = url[Len(url)]
      BY <2>2, <3>2
    <3>. QED  BY <3>3, PlainFacts DEF Last
  <2>. QED  BY <2>3
<1> HIDE DEF path, last
<1>5. TrimEnd(path, "/") = path
  <2>1. CASE path = <<>>
    <3>1. TrimEnd(path, "/") \in Seq(STRING) /\ Len(TrimEnd(path, "/")) <= Len(path)
      BY <1>1, TrimEndFacts
    <3>2. Len(TrimEnd(path, "/")) \in Nat /\ Len(path) = 0
      BY <2>1, <3>1, LenProperties, EmptySeq
    <3>3. Len(TrimEnd(path, "/")) = 0
      BY <3>1, <3>2
    <3>. QED  BY <2>1, <3>1, <3>3, EmptySeq
  <2>2. CASE path # <<>>
    BY <1>1, <1>4, <2>2, TrimEndFacts
  <2>. QED  BY <2>1, <2>2
<1>6. Trim(last) = last
  BY <1>2, TrimWithoutBlank
<1>7. ~HasNoPath(url)
  <2>1. CASE \E k \in 1..Len(url) : url[k] = "://"
    BY <2>1, PlainFacts
  <2>2. CASE \A k \in 1..Len(url) : url[k] # "://"
    <3>1. FirstOf(url, {"://"}) \in 0..Len(url)
          /\ (FirstOf(url, {"://"}) > 0 => url[FirstOf(url, {"://"})] \in {"://"})
      BY FirstOfFacts
    <3>2. Len(url) \in Nat
      BY LenProperties
    <3>3. ~(FirstOf(url, {"://"}) > 0)
      BY <2>2, <3>1, <3>2
    <3>. QED  BY <3>3 DEF HasNoPath
  <2>. QED  BY <2>1, <2>2
<1>8. parse_slug(url) = StripGit(last)
  BY <1>3, <1>5, <1>6, <1>7 DEF parse_slug, path
<1>9. ShellParse(url) = StripGit(last)
  BY <1>3, <1>4 DEF ShellParse, path, None
<1>10. parse_origin_url(url) = StripGit(last)
  BY DEF parse_origin_url, last, Separators
<1>11. Trim(StripGit(last)) = StripGit(last)
  <2>1. /\ StripGit(last) \in Seq(STRING) /\ Len(StripGit(last)) <= Len(last)
        /\ \A i \in 1..Len(StripGit(last)) : StripGit(last)[i] = last[i]
    BY <1>2, StripGitType
  <2>2. ASSUME NEW i \in 1..Len(StripGit(last)) PROVE StripGit(last)[i] # Blank
    <3>1. i \in 1..Len(last)
      BY <1>2, <2>1, LenProperties
    <3>. QED  BY <1>2, <2>1, <3>1
  <2>. QED  BY <2>1, <2>2, TrimWithoutBlank
<1>. QED  BY <1>8, <1>9, <1>10, <1>11

(* Whatever plain URL the origin remote has, under jj or git: server,      *)
(* client and shell derive the same slug, and reading it back from an      *)
(* argument or a variable does not change it (crossbridge-client's         *)
(* slug.rs:4-5, direnvrc.sh:17-19).                                        *)
THEOREM DerivedSlugsAgree ==
    ASSUME NEW cfg \in Configurations(STRING), HasPlainOrigin(cfg)
    PROVE  /\ derive_from_repo(cfg) = derive_own_slug(cfg)
           /\ ShellSlug(None, cfg) = derive_own_slug(cfg)
           /\ Trim(derive_own_slug(cfg)) = derive_own_slug(cfg)
<1> DEFINE url == IF cfg.jj THEN cfg.jjUrl ELSE cfg.gitUrl
<1>1. url \in Seq(STRING) /\ IsPlain(url) /\ cfg.jj \in BOOLEAN
  BY DEF Configurations, HasPlainOrigin
<1>2. Trim(url) = url
  <2> HIDE DEF url
  <2>1. \A i \in 1..Len(url) : url[i] # Blank
    BY <1>1, PlainFacts
  <2>. QED  BY <1>1, <2>1, TrimWithoutBlank
<1>3. FirstWord(url) = url /\ url # None
  <2> HIDE DEF url
  <2>1. FirstOf(url, {Blank}) \in 0..Len(url)
        /\ (FirstOf(url, {Blank}) > 0 => url[FirstOf(url, {Blank})] \in {Blank})
    BY <1>1, FirstOfFacts
  <2>2. FirstOf(url, {Blank}) = 0
    <3> DEFINE i == FirstOf(url, {Blank})
    <3>1. Len(url) \in Nat /\ i \in 0..Len(url) /\ (i > 0 => url[i] = Blank)
      BY <1>1, <2>1, LenProperties
    <3> HIDE DEF i
    <3>2. \A j \in 1..Len(url) : url[j] # Blank
      BY <1>1, PlainFacts
    <3>3. i = 0
      BY <3>1, <3>2
    <3>. QED  BY <3>3 DEF i
  <2>. QED  BY <1>1, <1>2, <2>2 DEF FirstWord, UpTo, IsPlain
<1>4. ServerOriginUrl(cfg) = url
  BY <1>2 DEF ServerOriginUrl
<1>5. ClientOriginUrl(cfg) = url
  <2>1. CASE cfg.jj
    BY <1>3, <2>1 DEF ClientOriginUrl
  <2>2. CASE ~cfg.jj
    BY <1>2, <2>2 DEF ClientOriginUrl
  <2>. QED  BY <2>1, <2>2
<1> HIDE DEF url
<1>6. /\ parse_slug(url) = parse_origin_url(url)
      /\ ShellParse(url) = parse_origin_url(url)
      /\ Trim(parse_origin_url(url)) = parse_origin_url(url)
  BY <1>1, PlainParse
<1>. QED
  BY <1>4, <1>5, <1>6 DEF derive_from_repo, derive_own_slug, ShellSlug, None
=============================================================================
