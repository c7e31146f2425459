---------------------------- MODULE ClientsProofs -----------------------------
(***************************************************************************)
(* Proofs about the clients of the program.                                 *)
(*                                                                         *)
(* First the parser of RequestText, for any ids, commands, parameters and    *)
(* values: where the tokens of a written request stand, how the parser gets  *)
(* from each to the next, and what it makes of them.                         *)
(*                                                                         *)
(* Then what Requests promises for any frames, any sizes of frames and      *)
(* buffers, and any number of requests.  The heart is Framing: what is under way to  *)
(* the handler plus what it has of the current frame plus what the client   *)
(* still holds is a whole number of frames, one for each request without an *)
(* answer; so the handler always stands at the right place in the stream.   *)
(*                                                                         *)
(* What Sessions promises for any connections, officers, ranks, lifetimes    *)
(* and any bound on the clock and the tokens.  The heart is that a token is   *)
(* in one session and is kept by one user at most, and that a user who is not *)
(* logged in keeps no token of a session that is still valid.                 *)
(***************************************************************************)
EXTENDS Requests, Sessions, FiniteSetTheorems, WellFoundedInduction, TLAPS

-----------------------------------------------------------------------------
(* RequestText: the texts of requests and what the parser makes of them.    *)

(* Two forms of induction over numbers that need no operator as a parameter: a set of  *)
(* numbers has a least one, and what holds of 0 and is inherited holds up to n.        *)
LEMMA LeastOne ==
    ASSUME NEW T, T \subseteq Nat, T # {}
    PROVE  \E x \in T : \A y \in T : x <= y
<1> DEFINE Less == {r \in Nat \X Nat : r[1] < r[2]}
<1>1. IsWellFoundedOn(Less, Nat)
  BY NatLessThanWellFounded DEF OpToRel
<1> HIDE DEF Less
<1>2. PICK x \in T : \A y \in T : ~(<<y, x>> \in Less)
  BY <1>1, WFMin
<1>3. \A y \in T : ~(y < x)
  BY <1>2 DEF Less
<1> QED BY <1>2, <1>3

LEMMA UpTo ==
    ASSUME NEW n \in Nat, NEW S, 0 \in S,
           \A k \in 0 .. n - 1 : k \in S => k + 1 \in S
    PROVE  0 .. n \subseteq S
<1> SUFFICES ASSUME NEW bad \in 0 .. n, bad \notin S PROVE FALSE
  OBVIOUS
<1> DEFINE T == {k \in 0 .. n : k \notin S}
<1>1. T \subseteq Nat /\ T # {}
  OBVIOUS
<1> HIDE DEF T
<1>2. PICK x \in T : \A y \in T : x <= y
  BY <1>1, LeastOne
<1>3. x \in 1 .. n /\ x \notin S
  BY <1>2 DEF T
<1>4. x - 1 \notin T
  BY <1>1, <1>2, <1>3
<1> QED BY <1>3, <1>4 DEF T

(* Where FirstOf stops.                                                       *)
Stop(s, p, kinds, q) ==
    /\ q \in p .. Len(s) + 1
    /\ q = Len(s) + 1 \/ Kind(s, q) \in kinds
    /\ \A i \in p .. q - 1 : Kind(s, i) \notin kinds

(* FirstOf is the only place where it may stop, and it does stop.                      *)
LEMMA FirstOfIs ==
    ASSUME NEW S, NEW s \in Seq(S), NEW p \in Nat, NEW kinds, NEW q, Stop(s, p, kinds, q), q <= Len(s)
    PROVE  FirstOf(s, p, kinds) = q
<1>1. \A r : Stop(s, p, kinds, r) => r = q
  <2> SUFFICES ASSUME NEW r, Stop(s, p, kinds, r) PROVE r = q
    OBVIOUS
  <2> Len(s) \in Nat
    OBVIOUS
  <2>1. ~(r < q)
    <3> SUFFICES ASSUME r < q PROVE FALSE
      OBVIOUS
    <3>1. r \in p .. q - 1 /\ r <= Len(s)
      BY DEF Stop
    <3> QED BY <3>1 DEF Stop
  <2>2. ~(q < r)
    <3> SUFFICES ASSUME q < r PROVE FALSE
      OBVIOUS
    <3>1. q \in p .. r - 1 /\ Kind(s, q) \in kinds
      BY DEF Stop
    <3> QED BY <3>1 DEF Stop
  <2> QED BY <2>1, <2>2 DEF Stop
<1>2. FirstOf(s, p, kinds) = CHOOSE r \in p .. Len(s) + 1 : Stop(s, p, kinds, r)
  BY DEF FirstOf, Stop
<1>3. q \in p .. Len(s) + 1
  BY DEF Stop
<1> QED BY <1>1, <1>2, <1>3

LEMMA FirstOfStops ==
    ASSUME NEW S, NEW s \in Seq(S), NEW p \in 1 .. Len(s) + 1, NEW kinds
    PROVE  Stop(s, p, kinds, FirstOf(s, p, kinds))
<1> DEFINE N == Len(s)
           T == {q \in p .. N + 1 : q = N + 1 \/ Kind(s, q) \in kinds}
<1>1. N \in Nat
  OBVIOUS
<1> HIDE DEF N
<1>2. T \subseteq Nat /\ N + 1 \in T
  BY <1>1 DEF N
<1>3. PICK q \in T : \A r \in T : q <= r
  <2> HIDE DEF T
  <2> QED BY <1>2, LeastOne
<1>4. Stop(s, p, kinds, q)
  <2>1. \A i \in p .. q - 1 : i \notin T /\ i \in p .. N + 1
    <3> HIDE DEF T
    <3>1. \A i \in T : ~(i < q)
      BY <1>2, <1>3
    <3>2. q \in p .. N + 1
      BY <1>3 DEF T
    <3> QED BY <1>1, <3>1, <3>2 DEF N
  <2> QED BY <1>1, <1>3, <2>1 DEF Stop, N
<1>5. FirstOf(s, p, kinds) = CHOOSE r \in p .. Len(s) + 1 : Stop(s, p, kinds, r)
  BY DEF FirstOf, Stop
<1>6. q \in p .. Len(s) + 1
  BY <1>4 DEF Stop
<1> QED BY <1>4, <1>5, <1>6

(* The recursive functions of RequestText do what their definitions say, since there   *)
(* is a function that does.                                                            *)
LEMMA JoinedUnfolds ==
    ASSUME NEW S, NEW members \in Seq(S), NEW style, NEW n \in 0 .. Len(members)
    PROVE  Joined(members, style)[n] =
             IF n = 0 THEN << >>
             ELSE Joined(members, style)[n - 1] \o
                  (IF n = 1 THEN << >> ELSE <<Mark("comma")>> \o Space(style.gap)) \o members[n]
<1> DEFINE J(x, m) == x \o (IF m = 1 THEN << >> ELSE <<Mark("comma")>> \o Space(style.gap)) \o members[m]
           Good(f, k) == f = [m \in 0 .. k |-> IF m = 0 THEN << >> ELSE J(f[m - 1], m)]
           L == Len(members)
           T == {k \in 0 .. L : \E f : Good(f, k)}
<1>1. Joined(members, style) = CHOOSE f : Good(f, L)
  BY DEF Joined
<1>0. L \in Nat
  OBVIOUS
<1> HIDE DEF J, L
<1>2. 0 \in T
  <2>1. Good([m \in 0 .. 0 |-> << >>], 0)
    OBVIOUS
  <2>2. \E f : Good(f, 0)
    BY <2>1
  <2>3. 0 \in 0 .. L
    BY <1>0
  <2> HIDE DEF Good
  <2> QED BY <2>2, <2>3
<1>3. ASSUME NEW k \in 0 .. L - 1, k \in T PROVE k + 1 \in T
  <2>1. PICK f : Good(f, k)
    BY <1>3
  <2> DEFINE g == [m \in 0 .. k + 1 |-> IF m = k + 1 THEN J(f[k], k + 1) ELSE f[m]]
  <2>2. ASSUME NEW m \in 0 .. k + 1
        PROVE  g[m] = IF m = 0 THEN << >> ELSE J(g[m - 1], m)
    <3>1. CASE m = k + 1
      <4>1. g[m - 1] = f[k] /\ m # 0
        BY <3>1
      <4> QED BY <3>1, <4>1
    <3>2. CASE m = 0
      BY <3>2, <2>1
    <3>3. CASE m \in 1 .. k
      <4>1. g[m] = f[m] /\ g[m - 1] = f[m - 1]
        BY <3>3
      <4>2. f[m] = J(f[m - 1], m)
        BY <3>3, <2>1
      <4> QED BY <3>3, <4>1, <4>2
    <3> QED BY <3>1, <3>2, <3>3
  <2> HIDE DEF g
  <2>3. g = [m \in 0 .. k + 1 |-> g[m]]
    BY DEF g
  <2>4. Good(g, k + 1)
    BY <2>2, <2>3
  <2> QED BY <2>4, <1>0
<1>4. L \in T
  <2> HIDE DEF T
  <2>1. \A k \in 0 .. L - 1 : k \in T => k + 1 \in T
    BY <1>3
  <2>2. 0 .. L \subseteq T
    BY <1>0, <1>2, <2>1, UpTo
  <2> QED BY <1>0, <2>2
<1>5. Good(Joined(members, style), L)
  BY <1>1, <1>4
<1> QED BY <1>5 DEF J, L

(* The loop of parseObject, one turn with what the others give.               *)
Following(s, p) == SkipWs(s, Member(s, p).end)
Onward(s, p)    == SkipWs(s, Following(s, p) + 1)

Turn(s, p, rest) ==
    IF ~Member(s, p).ok
    THEN Thrown
    ELSE CASE Kind(s, Following(s, p)) = "comma" ->
                IF rest.ok THEN [ok |-> TRUE, list |-> <<Member(s, p)>> \o rest.list] ELSE Thrown
           [] Kind(s, Following(s, p)) = "close" -> [ok |-> TRUE, list |-> <<Member(s, p)>>]
           [] OTHER -> Thrown

(* The parser moves forward and stays within the text.                                 *)
LEMMA KindInside ==
    ASSUME NEW s, NEW p, Kind(s, p) # "end"
    PROVE  p \in DOMAIN s
BY DEF Kind

LEMMA SkipWsGoes ==
    ASSUME NEW S, NEW s \in Seq(S), NEW p \in 1 .. Len(s) + 1
    PROVE  SkipWs(s, p) \in p .. Len(s) + 1
BY FirstOfStops DEF SkipWs, Stop

LEMMA MemberGoes ==
    ASSUME NEW S, NEW s \in Seq(S), NEW p \in 1 .. Len(s) + 1, Member(s, p).ok
    PROVE  Member(s, p).end \in p + 1 .. Len(s) + 1
<1> DEFINE N     == Len(s)
           key   == SkipWs(s, p)
           colon == SkipWs(s, key + 1)
           value == SkipWs(s, colon + 1)
<1>1. Kind(s, key) = "string" /\ Kind(s, colon) = "colon" /\ Member(s, p).end = ValueEnd(s, value)
  BY DEF Member
<1>2. key \in p .. N + 1 /\ key \in DOMAIN s
  BY <1>1, SkipWsGoes, KindInside
<1>3. key + 1 \in 1 .. Len(s) + 1
  BY <1>2
<1>4. colon \in key + 1 .. N + 1 /\ colon \in DOMAIN s
  <2> HIDE DEF key
  <2> QED BY <1>1, <1>3, SkipWsGoes, KindInside
<1>5. colon + 1 \in 1 .. Len(s) + 1
  BY <1>4
<1>6. value \in colon + 1 .. N + 1
  <2> HIDE DEF colon
  <2> QED BY <1>5, SkipWsGoes
<1> HIDE DEF key, colon, value
<1>7. ValueEnd(s, value) \in value .. N + 1
  <2>1. value \in 1 .. Len(s) + 1
    BY <1>2, <1>4, <1>6
  <2>2. CASE Kind(s, value) = "string"
    <3>1. value \in DOMAIN s
      BY <2>2, KindInside
    <3> QED BY <2>2, <3>1 DEF ValueEnd
  <2>3. CASE Kind(s, value) # "string"
    <3>1. Stop(s, value, {"comma", "close", "space"}, FirstOf(s, value, {"comma", "close", "space"}))
      BY <2>1, FirstOfStops
    <3> QED BY <2>3, <3>1 DEF ValueEnd, Stop
  <2> QED BY <2>2, <2>3
<1>8. p \in Nat
  OBVIOUS
<1> QED BY <1>1, <1>2, <1>4, <1>6, <1>7, <1>8

LEMMA CommaGoes ==
    ASSUME NEW S, NEW s \in Seq(S), NEW e \in 1 .. Len(s) + 1, NEW next,
           next = SkipWs(s, e), Kind(s, next) = "comma"
    PROVE  SkipWs(s, next + 1) \in e + 1 .. Len(s) + 1
<1>1. next \in e .. Len(s) + 1
  BY SkipWsGoes
<1>2. next \in DOMAIN s
  BY KindInside
<1>3. next + 1 \in 1 .. Len(s) + 1
  BY <1>2
<1>4. SkipWs(s, next + 1) \in next + 1 .. Len(s) + 1
  BY <1>3, SkipWsGoes
<1> QED BY <1>1, <1>4

LEMMA OnwardGoes ==
    ASSUME NEW S, NEW s \in Seq(S), NEW p \in 1 .. Len(s) + 1
    PROVE  Member(s, p).ok /\ Kind(s, Following(s, p)) = "comma" => Onward(s, p) \in p + 1 .. Len(s) + 1
<1> DEFINE e    == Member(s, p).end
           ok   == Member(s, p).ok
           next == Following(s, p)
<1>1. ok => e \in p + 1 .. Len(s) + 1
  BY MemberGoes
<1>2. next = SkipWs(s, e) /\ Onward(s, p) = SkipWs(s, next + 1)
  BY DEF Onward, Following
<1> HIDE DEF e, ok, next
<1>3. ASSUME e \in p + 1 .. Len(s) + 1, Kind(s, next) = "comma"
      PROVE  Onward(s, p) \in p + 1 .. Len(s) + 1
  <2>1. e \in 1 .. Len(s) + 1
    BY <1>3
  <2>2. SkipWs(s, next + 1) \in e + 1 .. Len(s) + 1
    BY <1>2, <1>3, <2>1, CommaGoes
  <2> QED BY <1>2, <1>3, <2>2
<1>4. ok /\ Kind(s, next) = "comma" => Onward(s, p) \in p + 1 .. Len(s) + 1
  BY <1>1, <1>3
<1> QED BY <1>4 DEF ok, next

(* So the loop of parseObject is one turn, and what the later ones give.               *)
LEMMA MembersUnfolds ==
    ASSUME NEW S, NEW s \in Seq(S), NEW p \in 1 .. Len(s) + 1
    PROVE  Members(s)[p] = Turn(s, p, Members(s)[Onward(s, p)])
<1> DEFINE N == Len(s)
           Good(f, first) == f = [q \in first .. N + 1 |-> Turn(s, q, f[Onward(s, q)])]
           T == {k \in 0 .. N : \E f : Good(f, N + 1 - k)}
<1>0. N \in Nat
  OBVIOUS
<1>1. Members(s) = CHOOSE f : Good(f, 1)
  BY DEF Members, Turn, Following, Onward
<1>2. \A q, x, y : Turn(s, q, x) = Turn(s, q, y) \/ (Member(s, q).ok /\ Kind(s, Following(s, q)) = "comma")
  BY DEF Turn
<1>3. \A q \in 1 .. N + 1 :
        Member(s, q).ok /\ Kind(s, Following(s, q)) = "comma" => Onward(s, q) \in q + 1 .. N + 1
  BY OnwardGoes
<1> HIDE DEF N
<1>4. 0 \in T
  <2> DEFINE f == [q \in N + 1 .. N + 1 |-> Turn(s, q, 0)]
  <2>1. ASSUME NEW q \in N + 1 .. N + 1 PROVE f[q] = Turn(s, q, f[Onward(s, q)])
    <3>1. ~(Onward(s, q) \in q + 1 .. N + 1) /\ q \in 1 .. N + 1
      BY <1>0
    <3>2. ~(Member(s, q).ok /\ Kind(s, Following(s, q)) = "comma")
      BY <1>3, <3>1
    <3>3. f[q] = Turn(s, q, 0)
      OBVIOUS
    <3> HIDE DEF f
    <3> QED BY <1>2, <3>2, <3>3
  <2> HIDE DEF f
  <2>2. f = [q \in N + 1 .. N + 1 |-> f[q]]
    BY DEF f
  <2>3. Good(f, N + 1)
    BY <2>1, <2>2
  <2>4. \E g : Good(g, N + 1 - 0)
    <3>1. N + 1 - 0 = N + 1
      BY <1>0
    <3> QED BY <2>3, <3>1
  <2> HIDE DEF Good
  <2> QED BY <1>0, <2>4
<1>5. ASSUME NEW k \in 0 .. N - 1, k \in T PROVE k + 1 \in T
  <2> DEFINE a == N + 1 - k
             b == N + 1 - (k + 1)
  <2>1. PICK f : Good(f, a)
    BY <1>5
  <2> DEFINE g == [q \in b .. N + 1 |-> IF q = b THEN Turn(s, b, f[Onward(s, b)]) ELSE f[q]]
  <2>0. a \in Nat /\ b = a - 1 /\ b \in 1 .. N
    BY <1>0
  <2> HIDE DEF a, b
  <2>2. ASSUME NEW q \in b .. N + 1 PROVE g[q] = Turn(s, q, g[Onward(s, q)])
    <3>1. \A r \in a .. N + 1 : g[r] = f[r]
      BY <2>0
    <3>2. g[q] = Turn(s, q, f[Onward(s, q)])
      <4>1. CASE q = b
        BY <4>1
      <4>2. CASE q # b
        <5>1. q \in a .. N + 1
          BY <1>0, <2>0, <4>2
        <5> QED BY <2>1, <3>1, <5>1
      <4> QED BY <4>1, <4>2
    <3> HIDE DEF g
    <3>3. CASE Member(s, q).ok /\ Kind(s, Following(s, q)) = "comma"
      <4>1. q \in 1 .. N + 1
        BY <1>0, <2>0
      <4>2. Onward(s, q) \in q + 1 .. N + 1
        BY <1>3, <3>3, <4>1
      <4>3. Onward(s, q) \in a .. N + 1
        BY <1>0, <2>0, <4>2
      <4> QED BY <3>1, <3>2, <4>3
    <3>4. CASE ~(Member(s, q).ok /\ Kind(s, Following(s, q)) = "comma")
      BY <1>2, <3>2, <3>4
    <3> QED BY <3>3, <3>4
  <2> HIDE DEF g
  <2>3. g = [q \in b .. N + 1 |-> g[q]]
    BY DEF g
  <2>4. Good(g, b)
    BY <2>2, <2>3
  <2> HIDE DEF Good
  <2> QED BY <1>0, <2>4 DEF b
<1>6. N \in T
  <2> HIDE DEF T
  <2>1. \A k \in 0 .. N - 1 : k \in T => k + 1 \in T
    BY <1>5
  <2>2. 0 .. N \subseteq T
    BY <1>0, <1>4, <2>1, UpTo
  <2> QED BY <1>0, <2>2
<1>7. \E f : Good(f, 1)
  <2>1. N + 1 - N = 1
    BY <1>0
  <2> HIDE DEF Good
  <2> QED BY <1>6, <2>1
<1>8. Good(Members(s), 1)
  BY <1>1, <1>7
<1> QED BY <1>8 DEF N

-----------------------------------------------------------------------------
(* Text t stands in s from position p on.                                     *)
At(s, p, t) ==
    /\ p + Len(t) <= Len(s) + 1
    /\ \A i \in 1 .. Len(t) : s[p + i - 1] = t[i]

Values == Numerals \cup Commands \cup Texts \cup ParamNames \cup {"request_id", "command", "params"}

Lexemes ==
    {Mark(k) : k \in {"open", "close", "comma", "colon", "space"}} \cup
    {Word(x) : x \in Values} \cup {String(x) : x \in Values}

(* If a text stands at a position, its parts stand one behind the other.               *)
LEMMA AtParts ==
    ASSUME NEW S, NEW s \in Seq(S), NEW p \in Nat, NEW t \in Seq(S), NEW u \in Seq(S), At(s, p, t \o u)
    PROVE  At(s, p, t) /\ At(s, p + Len(t), u)
<1>1. /\ Len(t \o u) = Len(t) + Len(u)
      /\ \A i \in 1 .. Len(t) : (t \o u)[i] = t[i]
      /\ \A i \in 1 .. Len(u) : (t \o u)[Len(t) + i] = u[i]
  OBVIOUS
<1>2. Len(t) \in Nat /\ Len(u) \in Nat /\ Len(s) \in Nat
  OBVIOUS
<1> DEFINE v == t \o u
<1> HIDE DEF v
<1>3. /\ p + Len(v) <= Len(s) + 1
      /\ \A i \in 1 .. Len(v) : s[p + i - 1] = v[i]
  BY DEF At, v
<1>4. At(s, p, t)
  <2>1. \A i \in 1 .. Len(t) : i \in 1 .. Len(v) /\ v[i] = t[i]
    BY <1>1, <1>2 DEF v
  <2>2. p + Len(t) <= Len(s) + 1
    BY <1>1, <1>2, <1>3 DEF v
  <2> QED BY <1>3, <2>1, <2>2 DEF At
<1>5. \A i \in 1 .. Len(u) : s[p + Len(t) + i - 1] = u[i]
  <2> TAKE i \in 1 .. Len(u)
  <2>1. Len(t) + i \in 1 .. Len(v) /\ v[Len(t) + i] = u[i]
    BY <1>1, <1>2 DEF v
  <2>2. s[p + (Len(t) + i) - 1] = u[i]
    BY <1>3, <2>1
  <2> QED BY <1>2, <2>2
<1> QED BY <1>1, <1>2, <1>3, <1>4, <1>5 DEF At, v

(* What a request is written with are tokens.                                          *)
LEMMA TokenTexts ==
    /\ \A k \in {"open", "close", "comma", "colon", "space"} : Mark(k) \in Lexemes
    /\ \A x \in Values : Word(x) \in Lexemes /\ String(x) \in Lexemes
BY DEF Lexemes

LEMMA SpaceText ==
    ASSUME NEW wanted \in BOOLEAN
    PROVE  /\ Space(wanted) \in Seq(Lexemes)
           /\ Len(Space(wanted)) = IF wanted THEN 1 ELSE 0
           /\ wanted => Space(wanted)[1] = Mark("space")
<1>1. Mark("space") \in Lexemes
  BY TokenTexts
<1>2. CASE wanted
  <2>1. Space(wanted) = <<Mark("space")>>
    BY <1>2 DEF Space
  <2>2. <<Mark("space")>> \in Seq(Lexemes) /\ Len(<<Mark("space")>>) = 1
    BY <1>1
  <2>3. <<Mark("space")>>[1] = Mark("space")
    OBVIOUS
  <2> QED BY <1>2, <2>1, <2>2, <2>3, Zenon
<1>3. CASE ~wanted
  <2>1. Space(wanted) = << >>
    BY <1>3 DEF Space
  <2>2. << >> \in Seq(Lexemes) /\ Len(<< >>) = 0
    OBVIOUS
  <2>3. Space(wanted) \in Seq(Lexemes) /\ Len(Space(wanted)) = 0
    BY <2>1, <2>2, Zenon
  <2> QED BY <1>3, <2>3, Zenon
<1> QED BY <1>2, <1>3

Sep(n, style) == IF n = 1 THEN << >> ELSE <<Mark("comma")>> \o Space(style.gap)

(* One member more in a list of them.                                                  *)
LEMMA JoinedStep ==
    ASSUME NEW S, NEW members \in Seq(S), NEW style, NEW n \in 1 .. Len(members)
    PROVE  Joined(members, style)[n] = Joined(members, style)[n - 1] \o Sep(n, style) \o members[n]
<1>1. n \in 0 .. Len(members) /\ n # 0
  OBVIOUS
<1> QED BY <1>1, JoinedUnfolds DEF Sep

LEMMA SepText ==
    ASSUME NEW n, NEW style \in Styles
    PROVE  Sep(n, style) \in Seq(Lexemes)
<1>1. style.gap \in BOOLEAN
  BY DEF Styles, Style
<1>2. Mark("comma") \in Lexemes
  BY TokenTexts
<1> QED BY <1>1, <1>2, SpaceText DEF Sep

LEMMA JoinedText ==
    ASSUME NEW members \in Seq(Seq(Lexemes)), NEW style \in Styles
    PROVE  \A n \in 0 .. Len(members) : Joined(members, style)[n] \in Seq(Lexemes)
<1> DEFINE L == Len(members)
           T == {n \in 0 .. L : Joined(members, style)[n] \in Seq(Lexemes)}
<1>1. L \in Nat
  OBVIOUS
<1>2. 0 \in T
  <2>1. 0 \in 0 .. Len(members)
    OBVIOUS
  <2>2. Joined(members, style)[0] = << >>
    BY <2>1, JoinedUnfolds
  <2>3. << >> \in Seq(Lexemes)
    OBVIOUS
  <2> QED BY <2>1, <2>2, <2>3, Zenon
<1>3. ASSUME NEW k \in 0 .. L - 1, k \in T PROVE k + 1 \in T
  <2>1. k + 1 \in 0 .. Len(members) /\ k + 1 # 0 /\ (k + 1) - 1 = k /\ k + 1 \in DOMAIN members
    BY <1>1
  <2>2. Joined(members, style)[k + 1] = Joined(members, style)[k] \o Sep(k + 1, style) \o members[k + 1]
    BY <2>1, JoinedUnfolds, ZenonT(60) DEF Sep
  <2>3. Joined(members, style)[k] \in Seq(Lexemes)
    BY <1>3
  <2>4. Sep(k + 1, style) \in Seq(Lexemes) /\ members[k + 1] \in Seq(Lexemes)
    BY <2>1, SepText
  <2> HIDE DEF L
  <2>5. Joined(members, style)[k + 1] \in Seq(Lexemes)
    BY <2>2, <2>3, <2>4
  <2> QED BY <1>1, <2>5
<1>4. 0 .. L \subseteq T
  <2> HIDE DEF T, L
  <2>1. \A k \in 0 .. L - 1 : k \in T => k + 1 \in T
    BY <1>3
  <2> QED BY <1>1, <1>2, <2>1, UpTo
<1> QED BY <1>4

(* Where member i begins when the object begins at p.                          *)
Start(members, style, p, i) ==
    p + 1 + Len(Space(style.pad)) + Len(Joined(members, style)[i]) - Len(members[i])
Stopping(members, style, p, i) == Start(members, style, p, i) + Len(members[i])

(* The lists of the first members stand where the list of all of them stands.          *)
LEMMA JoinedParts ==
    ASSUME NEW members \in Seq(Seq(Lexemes)), NEW style \in Styles, NEW s \in Seq(Lexemes), NEW p \in Nat,
           At(s, p, Joined(members, style)[Len(members)])
    PROVE  \A n \in 0 .. Len(members) : At(s, p, Joined(members, style)[n])
<1> DEFINE L == Len(members)
           T == {k \in 0 .. L : At(s, p, Joined(members, style)[L - k])}
<1>1. L \in Nat /\ L - 0 = L
  OBVIOUS
<1>2. 0 \in T
  BY <1>1
<1>3. ASSUME NEW k \in 0 .. L - 1, k \in T PROVE k + 1 \in T
  <2> DEFINE n == L - k
  <2>1. n \in 0 .. Len(members) /\ n # 0 /\ n - 1 \in 0 .. Len(members) /\ n \in DOMAIN members
    <3>1. n \in 1 .. L /\ DOMAIN members = 1 .. L /\ L = Len(members)
      BY <1>1
    <3> HIDE DEF n, L
    <3> QED BY <1>1, <3>1
  <2>2. Joined(members, style)[n] = Joined(members, style)[n - 1] \o Sep(n, style) \o members[n]
    BY <2>1, JoinedUnfolds DEF Sep
  <2>3. Joined(members, style)[n - 1] \in Seq(Lexemes) /\ Sep(n, style) \in Seq(Lexemes) /\ members[n] \in Seq(Lexemes)
    BY <2>1, SepText, JoinedText
  <2>4. At(s, p, Joined(members, style)[n])
    BY <1>3
  <2> DEFINE a == Joined(members, style)[n - 1]
             b == Sep(n, style)
             c == members[n]
  <2> HIDE DEF n, a, b, c
  <2>5. a \in Seq(Lexemes) /\ b \in Seq(Lexemes) /\ c \in Seq(Lexemes) /\ At(s, p, a \o b \o c)
    BY <2>2, <2>3, <2>4 DEF a, b, c
  <2>6. At(s, p, Joined(members, style)[n - 1])
    <3>1. a \o b \in Seq(Lexemes)
      BY <2>5
    <3>2. At(s, p, a \o b)
      BY <2>5, <3>1, AtParts
    <3> QED BY <2>5, <3>2, AtParts DEF a
  <2>7. n - 1 = L - (k + 1)
    BY <1>1 DEF n
  <2> QED BY <1>1, <2>6, <2>7
<1>4. 0 .. L \subseteq T
  <2> HIDE DEF T, L
  <2>1. \A k \in 0 .. L - 1 : k \in T => k + 1 \in T
    BY <1>3
  <2> QED BY <1>1, <1>2, <2>1, UpTo
<1> TAKE n \in 0 .. Len(members)
<1>5. n \in 0 .. L
  OBVIOUS
<1>6. L - n \in T /\ L - (L - n) = n
  <2> HIDE DEF T, L
  <2> QED BY <1>1, <1>4, <1>5
<1> QED BY <1>6

(* Small facts about sequences and styles.                                             *)
LEMMA ElementOf ==
    ASSUME NEW S, NEW t \in Seq(S), NEW i \in 1 .. Len(t)
    PROVE  t[i] \in S
OBVIOUS

LEMMA Concat ==
    ASSUME NEW t \in Seq(Lexemes), NEW u \in Seq(Lexemes)
    PROVE  /\ t \o u \in Seq(Lexemes)
           /\ Len(t \o u) = Len(t) + Len(u)
           /\ Len(t) \in Nat /\ Len(u) \in Nat
OBVIOUS

LEMMA CompactStyle ==
    Compact \in Styles
<1>1. \A gap, pad \in BOOLEAN : Style(gap, pad) \in Styles
  BY DEF Styles
<1> DEFINE no == FALSE
<1>2. no \in BOOLEAN /\ Compact = Style(no, no)
  BY DEF Compact
<1> HIDE DEF no
<1> QED BY <1>1, <1>2

LEMMA StyleParts ==
    ASSUME NEW style \in Styles
    PROVE  style.gap \in BOOLEAN /\ style.pad \in BOOLEAN
BY DEF Styles, Style

(* Where in an object its members, the separators before them and the brackets stand.  *)
LEMMA MemberOfBraces ==
    ASSUME NEW members \in Seq(Seq(Lexemes)), NEW style \in Styles, NEW s \in Seq(Lexemes), NEW p \in Nat,
           At(s, p, Braces(members, style)), NEW i \in 1 .. Len(members)
    PROVE  /\ At(s, p, <<Mark("open")>> \o Space(style.pad))
           /\ Start(members, style, p, i) \in Nat /\ Start(members, style, p, i) > p
           /\ At(s, Start(members, style, p, i), members[i])
           /\ i = 1 => Start(members, style, p, i) = p + 1 + Len(Space(style.pad))
           /\ i > 1 => /\ Stopping(members, style, p, i - 1) \in Nat /\ Stopping(members, style, p, i - 1) > p
                       /\ At(s, Stopping(members, style, p, i - 1), <<Mark("comma")>> \o Space(style.gap))
                       /\ Start(members, style, p, i) =
                            Stopping(members, style, p, i - 1) + 1 + Len(Space(style.gap))
           /\ i = Len(members) => /\ Stopping(members, style, p, i) \in Nat /\ Stopping(members, style, p, i) > p
                                  /\ At(s, Stopping(members, style, p, i), Space(style.pad))
                                  /\ At(s, Stopping(members, style, p, i) + Len(Space(style.pad)), <<Mark("close")>>)
<1> DEFINE L    == Len(members)
           all  == Joined(members, style)
           open == <<Mark("open")>>
           shut == <<Mark("close")>>
           pad  == Space(style.pad)
           gap  == Space(style.gap)
           sep  == Sep(i, style)
           here == members[i]
           q    == p + 1 + Len(pad)
<1>1. /\ open \in Seq(Lexemes) /\ Len(open) = 1
      /\ shut \in Seq(Lexemes) /\ Len(shut) = 1
  BY TokenTexts
<1>2. pad \in Seq(Lexemes) /\ gap \in Seq(Lexemes) /\ sep \in Seq(Lexemes) /\ here \in Seq(Lexemes)
  BY StyleParts, SpaceText, SepText
<1>3. \A n \in 0 .. L : all[n] \in Seq(Lexemes)
  BY JoinedText
<1>4. L \in Nat /\ i \in 1 .. L
  OBVIOUS
<1>5. At(s, p, open \o pad \o all[L] \o pad \o shut)
  BY DEF Braces
<1>6. all[i] = all[i - 1] \o sep \o here
  <2>1. i \in 0 .. Len(members) /\ i # 0
    BY <1>4
  <2> QED BY <2>1, JoinedUnfolds DEF Sep
<1>7. q \in Nat /\ q = p + 1 + Len(pad) /\ (At(s, q, all[L]) => \A n \in 0 .. L : At(s, q, all[n]))
  <2>1. Len(pad) \in Nat
    BY <1>2
  <2>2. q \in Nat /\ q = p + 1 + Len(pad)
    <3> HIDE DEF pad
    <3> QED BY <2>1
  <2>3. At(s, q, all[L]) => \A n \in 0 .. L : At(s, q, all[n])
    <3> HIDE DEF q
    <3> QED BY <2>2, JoinedParts
  <2> QED BY <2>2, <2>3, Zenon
<1>8. all[0] = << >>
  <2>1. 0 \in 0 .. Len(members)
    OBVIOUS
  <2> QED BY <2>1, JoinedUnfolds
<1>9. sep = IF i = 1 THEN << >> ELSE <<Mark("comma")>> \o gap
  BY DEF Sep
<1>10. /\ Start(members, style, p, i) = q + Len(all[i]) - Len(here)
       /\ Stopping(members, style, p, i) = Start(members, style, p, i) + Len(here)
       /\ Stopping(members, style, p, i - 1) = q + Len(all[i - 1]) - Len(members[i - 1]) + Len(members[i - 1])
  BY DEF Start, Stopping
<1>11. i > 1 => members[i - 1] \in Seq(Lexemes)
  BY <1>4
<1> HIDE DEF L, all, open, shut, pad, gap, sep, here
<1>12. /\ At(s, p, open \o pad \o all[L]) /\ At(s, p, open \o pad)
       /\ At(s, q + Len(all[L]), pad)
       /\ At(s, q + Len(all[L]) + Len(pad), shut)
  <2>1. all[L] \in Seq(Lexemes)
    BY <1>3, <1>4
  <2> DEFINE a == open \o pad \o all[L]
  <2>2. a \in Seq(Lexemes) /\ Len(a) = 1 + Len(pad) + Len(all[L])
    <3>1. open \o pad \in Seq(Lexemes) /\ Len(open \o pad) = 1 + Len(pad)
      BY <1>1, <1>2, Concat
    <3> QED BY <2>1, <3>1, Concat
  <2> HIDE DEF a
  <2>3. a \o pad \in Seq(Lexemes) /\ Len(a \o pad) = Len(a) + Len(pad)
    BY <1>2, <2>2, Concat
  <2>4. At(s, p, (a \o pad) \o shut)
    BY <1>5 DEF a
  <2>5. At(s, p, a \o pad) /\ At(s, p + Len(a \o pad), shut)
    BY <1>1, <2>3, <2>4, AtParts
  <2>6. At(s, p, a) /\ At(s, p + Len(a), pad)
    BY <1>2, <2>2, <2>5, AtParts
  <2>7. p + Len(a) = q + Len(all[L]) /\ p + Len(a \o pad) = q + Len(all[L]) + Len(pad)
    <3>1. Len(pad) \in Nat /\ Len(all[L]) \in Nat
      BY <1>2, <2>1
    <3>2. q = p + 1 + Len(pad)
      BY <1>7
    <3> DEFINE la == Len(a)
               lw == Len(pad)
               ll == Len(all[L])
               lb == Len(a \o pad)
    <3>3. la = 1 + lw + ll /\ lb = la + lw /\ lw \in Nat /\ ll \in Nat /\ q = p + 1 + lw
      BY <2>2, <2>3, <3>1, <3>2
    <3> HIDE DEF q, la, lw, ll, lb
    <3>4. p + la = q + ll /\ p + lb = q + ll + lw
      BY <3>3
    <3> QED BY <3>4 DEF la, lw, ll, lb
  <2>8. At(s, p, open \o pad)
    <3>1. open \o pad \in Seq(Lexemes)
      BY <1>1, <1>2, Concat
    <3> QED BY <2>1, <2>6, <3>1, AtParts DEF a
  <2> QED BY <2>5, <2>6, <2>7, <2>8 DEF a
<1>13. At(s, q, all[L])
  <2>1. all[L] \in Seq(Lexemes) /\ open \o pad \in Seq(Lexemes) /\ p + Len(open \o pad) = q
    <3>1. open \o pad \in Seq(Lexemes) /\ Len(open \o pad) = 1 + Len(pad) /\ Len(pad) \in Nat
      BY <1>1, <1>2, Concat
    <3>2. q = p + 1 + Len(pad)
      BY <1>7
    <3>3. all[L] \in Seq(Lexemes)
      BY <1>3, <1>4
    <3> HIDE DEF q
    <3> QED BY <3>1, <3>2, <3>3
  <2> HIDE DEF q
  <2> QED BY <1>12, <2>1, AtParts
<1> HIDE DEF q
<1>14. /\ At(s, q, all[i])
       /\ all[i - 1] \in Seq(Lexemes) /\ all[i] \in Seq(Lexemes)
       /\ Len(all[i]) = Len(all[i - 1]) + Len(sep) + Len(here)
  <2>1. i \in 0 .. L /\ i - 1 \in 0 .. L
    BY <1>4
  <2>2. At(s, q, all[i]) /\ all[i - 1] \in Seq(Lexemes) /\ all[i] \in Seq(Lexemes)
    BY <1>3, <1>7, <1>13, <2>1
  <2>3. all[i - 1] \o sep \in Seq(Lexemes) /\ Len(all[i - 1] \o sep) = Len(all[i - 1]) + Len(sep)
    BY <1>2, <2>2, Concat
  <2>4. Len(all[i]) = Len(all[i - 1] \o sep) + Len(here)
    BY <1>2, <1>6, <2>3, Concat
  <2> QED BY <2>2, <2>3, <2>4
<1>15. /\ At(s, q + Len(all[i - 1]), sep)
       /\ At(s, q + Len(all[i - 1]) + Len(sep), here)
  <2> DEFINE a == all[i - 1]
  <2> HIDE DEF a
  <2>1. At(s, q, a \o sep \o here) /\ a \in Seq(Lexemes)
    BY <1>6, <1>14 DEF a
  <2>2. a \o sep \in Seq(Lexemes) /\ Len(a \o sep) = Len(a) + Len(sep) /\ Len(a) \in Nat /\ Len(sep) \in Nat
    BY <1>2, <2>1, Concat
  <2>3. At(s, q, a \o sep) /\ At(s, q + Len(a \o sep), here)
    BY <1>2, <1>7, <2>1, <2>2, AtParts
  <2>4. At(s, q + Len(a), sep)
    BY <1>2, <1>7, <2>1, <2>3, AtParts
  <2>5. q + Len(a \o sep) = q + Len(a) + Len(sep)
    BY <1>7, <2>2
  <2> QED BY <2>3, <2>4, <2>5 DEF a
<1> DEFINE a == Len(all[i - 1])
           b == Len(sep)
           c == Len(here)
           d == Len(all[i])
           g == Len(gap)
           w == Len(pad)
           m == Len(members[i - 1])
           from == Start(members, style, p, i)
           to   == Stopping(members, style, p, i)
           prev == Stopping(members, style, p, i - 1)
<1>16. a \in Nat /\ b \in Nat /\ c \in Nat /\ d \in Nat /\ g \in Nat /\ w \in Nat /\ (i > 1 => m \in Nat)
  BY <1>2, <1>11, <1>14, SMTT(30)
<1>17. i = 1 => a = 0 /\ b = 0
  BY <1>8, <1>9
<1>18. i > 1 => sep = <<Mark("comma")>> \o gap /\ b = 1 + g
  <2> SUFFICES ASSUME i > 1 PROVE sep = <<Mark("comma")>> \o gap /\ b = 1 + g
    OBVIOUS
  <2>1. sep = <<Mark("comma")>> \o gap
    BY <1>9
  <2>2. <<Mark("comma")>> \in Seq(Lexemes) /\ Len(<<Mark("comma")>>) = 1
    BY TokenTexts
  <2> QED BY <1>2, <2>1, <2>2, Concat
<1>19. q \in Nat /\ q = p + 1 + w
  BY <1>7
<1>20. from = q + d - c /\ to = from + c /\ prev = q + a - m + m /\ d = a + b + c
  BY <1>10, <1>14
<1>21. At(s, q + a, sep) /\ At(s, q + a + b, here)
  BY <1>15
<1>22. i = L => At(s, q + d, pad) /\ At(s, q + d + w, shut)
  BY <1>12
<1>23. i = Len(members) => i = L
  BY DEF L
<1> HIDE DEF a, b, c, d, g, w, m, from, to, prev
<1>24. from = q + a + b /\ to = q + d /\ from \in Nat /\ to \in Nat /\ from > p /\ to > p
  BY <1>16, <1>19, <1>20
<1>25. i = 1 => from = p + 1 + w
  BY <1>16, <1>17, <1>19, <1>24
<1>26. i > 1 => prev \in Nat /\ prev > p /\ prev = q + a /\ from = prev + 1 + g
  BY <1>16, <1>18, <1>19, <1>20, <1>24, SMTT(30)
<1>27. At(s, from, here)
  BY <1>21, <1>24
<1>28. i > 1 => At(s, prev, <<Mark("comma")>> \o gap)
  BY <1>18, <1>21, <1>26
<1>29. i = L => At(s, to, pad) /\ At(s, to + w, shut)
  BY <1>22, <1>24
<1>30. At(s, p, open \o pad)
  BY <1>12
<1> QED BY <1>23, <1>24, <1>25, <1>26, <1>27, <1>28, <1>29, <1>30 DEF open, pad, gap, shut, here, from, to, prev, w, g

-----------------------------------------------------------------------------
(* What SkipWs does when it meets, or does not meet, a space.                          *)
LEMMA TokenKinds ==
    ASSUME NEW t \in Lexemes
    PROVE  /\ t.kind \in {"open", "close", "comma", "colon", "string", "word", "space"}
           /\ t.kind = "space" => t = Mark("space")
BY DEF Lexemes, Mark, Word, String

LEMMA KindOf ==
    ASSUME NEW s \in Seq(Lexemes), NEW p \in 1 .. Len(s)
    PROVE  Kind(s, p) = s[p].kind /\ s[p] \in Lexemes
BY DEF Kind

LEMMA SkipsTo ==
    ASSUME NEW s \in Seq(Lexemes), NEW p \in Nat \ {0}, NEW q \in p .. Len(s),
           \A i \in p .. q - 1 : s[i] = Mark("space"),
           Kind(s, q) # "space"
    PROVE  SkipWs(s, p) = q
<1> DEFINE kinds == {"open", "close", "comma", "colon", "string", "word"}
           N == Len(s)
<1>0. N \in Nat
  OBVIOUS
<1>1. Kind(s, q) \in kinds
  BY <1>0, KindOf, TokenKinds
<1>2. ASSUME NEW i \in p .. q - 1 PROVE Kind(s, i) \notin kinds
  <2>1. i \in 1 .. Len(s)
    BY <1>0
  <2>2. Kind(s, i) = "space"
    BY <2>1, KindOf DEF Mark
  <2> QED BY <2>2
<1>3. Stop(s, p, kinds, q)
  BY <1>0, <1>1, <1>2 DEF Stop
<1> HIDE DEF kinds
<1>4. FirstOf(s, p, kinds) = q
  BY <1>0, <1>3, FirstOfIs
<1> QED BY <1>4 DEF SkipWs, kinds

(* What stands at a position is one of the tokens.                            *)
LEMMA AtFirst ==
    ASSUME NEW s \in Seq(Lexemes), NEW p \in Nat \ {0}, NEW t \in Seq(Lexemes), At(s, p, t), NEW i \in 1 .. Len(t),
           NEW q, q = p + i - 1
    PROVE  /\ q \in 1 .. Len(s)
           /\ s[q] = t[i]
           /\ Kind(s, q) = t[i].kind
<1>1. q \in 1 .. Len(s) /\ s[q] = t[i]
  BY DEF At
<1> QED BY <1>1, KindOf

LEMMA AtStarts ==
    ASSUME NEW s \in Seq(Lexemes), NEW p \in Nat \ {0}, NEW t \in Seq(Lexemes), At(s, p, t), 1 \in 1 .. Len(t)
    PROVE  s[p] = t[1]
<1>1. p = p + 1 - 1
  OBVIOUS
<1> QED BY <1>1, AtFirst

(* The same for a text of one token, and of two.                                       *)
LEMMA AtOne ==
    ASSUME NEW s \in Seq(Lexemes), NEW p \in Nat \ {0}, NEW x \in Lexemes, At(s, p, <<x>>)
    PROVE  p \in 1 .. Len(s) /\ s[p] = x /\ Kind(s, p) = x.kind
<1> DEFINE t == <<x>>
<1>1. t \in Seq(Lexemes) /\ 1 \in 1 .. Len(t) /\ t[1] = x /\ p = p + 1 - 1
  OBVIOUS
<1> HIDE DEF t
<1>2. At(s, p, t)
  BY DEF t
<1> QED BY <1>1, <1>2, AtFirst

LEMMA AtTwo ==
    ASSUME NEW s \in Seq(Lexemes), NEW p \in Nat \ {0}, NEW x \in Lexemes, NEW y \in Lexemes, At(s, p, <<x, y>>)
    PROVE  /\ p \in 1 .. Len(s) /\ s[p] = x /\ Kind(s, p) = x.kind
           /\ p + 1 \in 1 .. Len(s) /\ s[p + 1] = y /\ Kind(s, p + 1) = y.kind
<1> DEFINE t == <<x, y>>
           q == p + 1
<1>1. /\ t \in Seq(Lexemes) /\ 1 \in 1 .. Len(t) /\ 2 \in 1 .. Len(t) /\ t[1] = x /\ t[2] = y
      /\ p = p + 1 - 1 /\ q = p + 2 - 1
  OBVIOUS
<1> HIDE DEF t, q
<1>2. At(s, p, t)
  BY DEF t
<1>3. p \in 1 .. Len(s) /\ s[p] = x /\ Kind(s, p) = x.kind
  BY <1>1, <1>2, AtFirst
<1>4. q \in 1 .. Len(s) /\ s[q] = y /\ Kind(s, q) = y.kind
  BY <1>1, <1>2, AtFirst
<1> QED BY <1>3, <1>4 DEF q

(* It skips an optional space and nothing else.                                        *)
LEMMA SkipsSpace ==
    ASSUME NEW s \in Seq(Lexemes), NEW p \in Nat \ {0}, NEW wanted \in BOOLEAN, At(s, p, Space(wanted)),
           NEW q, q = p + Len(Space(wanted)), q <= Len(s), Kind(s, q) # "space"
    PROVE  SkipWs(s, p) = q
<1>1. Len(s) \in Nat
  OBVIOUS
<1>2. CASE wanted
  <2>1. Len(Space(wanted)) = 1 /\ Space(wanted)[1] = Mark("space") /\ Space(wanted) \in Seq(Lexemes)
    BY <1>2, SpaceText
  <2>2. q = p + 1 /\ s[p] = Mark("space")
    <3>1. q = p + 1 /\ 1 \in 1 .. Len(Space(wanted)) /\ p = p + 1 - 1
      BY <2>1
    <3> QED BY <2>1, <3>1, AtFirst
  <2>3. q \in p .. Len(s) /\ \A i \in p .. q - 1 : i = p
    BY <1>1, <2>2
  <2> QED BY <2>2, <2>3, SkipsTo
<1>3. CASE ~wanted
  <2>1. Len(Space(wanted)) = 0
    BY <1>3, SpaceText
  <2>2. q = p /\ q \in p .. Len(s) /\ \A i \in p .. q - 1 : FALSE
    BY <1>1, <2>1
  <2> QED BY <2>2, SkipsTo
<1> QED BY <1>2, <1>3

LEMMA StaysHere ==
    ASSUME NEW s \in Seq(Lexemes), NEW p \in 1 .. Len(s), Kind(s, p) # "space"
    PROVE  SkipWs(s, p) = p
<1>1. p \in p .. Len(s) /\ \A i \in p .. p - 1 : FALSE
  OBVIOUS
<1> QED BY <1>1, SkipsTo

(* How the parser gets from a member's key to its value.                               *)
ReadKey(s, p, key, q, value) ==
    /\ SkipWs(s, p) = p /\ Kind(s, p) = "string" /\ s[p].text = key
    /\ SkipWs(s, p + 1) = p + 1 /\ Kind(s, p + 1) = "colon"
    /\ SkipWs(s, p + 2) = q /\ q \in 1 .. Len(s) /\ At(s, q, value)

LEMMA KeyRead ==
    ASSUME NEW s \in Seq(Lexemes), NEW p \in Nat \ {0}, NEW style \in Styles, NEW key \in Values,
           NEW value \in Seq(Lexemes), At(s, p, Pair(key, value, style)), Len(value) > 0, value[1].kind # "space",
           NEW q, q = p + 2 + Len(Space(style.gap))
    PROVE  ReadKey(s, p, key, q, value)
<1> DEFINE gap   == Space(style.gap)
           head  == <<String(key), Mark("colon")>>
<1>1. /\ head \in Seq(Lexemes) /\ Len(head) = 2 /\ head[1] = String(key) /\ head[2] = Mark("colon")
  BY TokenTexts
<1>2. gap \in Seq(Lexemes) /\ Len(gap) \in Nat
  BY StyleParts, SpaceText
<1>3. At(s, p, head \o gap \o value)
  BY DEF Pair
<1> HIDE DEF head, gap
<1>4. At(s, p, head \o gap) /\ At(s, p + Len(head \o gap), value)
  BY <1>1, <1>2, <1>3, Concat, AtParts
<1>5. At(s, p, head) /\ At(s, p + 2, gap)
  BY <1>1, <1>2, <1>4, AtParts
<1>6. Len(head \o gap) = 2 + Len(gap)
  BY <1>1, <1>2, Concat
<1>7. p + Len(head \o gap) = q /\ q \in Nat \ {0}
  <2> DEFINE g == Len(gap)
             h == Len(head \o gap)
  <2>1. g \in Nat /\ q = p + 2 + g /\ h = 2 + g
    BY <1>2, <1>6 DEF gap
  <2> HIDE DEF g, h
  <2>2. p + h = q /\ q \in Nat \ {0}
    BY <2>1
  <2> QED BY <2>2 DEF h
<1>8. At(s, q, value)
  BY <1>4, <1>7
<1>9. /\ p \in 1 .. Len(s) /\ p + 1 \in 1 .. Len(s)
      /\ s[p] = String(key) /\ s[p + 1] = Mark("colon")
      /\ Kind(s, p) = "string" /\ Kind(s, p + 1) = "colon" /\ s[p].text = key
  <2>1. At(s, p, <<String(key), Mark("colon")>>) /\ String(key) \in Lexemes /\ Mark("colon") \in Lexemes
    BY <1>5, TokenTexts DEF head
  <2> QED BY <2>1, AtTwo DEF String, Mark
<1>10. q \in 1 .. Len(s) /\ Kind(s, q) # "space"
  <2>1. 1 \in 1 .. Len(value) /\ q = q + 1 - 1
    BY <1>7
  <2> QED BY <1>7, <1>8, <2>1, AtFirst
<1>11. SkipWs(s, p + 2) = q
  <2>1. q = (p + 2) + Len(gap) /\ p + 2 \in Nat \ {0} /\ q <= Len(s)
    BY <1>10 DEF gap
  <2> QED BY <1>5, <1>10, <2>1, StyleParts, SkipsSpace DEF gap
<1> QED BY <1>8, <1>9, <1>10, <1>11, StaysHere DEF ReadKey

(* A value that is one token is read as what it says.                                  *)
LEMMA TokenRead ==
    ASSUME NEW s \in Seq(Lexemes), NEW q \in 1 .. Len(s), NEW x \in Values, s[q] \in {Word(x), String(x)},
           Kind(s, q + 1) \in {"comma", "close", "space"}, q + 1 \in 1 .. Len(s)
    PROVE  ValueEnd(s, q) = q + 1 /\ Value(s, q, q + 1) = x
<1>1. s[q].text = x /\ s[q].kind \in {"word", "string"} /\ Kind(s, q) = s[q].kind
  BY KindOf DEF Word, String
<1>2. Value(s, q, q + 1) = x
  BY <1>1 DEF Value
<1>3. CASE Kind(s, q) = "string"
  BY <1>2, <1>3 DEF ValueEnd
<1>4. CASE Kind(s, q) = "word"
  <2> DEFINE kinds == {"comma", "close", "space"}
             r == q + 1
  <2>1. r \in q .. Len(s) + 1 /\ Kind(s, r) \in kinds /\ \A i \in q .. r - 1 : i = q
    OBVIOUS
  <2>2. Kind(s, q) \notin kinds
    BY <1>4
  <2>3. Stop(s, q, kinds, r)
    BY <2>1, <2>2 DEF Stop
  <2>4. FirstOf(s, q, kinds) = r
    <3> r <= Len(s) /\ q \in Nat
      OBVIOUS
    <3> HIDE DEF r, kinds
    <3> QED BY <2>3, FirstOfIs
  <2> QED BY <1>2, <1>4, <2>4 DEF ValueEnd
<1> QED BY <1>1, <1>3, <1>4

(* A pair of a key and such a value is read as that member.                            *)
LEMMA PairRead ==
    ASSUME NEW s \in Seq(Lexemes), NEW p \in Nat \ {0}, NEW style \in Styles, NEW key \in Values,
           NEW x \in Values, NEW value \in Seq(Lexemes), Len(value) = 1, value[1] \in {Word(x), String(x)},
           At(s, p, Pair(key, value, style)),
           NEW q, q = p + 3 + Len(Space(style.gap)), q \in 1 .. Len(s),
           Kind(s, q) \in {"comma", "close", "space"}
    PROVE  Member(s, p) = [ok |-> TRUE, key |-> key, value |-> x, end |-> q]
<1> DEFINE g == Len(Space(style.gap))
           r == p + 2 + g
<1>0. g \in Nat
  BY StyleParts, SpaceText
<1>1. Len(value) > 0 /\ value[1].kind # "space"
  BY DEF Word, String
<1>2. q = r + 1 /\ r \in Nat \ {0}
  <2> HIDE DEF g
  <2>1. q = p + 3 + g
    BY DEF g
  <2> QED BY <1>0, <2>1
<1>4. r = p + 2 + Len(Space(style.gap))
  BY DEF r, g
<1> HIDE DEF r
<1>5. /\ SkipWs(s, p) = p /\ Kind(s, p) = "string" /\ s[p].text = key
      /\ SkipWs(s, p + 1) = p + 1 /\ Kind(s, p + 1) = "colon"
      /\ SkipWs(s, p + 2) = r /\ r \in 1 .. Len(s) /\ At(s, r, value)
  <2>1. ReadKey(s, p, key, r, value)
    BY <1>1, <1>4, KeyRead
  <2> QED BY <2>1 DEF ReadKey
<1>6. s[r] \in {Word(x), String(x)}
  <2>1. 1 \in 1 .. Len(value) /\ r = r + 1 - 1
    BY <1>2
  <2>2. At(s, r, value) /\ r \in Nat \ {0}
    BY <1>2, <1>5
  <2>3. s[r] = value[1]
    BY <2>1, <2>2, AtFirst
  <2> QED BY <2>3
<1>7. ValueEnd(s, r) = r + 1 /\ Value(s, r, r + 1) = x
  BY <1>2, <1>5, <1>6, TokenRead
<1>8. (p + 1) + 1 = p + 2
  OBVIOUS
<1> QED BY <1>2, <1>5, <1>7, <1>8 DEF Member

(* What the parser meets around member i of an object.                        *)
LEMMA AroundMember ==
    ASSUME NEW members \in Seq(Seq(Lexemes)), NEW style \in Styles, NEW s \in Seq(Lexemes), NEW p \in Nat \ {0},
           At(s, p, Braces(members, style)), NEW i \in 1 .. Len(members),
           NEW from, from = Start(members, style, p, i), Kind(s, from) # "space", from <= Len(s),
           NEW prev, prev = Stopping(members, style, p, i - 1)
    PROVE  /\ i = 1 => SkipWs(s, p + 1) = from
           /\ i > 1 => /\ prev \in 1 .. Len(s) /\ Kind(s, prev) = "comma"
                       /\ SkipWs(s, prev) = prev /\ SkipWs(s, prev + 1) = from
<1> DEFINE pad == Space(style.pad)
           gap == Space(style.gap)
           w == Len(pad)
           g == Len(gap)
<1>0. pad \in Seq(Lexemes) /\ gap \in Seq(Lexemes) /\ w \in Nat /\ g \in Nat
  BY StyleParts, SpaceText
<1>1. /\ At(s, p, <<Mark("open")>> \o pad)
      /\ i = 1 => from = p + 1 + w
      /\ i > 1 => prev \in Nat /\ prev > p /\ At(s, prev, <<Mark("comma")>> \o gap) /\ from = prev + 1 + g
  BY MemberOfBraces, ZenonT(60)
<1> HIDE DEF w, g
<1>2. ASSUME i = 1 PROVE SkipWs(s, p + 1) = from
  <2> DEFINE open == <<Mark("open")>>
  <2>1. open \in Seq(Lexemes) /\ Len(open) = 1
    BY TokenTexts
  <2>2. At(s, p, open \o pad)
    BY <1>1
  <2> HIDE DEF open, pad
  <2>3. At(s, p + 1, pad)
    BY <1>0, <2>1, <2>2, AtParts
  <2>4. from = (p + 1) + w /\ p + 1 \in Nat \ {0}
    BY <1>0, <1>1, <1>2
  <2> QED BY <2>3, <2>4, StyleParts, SkipsSpace DEF pad, w
<1>3. ASSUME i > 1
      PROVE  /\ prev \in 1 .. Len(s) /\ Kind(s, prev) = "comma"
             /\ SkipWs(s, prev) = prev /\ SkipWs(s, prev + 1) = from
  <2> DEFINE comma == <<Mark("comma")>>
  <2>1. comma \in Seq(Lexemes) /\ Len(comma) = 1 /\ Mark("comma") \in Lexemes /\ Mark("comma").kind = "comma"
    BY TokenTexts DEF Mark
  <2>2. prev \in Nat \ {0} /\ At(s, prev, comma \o gap) /\ from = (prev + 1) + g /\ prev + 1 \in Nat \ {0}
    BY <1>0, <1>1, <1>3
  <2> HIDE DEF comma, gap
  <2>3. At(s, prev, comma) /\ At(s, prev + 1, gap)
    BY <1>0, <2>1, <2>2, AtParts, ZenonT(60)
  <2>4. prev \in 1 .. Len(s) /\ Kind(s, prev) = "comma"
    BY <2>1, <2>2, <2>3, AtOne DEF comma
  <2>5. SkipWs(s, prev + 1) = from
    BY <2>2, <2>3, StyleParts, SkipsSpace DEF gap, g
  <2> QED BY <2>4, <2>5, StaysHere
<1> QED BY <1>2, <1>3

(* And at its brackets.                                                       *)
LEMMA Brackets ==
    ASSUME NEW members \in Seq(Seq(Lexemes)), NEW style \in Styles, NEW s \in Seq(Lexemes), NEW p \in Nat \ {0},
           At(s, p, Braces(members, style)), Len(members) > 0,
           NEW last, last = Stopping(members, style, p, Len(members))
    PROVE  /\ p \in 1 .. Len(s) /\ Kind(s, p) = "open" /\ SkipWs(s, p) = p
           /\ last \in 1 .. Len(s) /\ Kind(s, last) \in {"close", "space"}
           /\ Kind(s, SkipWs(s, last)) = "close"
<1> DEFINE pad == Space(style.pad)
           w == Len(pad)
           n == Len(members)
<1>0. pad \in Seq(Lexemes) /\ w \in Nat /\ n \in 1 .. Len(members) /\ n = Len(members)
  BY StyleParts, SpaceText
<1>1. /\ At(s, p, <<Mark("open")>> \o pad)
      /\ last \in Nat /\ last > p /\ At(s, last, pad) /\ At(s, last + w, <<Mark("close")>>)
  <2> HIDE DEF n
  <2> QED BY <1>0, MemberOfBraces DEF n
<1>2. At(s, p, <<Mark("open")>>)
  <2> DEFINE open == <<Mark("open")>>
  <2>1. open \in Seq(Lexemes)
    BY TokenTexts
  <2>2. At(s, p, open \o pad)
    BY <1>1
  <2> HIDE DEF open, pad
  <2>3. At(s, p, open)
    BY <1>0, <2>1, <2>2, AtParts
  <2> QED BY <2>3 DEF open
<1>3. p \in 1 .. Len(s) /\ Kind(s, p) = "open"
  BY <1>2, TokenTexts, AtOne DEF Mark
<1>4. SkipWs(s, p) = p
  BY <1>3, StaysHere
<1> DEFINE q == last + w
<1>5. q \in Nat \ {0} /\ q >= last
  <2> HIDE DEF w
  <2> QED BY <1>0, <1>1
<1>6. q \in 1 .. Len(s) /\ Kind(s, q) = "close"
  <2> HIDE DEF q
  <2> QED BY <1>1, <1>5, TokenTexts, AtOne DEF Mark, q
<1>7. SkipWs(s, last) = q
  <2>1. q = last + Len(Space(style.pad)) /\ q <= Len(s) /\ Kind(s, q) # "space"
    BY <1>6
  <2> HIDE DEF q
  <2> QED BY <1>1, <2>1, StyleParts, SkipsSpace
<1>8. last \in 1 .. Len(s) /\ last \in DOMAIN s
  <2> HIDE DEF q
  <2> QED BY <1>1, <1>5, <1>6
<1>9. Kind(s, last) \in {"close", "space"}
  <2>1. CASE w = 0
    BY <1>1, <1>6, <2>1
  <2>2. CASE w # 0
    <3>1. w = 1 /\ pad[1] = Mark("space")
      BY <2>2, StyleParts, SpaceText
    <3>2. 1 \in 1 .. Len(pad) /\ last = last + 1 - 1
      BY <1>1, <3>1
    <3>3. Kind(s, last) = pad[1].kind
      <4> HIDE DEF pad
      <4> QED BY <1>0, <1>1, <3>2, AtFirst
    <3> QED BY <3>1, <3>3 DEF Mark
  <2> QED BY <2>1, <2>2
<1> QED BY <1>3, <1>4, <1>6, <1>7, <1>8, <1>9

(* Members in a row: the loop goes from each to the next and returns them all. *)
InARow(s, n, pos) ==
    /\ n \in Nat \ {0}
    /\ \A i \in 1 .. n :
          /\ pos[i] \in 1 .. Len(s) + 1
          /\ Member(s, pos[i]).ok
          /\ i < n => Kind(s, Following(s, pos[i])) = "comma" /\ Onward(s, pos[i]) = pos[i + 1]
          /\ i = n => Kind(s, Following(s, pos[i])) = "close"

Lists(object, s, k, n, pos) ==
    /\ object = [ok |-> TRUE, list |-> object.list]
    /\ object.list \in Seq({Member(s, pos[i]) : i \in 1 .. n})
    /\ Len(object.list) = n - k
    /\ \A i \in 1 .. n - k : object.list[i] = Member(s, pos[k + i])

(* A sequence with one element before it.                                              *)
LEMMA Prepended ==
    ASSUME NEW S, NEW x \in S, NEW u \in Seq(S)
    PROVE  /\ <<x>> \o u \in Seq(S)
           /\ Len(<<x>> \o u) = Len(u) + 1
           /\ (<<x>> \o u)[1] = x
           /\ \A i \in 1 .. Len(u) : (<<x>> \o u)[i + 1] = u[i]
OBVIOUS

(* Members in a row are the list that parseObject returns.                             *)
LEMMA RowRead ==
    ASSUME NEW S, NEW s \in Seq(S), NEW n, NEW pos, InARow(s, n, pos)
    PROVE  Lists(Members(s)[pos[1]], s, 0, n, pos)
<1> DEFINE T == {k \in 0 .. n - 1 : Lists(Members(s)[pos[n - k]], s, n - k - 1, n, pos)}
           All == {Member(s, pos[i]) : i \in 1 .. n}
<1>0. n \in Nat \ {0} /\ n - 1 \in Nat
  BY DEF InARow
<1>1. \A i \in 1 .. n : /\ Members(s)[pos[i]] = Turn(s, pos[i], Members(s)[Onward(s, pos[i])])
                        /\ Member(s, pos[i]) \in All
  BY MembersUnfolds DEF InARow
<1>2. 0 \in T
  <2> DEFINE m == Member(s, pos[n])
  <2>1. n \in 1 .. n /\ n - 0 = n /\ n - 0 - 1 = n - 1 /\ n - (n - 1) = 1 /\ n - 1 + 1 = n
    BY <1>0
  <2>2. m.ok /\ Kind(s, Following(s, pos[n])) = "close"
    BY <2>1 DEF InARow
  <2>3. Members(s)[pos[n]] = [ok |-> TRUE, list |-> <<m>>]
    BY <1>1, <2>1, <2>2 DEF Turn
  <2>4. m \in All
    BY <1>1, <2>1
  <2> HIDE DEF m, All
  <2>5. <<m>> \in Seq(All) /\ Len(<<m>>) = 1 /\ <<m>>[1] = m
    BY <2>4
  <2>6. \A i \in 1 .. 1 : i = 1
    OBVIOUS
  <2>7. Lists(Members(s)[pos[n]], s, n - 1, n, pos)
    <3> DEFINE o == Members(s)[pos[n]]
    <3>1. o.list = <<m>> /\ o = [ok |-> TRUE, list |-> o.list]
      BY <2>3
    <3>2. \A i \in 1 .. n - (n - 1) : o.list[i] = Member(s, pos[(n - 1) + i])
      BY <2>1, <2>5, <2>6, <3>1 DEF m
    <3> HIDE DEF o
    <3> QED BY <2>1, <2>5, <3>1, <3>2 DEF Lists, All, o
  <2> QED BY <1>0, <2>1, <2>7
<1>3. ASSUME NEW k \in 0 .. (n - 1) - 1, k \in T PROVE k + 1 \in T
  <2> DEFINE j == n - (k + 1)
             m == Member(s, pos[j])
             rest == Members(s)[pos[j + 1]]
  <2>1. j \in 1 .. n /\ j < n /\ j + 1 \in 1 .. n /\ j + 1 = n - k /\ n - k - 1 = j /\ n - (k + 1) = j
    BY <1>0
  <2>2. Lists(rest, s, j, n, pos)
    BY <1>3, <2>1
  <2>3. m.ok /\ Kind(s, Following(s, pos[j])) = "comma" /\ Onward(s, pos[j]) = pos[j + 1]
    BY <2>1 DEF InARow
  <2>4. rest.ok
    <3>1. rest = [ok |-> TRUE, list |-> rest.list]
      BY <2>2 DEF Lists
    <3> HIDE DEF rest
    <3> QED BY <3>1
  <2>5. Members(s)[pos[j]] = [ok |-> TRUE, list |-> <<m>> \o rest.list]
    <3> HIDE DEF j, rest
    <3>1. Members(s)[pos[j]] = Turn(s, pos[j], rest)
      BY <1>1, <2>1, <2>3 DEF rest
    <3> QED BY <2>3, <2>4, <3>1 DEF Turn
  <2>6. m \in All /\ rest.list \in Seq(All) /\ Len(rest.list) = n - j
    BY <1>1, <2>1, <2>2 DEF Lists
  <2>7. \A i \in 1 .. n - j : rest.list[i] = Member(s, pos[j + i])
    BY <2>2 DEF Lists
  <2> DEFINE u == rest.list
             o == Members(s)[pos[j]]
  <2>8. o.list = <<m>> \o u /\ o = [ok |-> TRUE, list |-> o.list]
    BY <2>5
  <2> HIDE DEF All, u, o
  <2>9. /\ o.list \in Seq(All) /\ Len(o.list) = Len(u) + 1
        /\ o.list[1] = m /\ \A i \in 1 .. Len(u) : o.list[i + 1] = u[i]
    <3> HIDE DEF m
    <3>1. u \in Seq(All)
      BY <2>6 DEF u
    <3> QED BY <2>6, <2>8, <3>1, Prepended
  <2>10. n - (j - 1) = Len(u) + 1 /\ Len(u) = n - j /\ j - 1 = n - (k + 1) - 1
    BY <1>0, <2>1, <2>6 DEF u
  <2>11. \A i \in 1 .. n - (j - 1) : o.list[i] = Member(s, pos[(j - 1) + i])
    <3> TAKE i \in 1 .. n - (j - 1)
    <3>1. CASE i = 1
      <4>1. (j - 1) + 1 = j
        BY <1>0
      <4> QED BY <2>9, <3>1, <4>1
    <3>2. CASE i # 1
      <4> DEFINE h == i - 1
      <4>1. h \in 1 .. Len(u) /\ h + 1 = i /\ j + h = (j - 1) + i
        BY <1>0, <2>10, <3>2
      <4> HIDE DEF h
      <4> QED BY <2>7, <2>9, <2>10, <4>1 DEF u
    <3> QED BY <3>1, <3>2
  <2>12. Lists(o, s, j - 1, n, pos)
    BY <2>8, <2>9, <2>10, <2>11 DEF Lists, All
  <2>13. n - (k + 1) = j
    OBVIOUS
  <2> QED BY <1>0, <2>10, <2>12, <2>13 DEF o
<1>4. n - 1 \in T
  <2> DEFINE l == n - 1
  <2>1. \A k \in 0 .. l - 1 : k \in T => k + 1 \in T
    BY <1>3
  <2> HIDE DEF T, l
  <2>2. l \in Nat
    BY <1>0 DEF l
  <2>3. 0 .. l \subseteq T
    BY <1>2, <2>1, <2>2, UpTo
  <2>4. l \in T
    BY <2>2, <2>3
  <2> QED BY <2>4 DEF l
<1>5. n - (n - 1) = 1 /\ n - (n - 1) - 1 = 0
  BY <1>0
<1> QED BY <1>4, <1>5

(* A key that occurs once has the value that stands with it.                           *)
LEMMA LookupIs ==
    ASSUME NEW object, NEW S, object.list \in Seq(S), NEW j \in 1 .. Len(object.list),
           NEW key, object.list[j].key = key,
           \A i \in 1 .. Len(object.list) : object.list[i].key = key => i = j
    PROVE  key \in Keys(object) /\ Lookup(object, key) = object.list[j].value
<1> DEFINE l == object.list
           Last(i) == l[i].key = key /\ \A h \in i + 1 .. Len(l) : l[h].key # key
<1>1. DOMAIN l = 1 .. Len(l) /\ Len(l) \in Nat
  OBVIOUS
<1>2. Last(j)
  BY <1>1
<1>3. \A i \in DOMAIN l : Last(i) => i = j
  BY <1>1
<1>4. (CHOOSE i \in DOMAIN l : Last(i)) = j
  <2> HIDE DEF Last, l
  <2>1. j \in DOMAIN l
    BY <1>1 DEF l
  <2> QED BY <1>2, <1>3, <2>1
<1>5. Lookup(object, key) = l[CHOOSE i \in DOMAIN l : Last(i)].value
  BY DEF Lookup
<1>6. key \in Keys(object)
  BY <1>1 DEF Keys
<1> QED BY <1>4, <1>5, <1>6

-----------------------------------------------------------------------------
(* Texts of objects whose members are pairs.                                  *)
Given(value) == value \in Seq(Lexemes) /\ Len(value) > 0 /\ value[1].kind # "space"

PairsOf(members, keys, values, style) ==
    /\ members \in Seq(Seq(Lexemes)) /\ Len(members) > 0
    /\ \A i \in 1 .. Len(members) :
          members[i] = Pair(keys[i], values[i], style) /\ keys[i] \in Values /\ Given(values[i])

(* A pair is a text, and how long it is.                                               *)
LEMMA PairText ==
    ASSUME NEW style \in Styles, NEW key \in Values, NEW value \in Seq(Lexemes)
    PROVE  /\ Pair(key, value, style) \in Seq(Lexemes)
           /\ Len(Pair(key, value, style)) = 2 + Len(Space(style.gap)) + Len(value)
<1> DEFINE head == <<String(key), Mark("colon")>>
           gap  == Space(style.gap)
<1>1. head \in Seq(Lexemes) /\ Len(head) = 2
  BY TokenTexts
<1>2. gap \in Seq(Lexemes)
  BY StyleParts, SpaceText
<1>3. Pair(key, value, style) = (head \o gap) \o value
  BY DEF Pair
<1> HIDE DEF head, gap
<1>4. head \o gap \in Seq(Lexemes) /\ Len(head \o gap) = 2 + Len(gap)
  BY <1>1, <1>2, Concat
<1> QED BY <1>3, <1>4, Concat DEF gap

(* Where the parser is when it reads pair i of an object.                              *)
LEMMA PairStarts ==
    ASSUME NEW members, NEW keys, NEW values, NEW style \in Styles, PairsOf(members, keys, values, style),
           NEW s \in Seq(Lexemes), NEW p \in Nat \ {0}, At(s, p, Braces(members, style)),
           NEW i \in 1 .. Len(members),
           NEW from, from = Start(members, style, p, i),
           NEW q, q = from + 2 + Len(Space(style.gap))
    PROVE  /\ from \in 1 .. Len(s) /\ from > p
           /\ SkipWs(s, from) = from /\ Kind(s, from) = "string" /\ s[from].text = keys[i]
           /\ SkipWs(s, from + 1) = from + 1 /\ Kind(s, from + 1) = "colon" /\ from + 1 \in 1 .. Len(s)
           /\ SkipWs(s, from + 2) = q /\ q \in 1 .. Len(s) /\ At(s, q, values[i])
           /\ At(s, from, Pair(keys[i], values[i], style))
<1>1. members \in Seq(Seq(Lexemes)) /\ members[i] = Pair(keys[i], values[i], style) /\ keys[i] \in Values
      /\ values[i] \in Seq(Lexemes) /\ Len(values[i]) > 0 /\ values[i][1].kind # "space"
  BY DEF PairsOf, Given
<1>2. from \in Nat \ {0} /\ from > p /\ At(s, from, Pair(keys[i], values[i], style))
  <2>1. from \in Nat /\ from > p /\ At(s, from, members[i])
    BY <1>1, MemberOfBraces
  <2> QED BY <1>1, <2>1
<1>3. /\ SkipWs(s, from) = from /\ Kind(s, from) = "string" /\ s[from].text = keys[i]
      /\ SkipWs(s, from + 1) = from + 1 /\ Kind(s, from + 1) = "colon"
      /\ SkipWs(s, from + 2) = q /\ q \in 1 .. Len(s) /\ At(s, q, values[i])
  <2> DEFINE v == values[i]
             k == keys[i]
  <2>1. v \in Seq(Lexemes) /\ Len(v) > 0 /\ v[1].kind # "space" /\ k \in Values /\ At(s, from, Pair(k, v, style))
    BY <1>1, <1>2
  <2> HIDE DEF v, k
  <2>2. /\ SkipWs(s, from) = from /\ Kind(s, from) = "string" /\ s[from].text = k
        /\ SkipWs(s, from + 1) = from + 1 /\ Kind(s, from + 1) = "colon"
        /\ SkipWs(s, from + 2) = q /\ q \in 1 .. Len(s) /\ At(s, q, v)
    <3>1. ReadKey(s, from, k, q, v)
      BY <1>2, <2>1, KeyRead
    <3> QED BY <3>1 DEF ReadKey
  <2> QED BY <2>2 DEF v, k
<1>4. from \in DOMAIN s /\ from + 1 \in DOMAIN s
  BY <1>3, KindInside
<1> QED BY <1>2, <1>3, <1>4

(* The parser's way from one pair to the next.                                *)
LEMMA PairsAround ==
    ASSUME NEW members, NEW keys, NEW values, NEW style \in Styles, PairsOf(members, keys, values, style),
           NEW s \in Seq(Lexemes), NEW p \in Nat \ {0}, At(s, p, Braces(members, style)),
           NEW i \in 1 .. Len(members),
           NEW end, end = Stopping(members, style, p, i)
    PROVE  /\ end \in 1 .. Len(s)
           /\ Kind(s, end) \in {"comma", "close", "space"}
           /\ i < Len(members) => /\ Kind(s, end) = "comma" /\ SkipWs(s, end) = end
                                  /\ SkipWs(s, end + 1) = Start(members, style, p, i + 1)
           /\ i = Len(members) => Kind(s, SkipWs(s, end)) = "close"
<1>1. members \in Seq(Seq(Lexemes)) /\ Len(members) > 0
  BY DEF PairsOf
<1>2. CASE i < Len(members)
  <2> DEFINE j == i + 1
             from == Start(members, style, p, j)
  <2>1. j \in 1 .. Len(members) /\ j > 1 /\ j - 1 = i
    BY <1>1, <1>2
  <2>2. end = Stopping(members, style, p, j - 1)
    BY <2>1
  <2> HIDE DEF j
  <2>3. from \in 1 .. Len(s) /\ Kind(s, from) = "string"
    BY <2>1, PairStarts
  <2> HIDE DEF from
  <2>4. from <= Len(s) /\ Kind(s, from) # "space" /\ from = Start(members, style, p, j)
    BY <2>3 DEF from
  <2>5. end \in 1 .. Len(s) /\ Kind(s, end) = "comma" /\ SkipWs(s, end) = end /\ SkipWs(s, end + 1) = from
    BY <1>1, <2>1, <2>2, <2>4, AroundMember
  <2> QED BY <1>2, <2>5 DEF from, j
<1>3. CASE i = Len(members)
  <2>1. end = Stopping(members, style, p, Len(members))
    BY <1>3
  <2>2. end \in 1 .. Len(s) /\ Kind(s, end) \in {"close", "space"} /\ Kind(s, SkipWs(s, end)) = "close"
    BY <1>1, <2>1, Brackets
  <2> QED BY <1>3, <2>2
<1> QED BY <1>1, <1>2, <1>3

(* parseObject begins with the first pair.                                             *)
LEMMA ObjectRead ==
    ASSUME NEW members, NEW keys, NEW values, NEW style \in Styles, PairsOf(members, keys, values, style),
           NEW s \in Seq(Lexemes), NEW p \in Nat \ {0}, At(s, p, Braces(members, style))
    PROVE  /\ p \in 1 .. Len(s) /\ Kind(s, p) = "open"
           /\ Object(s, p) = Members(s)[Start(members, style, p, 1)]
           /\ SkipWs(s, p + 1) = Start(members, style, p, 1)
<1> DEFINE from == Start(members, style, p, 1)
<1>1. members \in Seq(Seq(Lexemes)) /\ Len(members) > 0 /\ 1 \in 1 .. Len(members)
  BY DEF PairsOf
<1>2. from \in 1 .. Len(s) /\ Kind(s, from) = "string"
  BY <1>1, PairStarts
<1>3. p \in 1 .. Len(s) /\ Kind(s, p) = "open" /\ SkipWs(s, p) = p
  BY <1>1, Brackets
<1>4. SkipWs(s, p + 1) = from
  <2>1. from <= Len(s) /\ Kind(s, from) # "space"
    BY <1>2
  <2> QED BY <1>1, <2>1, AroundMember
<1> HIDE DEF from
<1>5. Object(s, p) = Members(s)[from]
  BY <1>2, <1>3, <1>4 DEF Object
<1> QED BY <1>3, <1>4, <1>5 DEF from

(* A pair whose value is a single token.                                      *)
LEMMA TokenPair ==
    ASSUME NEW members, NEW keys, NEW values, NEW style \in Styles, PairsOf(members, keys, values, style),
           NEW s \in Seq(Lexemes), NEW p \in Nat \ {0}, At(s, p, Braces(members, style)),
           NEW i \in 1 .. Len(members), NEW x \in Values, values[i] \in {<<Word(x)>>, <<String(x)>>},
           NEW from, from = Start(members, style, p, i)
    PROVE  /\ Member(s, from) = [ok |-> TRUE, key |-> keys[i], value |-> x, end |-> Stopping(members, style, p, i)]
           /\ i < Len(members) => /\ Kind(s, Following(s, from)) = "comma"
                                  /\ Onward(s, from) = Start(members, style, p, i + 1)
           /\ i = Len(members) => Kind(s, Following(s, from)) = "close"
<1> DEFINE end == Stopping(members, style, p, i)
           g   == Len(Space(style.gap))
<1>1. PICK token \in {Word(x), String(x)} : values[i] = <<token>>
  OBVIOUS
<1>2. from \in 1 .. Len(s) /\ At(s, from, Pair(keys[i], <<token>>, style))
  <2>1. from \in 1 .. Len(s) /\ At(s, from, Pair(keys[i], values[i], style))
    BY PairStarts
  <2> QED BY <1>1, <2>1
<1>3. /\ end \in 1 .. Len(s) /\ Kind(s, end) \in {"comma", "close", "space"}
      /\ i < Len(members) => /\ Kind(s, end) = "comma" /\ SkipWs(s, end) = end
                             /\ SkipWs(s, end + 1) = Start(members, style, p, i + 1)
      /\ i = Len(members) => Kind(s, SkipWs(s, end)) = "close"
  BY PairsAround
<1>4. keys[i] \in Values /\ members[i] = Pair(keys[i], <<token>>, style)
  BY <1>1 DEF PairsOf
<1>5. end = from + 3 + g
  <2> DEFINE t == <<token>>
             l == Len(members[i])
  <2>1. t \in Seq(Lexemes) /\ Len(t) = 1
    BY TokenTexts
  <2>2. g \in Nat
    BY StyleParts, SpaceText
  <2> HIDE DEF t, g
  <2>3. Len(Pair(keys[i], t, style)) = 2 + g + 1
    BY <1>4, <2>1, PairText, ZenonT(60) DEF g
  <2>4. l = 2 + g + 1
    BY <1>4, <2>3 DEF t
  <2>5. end = from + l
    BY DEF Stopping
  <2> HIDE DEF l, end
  <2> QED BY <1>2, <2>2, <2>4, <2>5
<1> HIDE DEF end
<1>6. Member(s, from) = [ok |-> TRUE, key |-> keys[i], value |-> x, end |-> end]
  <2> DEFINE k == keys[i]
             v == <<token>>
  <2>1. /\ k \in Values /\ At(s, from, Pair(k, v, style)) /\ from \in Nat \ {0}
        /\ v \in Seq(Lexemes) /\ Len(v) = 1 /\ v[1] \in {Word(x), String(x)}
    BY <1>2, <1>4, TokenTexts
  <2> HIDE DEF k, v
  <2>2. Member(s, from) = [ok |-> TRUE, key |-> k, value |-> x, end |-> end]
    <3>1. end = from + 3 + Len(Space(style.gap)) /\ end \in 1 .. Len(s) /\ Kind(s, end) \in {"comma", "close", "space"}
      BY <1>3, <1>5
    <3> HIDE DEF g
    <3> QED BY <2>1, <3>1, PairRead
  <2> QED BY <2>2 DEF k
<1>7. Following(s, from) = SkipWs(s, end)
  BY <1>6 DEF Following
<1>8. i < Len(members) => Onward(s, from) = Start(members, style, p, i + 1)
  BY <1>3, <1>7 DEF Onward
<1> QED BY <1>3, <1>6, <1>7, <1>8 DEF end

(* Texts that are empty, or begin with a bracket.                                      *)
LEMMA JoinedNone ==
    ASSUME NEW S, NEW members \in Seq(S), NEW style
    PROVE  Joined(members, style)[0] = << >>
<1>1. 0 \in 0 .. Len(members)
  OBVIOUS
<1> QED BY <1>1, JoinedUnfolds

LEMMA ConcatHead ==
    ASSUME NEW t \in Seq(Lexemes), Len(t) > 0, NEW u \in Seq(Lexemes)
    PROVE  t \o u \in Seq(Lexemes) /\ Len(t \o u) > 0 /\ (t \o u)[1] = t[1]
OBVIOUS

LEMMA BracesText ==
    ASSUME NEW members \in Seq(Seq(Lexemes)), NEW style \in Styles
    PROVE  Given(Braces(members, style)) /\ Braces(members, style)[1] = Mark("open")
<1> DEFINE open == <<Mark("open")>>
           shut == <<Mark("close")>>
           pad  == Space(style.pad)
           all  == Joined(members, style)[Len(members)]
           tail == pad \o all \o pad \o shut
<1>1. open \in Seq(Lexemes) /\ Len(open) = 1 /\ shut \in Seq(Lexemes) /\ open[1] = Mark("open")
  BY TokenTexts
<1>2. pad \in Seq(Lexemes) /\ all \in Seq(Lexemes)
  BY StyleParts, SpaceText, JoinedText
<1>3. Braces(members, style) = (((open \o pad) \o all) \o pad) \o shut
  BY DEF Braces
<1> HIDE DEF open, shut, pad, all
<1>4. open \o pad \in Seq(Lexemes) /\ Len(open \o pad) > 0 /\ (open \o pad)[1] = Mark("open")
  <2>1. Len(open) > 0
    BY <1>1
  <2> QED BY <1>1, <1>2, <2>1, ConcatHead
<1>5. /\ (open \o pad) \o all \in Seq(Lexemes) /\ Len((open \o pad) \o all) > 0
      /\ ((open \o pad) \o all)[1] = Mark("open")
  <2> DEFINE a == open \o pad
  <2> HIDE DEF a
  <2>1. a \in Seq(Lexemes) /\ Len(a) > 0 /\ a[1] = Mark("open")
    BY <1>4 DEF a
  <2>2. a \o all \in Seq(Lexemes) /\ Len(a \o all) > 0 /\ (a \o all)[1] = Mark("open")
    BY <1>2, <2>1
  <2> QED BY <2>2 DEF a
<1> DEFINE b == (open \o pad) \o all
<1> HIDE DEF b
<1>6. b \in Seq(Lexemes) /\ Len(b) > 0 /\ b[1] = Mark("open")
  BY <1>5 DEF b
<1>7. b \o pad \in Seq(Lexemes) /\ Len(b \o pad) > 0 /\ (b \o pad)[1] = Mark("open")
  BY <1>2, <1>6
<1> DEFINE c == b \o pad
<1> HIDE DEF c
<1>8. c \in Seq(Lexemes) /\ Len(c) > 0 /\ c[1] = Mark("open")
  BY <1>7 DEF c
<1>9. c \o shut \in Seq(Lexemes) /\ Len(c \o shut) > 0 /\ (c \o shut)[1] = Mark("open")
  BY <1>1, <1>8
<1>10. Braces(members, style) = c \o shut
  BY <1>3 DEF c, b
<1> QED BY <1>9, <1>10 DEF Given, Mark

(* An object without members.  parsePrimitive, when it meets one, stops at its bracket.*)
LEMMA EmptyRead ==
    ASSUME NEW style \in Styles, NEW s \in Seq(Lexemes), NEW p \in Nat \ {0}, At(s, p, Braces(<< >>, style))
    PROVE  /\ p \in 1 .. Len(s) /\ Kind(s, p) = "open"
           /\ Object(s, p) = [ok |-> TRUE, list |-> << >>]
           /\ ValueEnd(s, p) = p + 1 /\ Kind(s, SkipWs(s, p + 1)) = "close"
<1> DEFINE open == <<Mark("open")>>
           shut == <<Mark("close")>>
           pad  == Space(style.pad)
           w    == Len(pad)
           none == << >>
<1>1. open \in Seq(Lexemes) /\ Len(open) = 1 /\ shut \in Seq(Lexemes) /\ none \in Seq(Lexemes) /\ Len(none) = 0
  BY TokenTexts
<1>2. pad \in Seq(Lexemes) /\ w \in 0 .. 1
  BY StyleParts, SpaceText
<1>3. At(s, p, (((open \o pad) \o none) \o pad) \o shut)
  <2>1. none \in Seq(Seq(Lexemes)) /\ 0 \in 0 .. Len(none) /\ Len(none) = 0
    OBVIOUS
  <2>2. Joined(none, style)[0] = none
    <3> HIDE DEF none
    <3>1. Joined(none, style)[0] = << >>
      BY <2>1, JoinedNone, Zenon
    <3> QED BY <3>1, Zenon DEF none
  <2> HIDE DEF none
  <2>3. At(s, p, Braces(none, style))
    BY DEF none
  <2> QED BY <2>1, <2>2, <2>3 DEF Braces
<1> HIDE DEF open, shut, pad, w, none
<1> DEFINE a == open \o pad
           b == a \o none
           c == b \o pad
<1>4. a \in Seq(Lexemes) /\ Len(a) = 1 + w
  BY <1>1, <1>2, Concat, ZenonT(60) DEF w
<1>5. b \in Seq(Lexemes) /\ Len(b) = 1 + w
  <2> HIDE DEF a
  <2> QED BY <1>1, <1>2, <1>4, Concat
<1>6. c \in Seq(Lexemes) /\ Len(c) = 1 + w + w
  <2> HIDE DEF b
  <2>1. Len(c) = Len(b) + Len(pad) /\ c \in Seq(Lexemes)
    BY <1>2, <1>5, Concat
  <2> HIDE DEF c
  <2> QED BY <1>2, <1>5, <2>1 DEF w
<1>7. At(s, p, c) /\ At(s, p + (1 + w + w), shut)
  <2>1. At(s, p, c \o shut)
    BY <1>3
  <2> HIDE DEF c
  <2> QED BY <1>1, <1>6, <2>1, AtParts
<1>8. At(s, p, b) /\ At(s, p + (1 + w), pad)
  <2> HIDE DEF b
  <2> QED BY <1>2, <1>5, <1>7, AtParts
<1>9. At(s, p, a)
  <2> HIDE DEF a
  <2> QED BY <1>1, <1>4, <1>8, AtParts
<1>10. At(s, p, open) /\ At(s, p + 1, pad)
  BY <1>1, <1>2, <1>9, AtParts
<1> HIDE DEF a, b, c
<1> DEFINE e == p + 1
           r == p + (1 + w + w)
<1>11. p \in 1 .. Len(s) /\ Kind(s, p) = "open"
  BY <1>10, TokenTexts, AtOne DEF open, Mark
<1>12. r \in 1 .. Len(s) /\ Kind(s, r) = "close"
  <2>1. r \in Nat \ {0}
    BY <1>2
  <2> HIDE DEF r
  <2>2. At(s, r, shut)
    BY <1>7 DEF r
  <2> QED BY <2>1, <2>2, TokenTexts, AtOne DEF shut, Mark
<1>13. e \in Nat \ {0} /\ r \in e .. Len(s) /\ e \in 1 .. Len(s)
  <2> HIDE DEF e, r
  <2>1. r = p + (1 + w + w) /\ e = p + 1 /\ Len(s) \in Nat
    BY DEF e, r
  <2> QED BY <1>2, <1>12, <2>1
<1>14. \A i \in e .. r - 1 : s[i] = Mark("space")
  <2>1. CASE w = 0
    <3>1. r = e
      BY <2>1
    <3>2. \A i \in e .. r - 1 : FALSE
      <4> HIDE DEF e, r
      <4> QED BY <1>13, <3>1
    <3> QED BY <3>2
  <2>2. CASE w = 1
    <3>1. pad[1] = Mark("space") /\ 1 \in 1 .. Len(pad)
      BY <2>2, StyleParts, SpaceText DEF pad, w
    <3>2. e = e + 1 - 1 /\ e + 1 = (p + (1 + w)) + 1 - 1 /\ r = e + 2 /\ p + (1 + w) \in Nat \ {0}
      BY <2>2
    <3>3. s[e] = Mark("space")
      <4>1. At(s, e, pad)
        BY <1>10
      <4> HIDE DEF e
      <4> QED BY <1>2, <1>13, <3>1, <4>1, AtStarts
    <3>4. s[e + 1] = Mark("space")
      <4> DEFINE f == e + 1
      <4>1. f = p + (1 + w) /\ f \in Nat \ {0}
        BY <3>2
      <4> HIDE DEF f, e, r
      <4>2. At(s, f, pad)
        BY <1>8, <4>1
      <4>3. s[f] = pad[1]
        BY <1>2, <3>1, <4>1, <4>2, AtStarts
      <4> QED BY <3>1, <4>3 DEF f
    <3>5. \A i \in e .. r - 1 : i = e \/ i = e + 1
      <4> HIDE DEF e, r
      <4> QED BY <1>13, <3>2
    <3> QED BY <3>3, <3>4, <3>5
  <2> QED BY <1>2, <2>1, <2>2
<1> HIDE DEF r
<1>15. SkipWs(s, e) = r
  <2> HIDE DEF e
  <2> QED BY <1>12, <1>13, <1>14, SkipsTo
<1>16. Kind(s, e) \in {"close", "space"}
  <2>1. CASE e = r
    BY <1>12, <2>1
  <2>2. CASE e # r
    <3>1. e \in e .. r - 1
      <4> HIDE DEF e
      <4> QED BY <1>13, <2>2
    <3>2. s[e] = Mark("space")
      BY <1>14, <3>1
    <3>3. Kind(s, e) = s[e].kind
      <4> HIDE DEF e
      <4> QED BY <1>13, KindOf
    <3> QED BY <3>2, <3>3 DEF Mark
  <2> QED BY <2>1, <2>2
<1>17. SkipWs(s, p) = p
  BY <1>11, StaysHere
<1>18. Object(s, p) = [ok |-> TRUE, list |-> << >>]
  BY <1>11, <1>12, <1>15, <1>17 DEF Object
<1>19. ValueEnd(s, p) = e
  <2> DEFINE kinds == {"comma", "close", "space"}
  <2>1. Kind(s, p) \notin kinds /\ Kind(s, e) \in kinds
    BY <1>11, <1>16
  <2>2. e \in p .. Len(s) + 1 /\ e <= Len(s) /\ \A i \in p .. e - 1 : i = p
    BY <1>13
  <2>3. Stop(s, p, kinds, e)
    BY <2>1, <2>2 DEF Stop
  <2> HIDE DEF kinds, e
  <2>4. FirstOf(s, p, kinds) = e
    BY <2>2, <2>3, FirstOfIs
  <2> QED BY <1>11, <2>4 DEF ValueEnd, kinds
<1> QED BY <1>11, <1>12, <1>15, <1>18, <1>19

-----------------------------------------------------------------------------
(* The parameters of a request.                                               *)
Inner(params, keys, style) == [i \in DOMAIN keys |-> Pair(keys[i], <<String(params[keys[i]])>>, style)]
InnerValues(params, keys)  == [i \in DOMAIN keys |-> <<String(params[keys[i]])>>]

(* The object of parameters consists of pairs with one token each,                     *)
LEMMA InnerPairs ==
    ASSUME NEW keys \in KeyLists, keys # << >>, NEW params \in [NamesIn(keys) -> Texts], NEW style \in Styles
    PROVE  /\ PairsOf(Inner(params, keys, style), keys, InnerValues(params, keys), style)
           /\ Len(Inner(params, keys, style)) = Len(keys)
           /\ Len(keys) \in Nat \ {0}
           /\ \A i \in 1 .. Len(keys) :
                 /\ params[keys[i]] \in Values /\ keys[i] \in ParamNames
                 /\ InnerValues(params, keys)[i] = <<String(params[keys[i]])>>
<1> DEFINE n == Len(keys)
           inner == Inner(params, keys, style)
<1>1. keys \in Seq(ParamNames) /\ n \in Nat \ {0} /\ DOMAIN keys = 1 .. n
  BY TextsAssumption
<1>2. \A i \in 1 .. n : keys[i] \in ParamNames /\ keys[i] \in Values /\ keys[i] \in NamesIn(keys)
  BY <1>1 DEF NamesIn, Values
<1>3. \A i \in 1 .. n : params[keys[i]] \in Values
  BY <1>2 DEF Values
<1>4. ASSUME NEW i \in 1 .. n
      PROVE  /\ inner[i] = Pair(keys[i], InnerValues(params, keys)[i], style)
             /\ InnerValues(params, keys)[i] = <<String(params[keys[i]])>>
             /\ Given(InnerValues(params, keys)[i])
             /\ inner[i] \in Seq(Lexemes)
  <2> DEFINE x == params[keys[i]]
             v == <<String(x)>>
             k == keys[i]
  <2>1. x \in Values /\ k \in Values
    BY <1>2, <1>3
  <2>2. InnerValues(params, keys)[i] = v /\ inner[i] = Pair(k, v, style)
    BY <1>1 DEF Inner, InnerValues
  <2> HIDE DEF x, k
  <2>3. String(x) \in Lexemes /\ String(x).kind = "string"
    BY <2>1, TokenTexts DEF String
  <2>4. v \in Seq(Lexemes) /\ Len(v) > 0 /\ v[1] = String(x)
    BY <2>3
  <2> HIDE DEF v
  <2>5. Given(v)
    BY <2>3, <2>4 DEF Given
  <2>6. Pair(k, v, style) \in Seq(Lexemes)
    BY <2>1, <2>4, PairText
  <2> QED BY <2>2, <2>5, <2>6 DEF v, x, k
<1>5. DOMAIN inner = 1 .. n
  BY <1>1 DEF Inner
<1>6. inner \in Seq(Seq(Lexemes)) /\ Len(inner) = n
  <2>1. inner = [i \in 1 .. n |-> inner[i]]
    BY <1>1 DEF Inner
  <2> HIDE DEF inner, n
  <2> QED BY <1>1, <1>4, <2>1
<1> QED BY <1>1, <1>2, <1>3, <1>4, <1>6 DEF PairsOf

(* whose members are in a row,                                                         *)
LEMMA InnerMember ==
    ASSUME NEW keys \in KeyLists, keys # << >>, NEW params \in [NamesIn(keys) -> Texts], NEW style \in Styles,
           NEW s \in Seq(Lexemes), NEW p \in Nat \ {0}, At(s, p, Braces(Inner(params, keys, style), style)),
           NEW i \in 1 .. Len(keys), NEW from, from = Start(Inner(params, keys, style), style, p, i)
    PROVE  /\ from \in 1 .. Len(s)
           /\ Member(s, from) = [ok |-> TRUE, key |-> keys[i], value |-> params[keys[i]],
                                 end |-> Stopping(Inner(params, keys, style), style, p, i)]
           /\ i < Len(keys) => /\ Kind(s, Following(s, from)) = "comma"
                               /\ Onward(s, from) = Start(Inner(params, keys, style), style, p, i + 1)
           /\ i = Len(keys) => Kind(s, Following(s, from)) = "close"
<1> DEFINE inner == Inner(params, keys, style)
           values == InnerValues(params, keys)
           x == params[keys[i]]
<1>1. PairsOf(inner, keys, values, style) /\ Len(inner) = Len(keys) /\ x \in Values
  BY InnerPairs
<1>2. At(s, p, Braces(inner, style)) /\ from = Start(inner, style, p, i)
  OBVIOUS
<1>3. i \in 1 .. Len(inner) /\ values[i] \in {<<Word(x)>>, <<String(x)>>}
  BY <1>1, InnerPairs
<1> HIDE DEF inner, values, x
<1>4. from \in 1 .. Len(s)
  BY <1>1, <1>2, <1>3, PairStarts
<1>5. /\ Member(s, from) = [ok |-> TRUE, key |-> keys[i], value |-> x, end |-> Stopping(inner, style, p, i)]
      /\ i < Len(inner) => /\ Kind(s, Following(s, from)) = "comma"
                           /\ Onward(s, from) = Start(inner, style, p, i + 1)
      /\ i = Len(inner) => Kind(s, Following(s, from)) = "close"
  BY <1>1, <1>2, <1>3, TokenPair
<1> QED BY <1>1, <1>4, <1>5 DEF inner, x

(* and is read as the parameters it was written from.                                  *)
LEMMA InnerRead ==
    ASSUME NEW keys \in KeyLists, keys # << >>, NEW params \in [NamesIn(keys) -> Texts], NEW style \in Styles,
           NEW s \in Seq(Lexemes), NEW p \in Nat \ {0}, At(s, p, Braces(Inner(params, keys, style), style))
    PROVE  Object(s, p).ok /\ AsMap(Object(s, p)) = params
<1> DEFINE inner == Inner(params, keys, style)
           n == Len(keys)
           pos == [i \in 1 .. n |-> Start(inner, style, p, i)]
           object == Object(s, p)
<1>1. /\ PairsOf(inner, keys, InnerValues(params, keys), style) /\ n \in Nat \ {0}
      /\ At(s, p, Braces(inner, style))
  BY InnerPairs
<1>2. object = Members(s)[Start(inner, style, p, 1)]
  BY <1>1, ObjectRead
<1>3. ASSUME NEW i \in 1 .. n
      PROVE  /\ pos[i] \in 1 .. Len(s)
             /\ Member(s, pos[i]) = [ok |-> TRUE, key |-> keys[i], value |-> params[keys[i]],
                                    end |-> Stopping(inner, style, p, i)]
             /\ i < n => Kind(s, Following(s, pos[i])) = "comma" /\ Onward(s, pos[i]) = pos[i + 1]
             /\ i = n => Kind(s, Following(s, pos[i])) = "close"
  <2> DEFINE from == pos[i]
  <2>1. from = Start(inner, style, p, i) /\ (i < n => pos[i + 1] = Start(inner, style, p, i + 1))
    BY <1>1
  <2> HIDE DEF from, pos
  <2>2. /\ from \in 1 .. Len(s)
        /\ Member(s, from) = [ok |-> TRUE, key |-> keys[i], value |-> params[keys[i]],
                              end |-> Stopping(inner, style, p, i)]
        /\ i < n => /\ Kind(s, Following(s, from)) = "comma"
                    /\ Onward(s, from) = Start(inner, style, p, i + 1)
        /\ i = n => Kind(s, Following(s, from)) = "close"
    BY <2>1, InnerMember
  <2> QED BY <2>1, <2>2 DEF from
<1> HIDE DEF pos, n
<1>4. \A i \in 1 .. n : /\ pos[i] \in 1 .. Len(s) + 1 /\ Member(s, pos[i]).ok
                        /\ Member(s, pos[i]).key = keys[i] /\ Member(s, pos[i]).value = params[keys[i]]
  <2> TAKE i \in 1 .. n
  <2>1. pos[i] \in 1 .. Len(s)
    BY <1>3
  <2>4. Len(s) \in Nat
    OBVIOUS
  <2>2. pos[i] \in 1 .. Len(s) + 1
    <3> DEFINE a == pos[i]
               m == Len(s)
    <3>1. a \in 1 .. m /\ m \in Nat
      BY <2>1, <2>4
    <3> HIDE DEF a, m
    <3>2. a \in 1 .. m + 1
      BY <3>1
    <3> QED BY <3>2 DEF a, m
  <2>3. Member(s, pos[i]) = [ok |-> TRUE, key |-> keys[i], value |-> params[keys[i]],
                            end |-> Stopping(inner, style, p, i)]
    BY <1>3
  <2> QED BY <2>2, <2>3
<1>5. InARow(s, n, pos)
  BY <1>1, <1>3, <1>4 DEF InARow
<1>6. Lists(object, s, 0, n, pos)
  <2>1. object = Members(s)[pos[1]]
    BY <1>1, <1>2 DEF pos
  <2> HIDE DEF object
  <2> QED BY <1>5, <2>1, RowRead
<1> HIDE DEF object
<1> DEFINE All == {Member(s, pos[i]) : i \in 1 .. n}
           l == object.list
<1>7. /\ object.ok /\ l \in Seq(All) /\ Len(l) = n /\ DOMAIN l = 1 .. n
      /\ \A i \in 1 .. n : l[i] = Member(s, pos[i])
  <2>1. object = [ok |-> TRUE, list |-> l] /\ l \in Seq(All) /\ Len(l) = n - 0
        /\ \A i \in 1 .. n - 0 : l[i] = Member(s, pos[0 + i])
    BY <1>6 DEF Lists
  <2> HIDE DEF l, All
  <2>2. n - 0 = n /\ (\A i \in 1 .. n : 0 + i = i) /\ object.ok
    BY <1>1, <2>1
  <2> QED BY <2>1, <2>2
<1> HIDE DEF All, l
<1>8. \A i \in 1 .. n : l[i].key = keys[i] /\ l[i].value = params[keys[i]]
  BY <1>4, <1>7
<1>9. keys \in Seq(ParamNames) /\ DOMAIN keys = 1 .. n /\ \A i, j \in 1 .. n : keys[i] = keys[j] => i = j
  <2>1. keys \in Seq(ParamNames) /\ DOMAIN keys = 1 .. n
    BY TextsAssumption DEF n
  <2> QED BY <2>1, TextsAssumption
<1>10. Keys(object) = NamesIn(keys)
  <2>1. DOMAIN l = 1 .. n
    BY <1>7
  <2>2. Keys(object) = {l[i].key : i \in 1 .. n}
    BY <2>1 DEF Keys, l
  <2>3. NamesIn(keys) = {keys[i] : i \in 1 .. n}
    BY <1>9 DEF NamesIn
  <2>4. \A i \in 1 .. n : l[i].key = keys[i]
    BY <1>8
  <2> HIDE DEF n
  <2>5. {l[i].key : i \in 1 .. n} = {keys[i] : i \in 1 .. n}
    BY <2>4
  <2> QED BY <2>2, <2>3, <2>5, Zenon
<1>11. ASSUME NEW key \in NamesIn(keys) PROVE Lookup(object, key) = params[key]
  <2>1. PICK j \in 1 .. n : key = keys[j]
    BY <1>9 DEF NamesIn
  <2>2. /\ object.list \in Seq(All) /\ j \in 1 .. Len(object.list) /\ object.list[j].key = key
        /\ \A i \in 1 .. Len(object.list) : object.list[i].key = key => i = j
    BY <1>7, <1>8, <1>9, <2>1 DEF l
  <2>3. Lookup(object, key) = object.list[j].value
    BY <2>2, LookupIs
  <2> QED BY <1>8, <2>1, <2>3 DEF l
<1>12. AsMap(object) = [key \in NamesIn(keys) |-> params[key]]
  BY <1>10, <1>11 DEF AsMap
<1> QED BY <1>7, <1>12 DEF object

(* How far parsePrimitive reads when it meets an object.                      *)
LEMMA OpenEnds ==
    ASSUME NEW s \in Seq(Lexemes), NEW p \in 1 .. Len(s), Kind(s, p) = "open",
           NEW e \in p + 1 .. Len(s), Kind(s, e) \in {"comma", "close", "space"},
           \A i \in p + 1 .. e - 1 : Kind(s, i) \in {"string", "colon"}
    PROVE  ValueEnd(s, p) = e
<1> DEFINE kinds == {"comma", "close", "space"}
<1>1. Len(s) \in Nat
  OBVIOUS
<1>2. \A i \in p .. e - 1 : i = p \/ i \in p + 1 .. e - 1
  BY <1>1
<1>3. \A i \in p .. e - 1 : Kind(s, i) \notin kinds
  BY <1>2
<1>4. e \in p .. Len(s) + 1 /\ p \in Nat
  BY <1>1
<1>5. Stop(s, p, kinds, e)
  BY <1>3, <1>4 DEF Stop
<1> HIDE DEF kinds
<1>6. FirstOf(s, p, kinds) = e
  BY <1>1, <1>4, <1>5, FirstOfIs
<1> QED BY <1>6 DEF ValueEnd, kinds

(* Behind the brace of the parameters: the first of them, and what follows it. *)
LEMMA InnerHead ==
    ASSUME NEW keys \in KeyLists, keys # << >>, NEW params \in [NamesIn(keys) -> Texts], NEW style \in Styles,
           NEW s \in Seq(Lexemes), NEW p \in Nat \ {0}, At(s, p, Braces(Inner(params, keys, style), style)),
           NEW a \in Nat, a = p + 1 + Len(Space(style.pad)),
           NEW b \in Nat, b = a + 2 + Len(Space(style.gap)),
           NEW end, end = Stopping(Inner(params, keys, style), style, p, 1)
    PROVE  /\ p \in 1 .. Len(s) /\ Kind(s, p) = "open"
           /\ SkipWs(s, p + 1) = a /\ a \in 1 .. Len(s) /\ Kind(s, a) = "string"
           /\ a + 1 \in 1 .. Len(s) /\ Kind(s, a + 1) = "colon"
           /\ SkipWs(s, a + 2) = b /\ b \in 1 .. Len(s) /\ Kind(s, b) = "string"
           /\ end = b + 1 /\ end \in 1 .. Len(s) /\ Kind(s, end) \in {"comma", "close", "space"}
<1> DEFINE inner  == Inner(params, keys, style)
           values == InnerValues(params, keys)
           x == params[keys[1]]
           one == 1
<1>1. /\ PairsOf(inner, keys, values, style) /\ one \in 1 .. Len(inner) /\ x \in Values
      /\ inner \in Seq(Seq(Lexemes))
  BY InnerPairs DEF PairsOf
<1>2. values[one] = <<String(x)>> /\ String(x) \in Lexemes /\ String(x).kind = "string"
  <2>1. 1 \in 1 .. Len(keys) /\ x \in Values
    BY InnerPairs
  <2> QED BY <2>1, InnerPairs, TokenTexts DEF String
<1>3. At(s, p, Braces(inner, style))
  OBVIOUS
<1>4. Start(inner, style, p, one) = a
  BY <1>1, <1>3, MemberOfBraces
<1>5. inner[one] = Pair(keys[one], values[one], style) /\ keys[one] \in Values
  BY <1>1 DEF PairsOf
<1>6. end = Stopping(inner, style, p, one)
  OBVIOUS
<1> HIDE DEF inner, values, x, one
<1>7. p \in 1 .. Len(s) /\ Kind(s, p) = "open" /\ SkipWs(s, p + 1) = a
  <2>1. SkipWs(s, p + 1) = Start(inner, style, p, one) /\ p \in 1 .. Len(s) /\ Kind(s, p) = "open"
    BY <1>1, <1>3, ObjectRead DEF one
  <2> QED BY <1>4, <2>1
<1>8. /\ a \in 1 .. Len(s) /\ Kind(s, a) = "string"
      /\ a + 1 \in 1 .. Len(s) /\ Kind(s, a + 1) = "colon"
      /\ SkipWs(s, a + 2) = b /\ b \in 1 .. Len(s) /\ At(s, b, values[one])
  BY <1>1, <1>3, <1>4, PairStarts, SMTT(30)
<1>9. Kind(s, b) = "string"
  <2>1. b \in Nat \ {0} /\ At(s, b, <<String(x)>>)
    BY <1>2, <1>8
  <2> QED BY <1>2, <2>1, AtOne
<1>10. end \in 1 .. Len(s) /\ Kind(s, end) \in {"comma", "close", "space"}
  BY <1>1, <1>3, <1>6, PairsAround
<1>11. end = b + 1
  <2> DEFINE g == Len(Space(style.gap))
             l == Len(inner[one])
             v == values[one]
  <2>1. v \in Seq(Lexemes) /\ Len(v) = 1
    BY <1>2
  <2>2. g \in Nat
    BY StyleParts, SpaceText
  <2> HIDE DEF v, g
  <2>3. Len(Pair(keys[one], v, style)) = 2 + g + 1
    BY <1>5, <2>1, PairText DEF g
  <2>4. l = 2 + g + 1
    BY <1>5, <2>3 DEF v
  <2>5. end = a + l
    BY <1>4, <1>6 DEF Stopping
  <2>6. b = a + 2 + g
    BY DEF g
  <2> HIDE DEF l
  <2> QED BY <2>2, <2>4, <2>5, <2>6
<1> QED BY <1>7, <1>8, <1>9, <1>10, <1>11

(* Compact, it reads up to the end of the first parameter.                    *)
LEMMA CompactEnd ==
    ASSUME NEW keys \in KeyLists, keys # << >>, NEW params \in [NamesIn(keys) -> Texts],
           NEW s \in Seq(Lexemes), NEW p \in Nat \ {0}, At(s, p, Braces(Inner(params, keys, Compact), Compact))
    PROVE  ValueEnd(s, p) = Stopping(Inner(params, keys, Compact), Compact, p, 1)
<1> DEFINE a == p + 1 + Len(Space(Compact.pad))
           b == a + 2 + Len(Space(Compact.gap))
           end == Stopping(Inner(params, keys, Compact), Compact, p, 1)
<1>1. Compact \in Styles
  BY CompactStyle
<1>2. Len(Space(Compact.pad)) = 0 /\ Len(Space(Compact.gap)) = 0
  BY <1>1, StyleParts, SpaceText DEF Compact, Style
<1>3. a = p + 1 /\ b = p + 3 /\ a \in Nat /\ b \in Nat
  BY <1>2
<1> HIDE DEF a, b, end
<1>4. /\ p \in 1 .. Len(s) /\ Kind(s, p) = "open"
      /\ Kind(s, a) = "string" /\ Kind(s, a + 1) = "colon" /\ Kind(s, b) = "string"
      /\ end = b + 1 /\ end \in 1 .. Len(s) /\ Kind(s, end) \in {"comma", "close", "space"}
  BY <1>1, <1>3, InnerHead DEF a, b, end
<1>5. end = p + 4 /\ end \in p + 1 .. Len(s) /\ a + 1 = p + 2
  BY <1>3, <1>4
<1>6. \A i \in p + 1 .. end - 1 : i = a \/ i = a + 1 \/ i = b
  BY <1>3, <1>5
<1>7. \A i \in p + 1 .. end - 1 : Kind(s, i) \in {"string", "colon"}
  BY <1>4, <1>6
<1>8. ValueEnd(s, p) = end
  BY <1>4, <1>5, <1>7, OpenEnds
<1> QED BY <1>8 DEF end

(* With white space, up to the first of it; and then meets a string.          *)
LEMMA SpacedEnd ==
    ASSUME NEW keys \in KeyLists, keys # << >>, NEW params \in [NamesIn(keys) -> Texts],
           NEW style \in Styles, style # Compact,
           NEW s \in Seq(Lexemes), NEW p \in Nat \ {0}, At(s, p, Braces(Inner(params, keys, style), style))
    PROVE  Kind(s, SkipWs(s, ValueEnd(s, p))) = "string"
<1> DEFINE a == p + 1 + Len(Space(style.pad))
           b == a + 2 + Len(Space(style.gap))
           end == Stopping(Inner(params, keys, style), style, p, 1)
           w == Len(Space(style.pad))
           g == Len(Space(style.gap))
<1>1. style.pad \/ style.gap
  BY DEF Compact, Styles, Style
<1>2. w = (IF style.pad THEN 1 ELSE 0) /\ g = (IF style.gap THEN 1 ELSE 0)
  BY StyleParts, SpaceText
<1>3. a = p + 1 + w /\ b = a + 2 + g /\ w \in Nat /\ g \in Nat
  BY <1>2
<1>4. a \in Nat /\ b \in Nat
  <2> HIDE DEF w, g
  <2>1. a \in Nat
    BY <1>3
  <2> HIDE DEF a
  <2> QED BY <1>3, <2>1
<1>5. /\ p \in 1 .. Len(s) /\ Kind(s, p) = "open"
      /\ SkipWs(s, p + 1) = a /\ a \in 1 .. Len(s) /\ Kind(s, a) = "string"
      /\ a + 1 \in 1 .. Len(s) /\ Kind(s, a + 1) = "colon"
      /\ SkipWs(s, a + 2) = b /\ b \in 1 .. Len(s) /\ Kind(s, b) = "string"
  <2> HIDE DEF w, g
  <2> QED BY <1>4, InnerHead
<1> HIDE DEF a, b, end, w, g
<1>6. CASE style.pad
  <2> DEFINE e == p + 1
  <2>1. w = 1 /\ a = p + 2
    BY <1>2, <1>3, <1>6
  <2>2. e \in 1 .. Len(s) /\ e \in p + 1 .. Len(s) /\ a # e
    BY <1>5, <2>1
  <2>3. \A i \in p + 1 .. e - 1 : FALSE
    OBVIOUS
  <2>4. SkipWs(s, e) = a
    BY <1>5
  <2> HIDE DEF e
  <2>5. Kind(s, e) = "space"
    BY <2>2, <2>4, StaysHere
  <2>6. ValueEnd(s, p) = e
    BY <1>5, <2>2, <2>3, <2>5, OpenEnds
  <2> QED BY <1>5, <2>4, <2>6
<1>7. CASE ~style.pad
  <2> DEFINE e == a + 2
  <2>1. w = 0 /\ g = 1 /\ a = p + 1 /\ b = a + 3
    BY <1>1, <1>2, <1>3, <1>7
  <2>2. e \in 1 .. Len(s) /\ e \in p + 1 .. Len(s) /\ b # e
    BY <1>4, <1>5, <2>1
  <2>3. \A i \in p + 1 .. e - 1 : i = a \/ i = a + 1
    BY <1>4, <2>1
  <2>4. SkipWs(s, e) = b
    BY <1>5
  <2> HIDE DEF e
  <2>5. Kind(s, e) = "space"
    BY <2>2, <2>4, StaysHere
  <2>6. \A i \in p + 1 .. e - 1 : Kind(s, i) \in {"string", "colon"}
    BY <1>5, <2>3
  <2>7. ValueEnd(s, p) = e
    BY <1>5, <2>2, <2>5, <2>6, OpenEnds
  <2> QED BY <1>5, <2>4, <2>7
<1> QED BY <1>6, <1>7

-----------------------------------------------------------------------------
(* A request as a whole.                                                      *)
Top(request, order, keys, style) == [i \in DOMAIN order |-> MemberText(request, order[i], keys, style)]

ValueText(request, name, keys, style) ==
    CASE name = "request_id" -> <<Word(request.id)>>
      [] name = "command" -> <<String(request.command)>>
      [] name = "params" -> Braces(Inner(request.params, keys, style), style)

TopValues(request, order, keys, style) == [i \in DOMAIN order |-> ValueText(request, order[i], keys, style)]

Ordered(order) ==
    /\ order \in Seq({"request_id", "command", "params"}) /\ Len(order) \in {2, 3}
    /\ \/ order[1] = "request_id" /\ order[2] = "command"
       \/ order[1] = "command" /\ order[2] = "request_id"
    /\ Len(order) = 3 => order[3] = "params"

Asked(request, keys) ==
    /\ request.id \in Numerals /\ request.command \in (Commands \cup Texts) \ {"params"}
    /\ keys \in KeyLists \cup {<< >>}
    /\ request.params \in [NamesIn(keys) -> Texts]

(* The orders of the members are those of the protocol.                                *)
LEMMA OrdersOrdered ==
    ASSUME NEW order \in Orders
    PROVE  Ordered(order) /\ Len(order) = 2 /\ Ordered(Append(order, "params")) /\ Len(Append(order, "params")) = 3
<1>1. CASE order = <<"request_id", "command">>
  BY <1>1 DEF Ordered
<1>2. CASE order = <<"command", "request_id">>
  BY <1>2 DEF Ordered
<1> QED BY <1>1, <1>2 DEF Orders

(* The object of parameters is a text, and empty without any.                          *)
LEMMA InnerText ==
    ASSUME NEW keys \in KeyLists \cup {<< >>}, NEW params \in [NamesIn(keys) -> Texts], NEW style \in Styles
    PROVE  /\ Inner(params, keys, style) \in Seq(Seq(Lexemes))
           /\ keys = << >> => Inner(params, keys, style) = << >>
<1>1. CASE keys = << >>
  <2>1. DOMAIN keys = {}
    BY <1>1
  <2>2. Inner(params, keys, style) = << >>
    BY <2>1 DEF Inner
  <2>3. << >> \in Seq(Seq(Lexemes))
    OBVIOUS
  <2> QED BY <2>2, <2>3, Zenon
<1>2. CASE keys # << >>
  BY <1>2, InnerPairs DEF PairsOf
<1> QED BY <1>1, <1>2

(* The request as a whole is an object of pairs.                                       *)
LEMMA TopPairs ==
    ASSUME NEW request, NEW order, NEW keys, NEW style \in Styles, Ordered(order), Asked(request, keys)
    PROVE  /\ PairsOf(Top(request, order, keys, style), order, TopValues(request, order, keys, style), style)
           /\ Len(Top(request, order, keys, style)) = Len(order)
           /\ \A i \in 1 .. Len(order) :
                 TopValues(request, order, keys, style)[i] = ValueText(request, order[i], keys, style)
           /\ request.id \in Values /\ request.command \in Values
<1> DEFINE top == Top(request, order, keys, style)
           values == TopValues(request, order, keys, style)
           n == Len(order)
<1>1. request.id \in Values /\ request.command \in Values
  BY DEF Asked, Values
<1>2. n \in {2, 3} /\ DOMAIN order = 1 .. n /\ \A i \in 1 .. n : order[i] \in {"request_id", "command", "params"}
  BY DEF Ordered
<1>3. ASSUME NEW name \in {"request_id", "command", "params"}
      PROVE  /\ MemberText(request, name, keys, style) = Pair(name, ValueText(request, name, keys, style), style)
             /\ Given(ValueText(request, name, keys, style)) /\ name \in Values
  <2>1. CASE name = "request_id"
    <3> DEFINE v == <<Word(request.id)>>
    <3>1. MemberText(request, name, keys, style) = Pair(name, v, style) /\ ValueText(request, name, keys, style) = v
      BY <2>1 DEF MemberText, ValueText
    <3>2. Word(request.id) \in Lexemes /\ Word(request.id).kind = "word"
      BY <1>1, TokenTexts DEF Word
    <3>3. v \in Seq(Lexemes) /\ Len(v) > 0 /\ v[1].kind # "space"
      BY <3>2
    <3> HIDE DEF v
    <3> QED BY <3>1, <3>3 DEF Given, Values
  <2>2. CASE name = "command"
    <3> DEFINE v == <<String(request.command)>>
    <3>1. MemberText(request, name, keys, style) = Pair(name, v, style) /\ ValueText(request, name, keys, style) = v
      BY <2>2 DEF MemberText, ValueText
    <3>2. String(request.command) \in Lexemes /\ String(request.command).kind = "string"
      BY <1>1, TokenTexts DEF String
    <3>3. v \in Seq(Lexemes) /\ Len(v) > 0 /\ v[1].kind # "space"
      BY <3>2
    <3> HIDE DEF v
    <3> QED BY <3>1, <3>3 DEF Given, Values
  <2>3. CASE name = "params"
    <3> DEFINE v == Braces(Inner(request.params, keys, style), style)
    <3>1. MemberText(request, name, keys, style) = Pair(name, v, style) /\ ValueText(request, name, keys, style) = v
      BY <2>3 DEF MemberText, ValueText, Inner
    <3>2. Given(v)
      BY InnerText, BracesText DEF Asked
    <3> HIDE DEF v
    <3> QED BY <3>1, <3>2 DEF Values
  <2> QED BY <2>1, <2>2, <2>3
<1>4. ASSUME NEW i \in 1 .. n
      PROVE  /\ values[i] = ValueText(request, order[i], keys, style)
             /\ top[i] = Pair(order[i], values[i], style)
             /\ order[i] \in Values /\ Given(values[i])
             /\ top[i] \in Seq(Lexemes)
  <2> DEFINE name == order[i]
             v == ValueText(request, name, keys, style)
  <2>1. name \in {"request_id", "command", "params"}
    BY <1>2
  <2>2. values[i] = v /\ top[i] = MemberText(request, name, keys, style)
    BY <1>2 DEF TopValues, Top
  <2> HIDE DEF name
  <2>3. MemberText(request, name, keys, style) = Pair(name, v, style) /\ Given(v) /\ name \in Values
    BY <1>3, <2>1
  <2> HIDE DEF v, values, top
  <2>4. Pair(name, v, style) \in Seq(Lexemes)
    BY <2>3, PairText DEF Given
  <2> QED BY <2>2, <2>3, <2>4 DEF v, name
<1>5. top \in Seq(Seq(Lexemes)) /\ Len(top) = n
  <2>1. top = [i \in 1 .. n |-> top[i]]
    BY <1>2 DEF Top
  <2>2. n \in Nat
    BY <1>2
  <2> HIDE DEF top, n
  <2> QED BY <1>4, <2>1, <2>2
<1> HIDE DEF top, values
<1> QED BY <1>1, <1>2, <1>4, <1>5 DEF PairsOf, top, values

(* Its id and its command are read as they were written.                               *)
Worth(request, name) == IF name = "request_id" THEN request.id ELSE request.command

ReadFirst(request, order, top, style, s, p, i, from) ==
    /\ from \in 1 .. Len(s)
    /\ Member(s, from) = [ok |-> TRUE, key |-> order[i], value |-> Worth(request, order[i]),
                          end |-> Stopping(top, style, p, i)]
    /\ i < Len(order) => /\ Kind(s, Following(s, from)) = "comma"
                         /\ Onward(s, from) = Start(top, style, p, i + 1)
    /\ i = Len(order) => Kind(s, Following(s, from)) = "close"

LEMMA TopMember ==
    ASSUME NEW request, NEW order, NEW keys, NEW style \in Styles, Ordered(order), Asked(request, keys),
           NEW top, top = Top(request, order, keys, style),
           NEW s \in Seq(Lexemes), NEW p \in Nat \ {0}, At(s, p, Braces(top, style)),
           NEW i \in {1, 2}, NEW from, from = Start(top, style, p, i)
    PROVE  ReadFirst(request, order, top, style, s, p, i, from)
<1> DEFINE values == TopValues(request, order, keys, style)
           x == Worth(request, order[i])
<1>1. PairsOf(top, order, values, style) /\ Len(top) = Len(order) /\ i \in 1 .. Len(order)
  BY TopPairs DEF Ordered
<1>2. x \in Values
  BY TopPairs DEF Worth
<1>3. values[i] \in {<<Word(x)>>, <<String(x)>>}
  <2>1. values[i] = ValueText(request, order[i], keys, style)
    BY <1>1, TopPairs
  <2>2. order[i] \in {"request_id", "command"}
    BY DEF Ordered
  <2>3. CASE order[i] = "request_id"
    <3>1. values[i] = <<Word(x)>>
      BY <2>1, <2>3 DEF ValueText, Worth
    <3> HIDE DEF values, x
    <3> QED BY <3>1
  <2>4. CASE order[i] = "command"
    <3>1. values[i] = <<String(x)>>
      BY <2>1, <2>4 DEF ValueText, Worth
    <3> HIDE DEF values, x
    <3> QED BY <3>1
  <2> QED BY <2>2, <2>3, <2>4
<1> HIDE DEF values, x
<1>4. i \in 1 .. Len(top)
  BY <1>1
<1>5. from \in 1 .. Len(s)
  BY <1>1, <1>4, PairStarts
<1>6. /\ Member(s, from) = [ok |-> TRUE, key |-> order[i], value |-> x, end |-> Stopping(top, style, p, i)]
      /\ i < Len(top) => /\ Kind(s, Following(s, from)) = "comma"
                         /\ Onward(s, from) = Start(top, style, p, i + 1)
      /\ i = Len(top) => Kind(s, Following(s, from)) = "close"
  BY <1>1, <1>2, <1>3, <1>4, TokenPair
<1> QED BY <1>1, <1>5, <1>6 DEF x, ReadFirst

(* Where its parameters stand.                                                         *)
LEMMA ThirdMember ==
    ASSUME NEW request, NEW order, NEW keys, NEW style \in Styles, Ordered(order), Asked(request, keys),
           Len(order) = 3, NEW top, top = Top(request, order, keys, style),
           NEW s \in Seq(Lexemes), NEW p \in Nat \ {0}, At(s, p, Braces(top, style)),
           NEW from, from = Start(top, style, p, 3),
           NEW q, q = from + 2 + Len(Space(style.gap))
    PROVE  /\ from \in 1 .. Len(s) /\ s[from] = String("params")
           /\ from + 1 \in 1 .. Len(s) /\ Kind(s, from + 1) = "colon" /\ SkipWs(s, from + 2) = q
           /\ q \in 1 .. Len(s) /\ At(s, q, Braces(Inner(request.params, keys, style), style))
           /\ Member(s, from).ok /\ Member(s, from).key = "params"
           /\ Member(s, from).end = ValueEnd(s, q)
<1> DEFINE values == TopValues(request, order, keys, style)
           three == 3
<1>0. order[three] = "params" /\ three \in 1 .. Len(order)
  BY DEF Ordered
<1>1. PairsOf(top, order, values, style) /\ Len(top) = Len(order)
  BY TopPairs
<1>2. values[three] = Braces(Inner(request.params, keys, style), style)
  <2>1. values[three] = ValueText(request, order[three], keys, style)
    <3>1. \A i \in 1 .. Len(order) : values[i] = ValueText(request, order[i], keys, style)
      BY TopPairs
    <3> HIDE DEF three, values
    <3> QED BY <1>0, <3>1
  <2> QED BY <1>0, <2>1 DEF ValueText
<1>3. three \in 1 .. Len(top) /\ from = Start(top, style, p, three)
  BY <1>1
<1> HIDE DEF values, three
<1>4. /\ from \in 1 .. Len(s)
      /\ SkipWs(s, from) = from /\ Kind(s, from) = "string" /\ s[from].text = order[three]
      /\ SkipWs(s, from + 1) = from + 1 /\ Kind(s, from + 1) = "colon" /\ from + 1 \in 1 .. Len(s)
      /\ SkipWs(s, from + 2) = q /\ q \in 1 .. Len(s) /\ At(s, q, values[three])
  <2>1. PairsOf(top, order, values, style) /\ three \in 1 .. Len(top) /\ At(s, p, Braces(top, style))
    BY <1>1, <1>3
  <2>2. from = Start(top, style, p, three) /\ q = from + 2 + Len(Space(style.gap))
    BY <1>3
  <2> QED BY <2>1, <2>2, PairStarts, SMTT(60)
<1>5. s[from] = String("params")
  <2>1. s[from] \in Lexemes /\ s[from].kind = "string" /\ s[from].text = "params"
    BY <1>0, <1>4, KindOf
  <2> QED BY <2>1 DEF Lexemes, Mark, Word, String
<1>6. from + 1 + 1 = from + 2
  BY <1>4
<1>7. Member(s, from) = [ok |-> TRUE, key |-> "params", value |-> Value(s, q, ValueEnd(s, q)), end |-> ValueEnd(s, q)]
  BY <1>0, <1>4, <1>6 DEF Member
<1> QED BY <1>2, <1>4, <1>5, <1>7

(* What fromJson takes from the members once they are in a row.               *)
LEMMA TopRead ==
    ASSUME NEW request, NEW order, NEW keys, NEW style \in Styles, Ordered(order), Asked(request, keys),
           NEW top, top = Top(request, order, keys, style),
           NEW s \in Seq(Lexemes), At(s, 1, Braces(top, style)),
           NEW n, NEW pos, InARow(s, n, pos), n >= 2,
           pos[1] = Start(top, style, 1, 1), pos[2] = Start(top, style, 1, 2),
           \A i \in 3 .. n : Member(s, pos[i]).key \notin {"request_id", "command"}
    PROVE  /\ Object(s, 1).ok
           /\ "request_id" \in Keys(Object(s, 1)) /\ Lookup(Object(s, 1), "request_id") = request.id
           /\ "command" \in Keys(Object(s, 1)) /\ Lookup(Object(s, 1), "command") = request.command
<1> DEFINE object == Object(s, 1)
           l == object.list
           All == {Member(s, pos[i]) : i \in 1 .. n}
           worth(i) == Worth(request, order[i])
<1>1. object = Members(s)[pos[1]]
  <2>1. PairsOf(top, order, TopValues(request, order, keys, style), style)
    BY TopPairs
  <2> QED BY <2>1, ObjectRead
<1>2. Lists(object, s, 0, n, pos)
  <2> HIDE DEF object
  <2> QED BY <1>1, RowRead
<1> HIDE DEF object
<1>3. n \in Nat /\ n >= 2
  BY DEF InARow
<1>4. /\ object.ok /\ l \in Seq(All) /\ Len(l) = n
      /\ \A i \in 1 .. n : l[i] = Member(s, pos[i])
  <2>1. object = [ok |-> TRUE, list |-> l] /\ l \in Seq(All) /\ Len(l) = n - 0
        /\ \A i \in 1 .. n - 0 : l[i] = Member(s, pos[0 + i])
    BY <1>2 DEF Lists
  <2> HIDE DEF l, All
  <2>2. n - 0 = n /\ (\A i \in 1 .. n : 0 + i = i) /\ object.ok
    BY <1>3, <2>1
  <2> QED BY <2>1, <2>2
<1>5. ASSUME NEW i \in {1, 2}
      PROVE  Member(s, pos[i]).key = order[i] /\ Member(s, pos[i]).value = worth(i)
  <2> DEFINE from == pos[i]
  <2>1. from = Start(top, style, 1, i)
    OBVIOUS
  <2> HIDE DEF from
  <2>2. Member(s, from) = [ok |-> TRUE, key |-> order[i], value |-> worth(i), end |-> Stopping(top, style, 1, i)]
    <3>1. ReadFirst(request, order, top, style, s, 1, i, from)
      BY <2>1, TopMember
    <3> QED BY <3>1 DEF ReadFirst
  <2> HIDE DEF worth
  <2> QED BY <2>2 DEF from
<1> HIDE DEF All, l
<1>6. \A i \in 1 .. n : i \in {1, 2} \/ i \in 3 .. n
  BY <1>3
<1>7. \A i \in {1, 2} : i \in 1 .. n /\ l[i].key = order[i] /\ l[i].value = worth(i)
  <2> HIDE DEF worth
  <2> QED BY <1>3, <1>4, <1>5
<1>8. \A i \in 3 .. n : l[i].key \notin {"request_id", "command"}
  BY <1>3, <1>4
<1>9. order[1] # order[2] /\ order[1] \in {"request_id", "command"} /\ order[2] \in {"request_id", "command"}
  BY DEF Ordered
<1>10. ASSUME NEW j \in {1, 2}
       PROVE  order[j] \in Keys(object) /\ Lookup(object, order[j]) = worth(j)
  <2> DEFINE key == order[j]
  <2>1. key \in {"request_id", "command"} /\ l[j].key = key /\ j \in 1 .. Len(l)
    BY <1>4, <1>7, <1>9
  <2>2. ASSUME NEW i \in 1 .. Len(l), l[i].key = key PROVE i = j
    <3>1. i \in {1, 2}
      BY <1>4, <1>6, <1>8, <2>1, <2>2
    <3>2. order[i] = order[j]
      BY <1>7, <2>2, <3>1
    <3> QED BY <1>9, <3>1, <3>2
  <2> HIDE DEF key
  <2>3. object.list \in Seq(All) /\ j \in 1 .. Len(object.list) /\ object.list[j].key = key
        /\ \A i \in 1 .. Len(object.list) : object.list[i].key = key => i = j
    BY <1>4, <2>1, <2>2 DEF l
  <2>4. key \in Keys(object) /\ Lookup(object, key) = object.list[j].value
    BY <2>3, LookupIs
  <2> HIDE DEF worth
  <2>5. object.list[j].value = worth(j)
    BY <1>7 DEF l
  <2> QED BY <2>4, <2>5 DEF key
<1>11. CASE order[1] = "request_id" /\ order[2] = "command"
  BY <1>4, <1>10, <1>11 DEF object, Worth
<1>12. CASE order[1] = "command" /\ order[2] = "request_id"
  BY <1>4, <1>10, <1>12 DEF object, Worth
<1> QED BY <1>11, <1>12 DEF Ordered

-----------------------------------------------------------------------------
(* Everything but the word that the parameters are found by.                  *)
Others == Lexemes \ {String("params")}

(* None of what comes before the parameters is that word.                              *)
LEMMA OtherTexts ==
    ASSUME NEW style \in Styles
    PROVE  /\ Space(style.pad) \in Seq(Others) /\ Space(style.gap) \in Seq(Others)
           /\ \A n : Sep(n, style) \in Seq(Others)
           /\ <<Mark("open")>> \in Seq(Others) /\ <<Mark("close")>> \in Seq(Others)
<1>1. \A k \in {"open", "close", "comma", "colon", "space"} : Mark(k) \in Others
  BY TokenTexts DEF Others, Mark, String
<1>2. <<Mark("open")>> \in Seq(Others) /\ <<Mark("close")>> \in Seq(Others) /\ <<Mark("comma")>> \in Seq(Others)
  BY <1>1
<1>3. ASSUME NEW wanted \in BOOLEAN PROVE Space(wanted) \in Seq(Others)
  BY <1>1 DEF Space
<1>4. Space(style.pad) \in Seq(Others) /\ Space(style.gap) \in Seq(Others)
  BY <1>3, StyleParts
<1>5. ASSUME NEW n PROVE Sep(n, style) \in Seq(Others)
  BY <1>2, <1>4 DEF Sep
<1> QED BY <1>2, <1>4, <1>5

LEMMA OtherMember ==
    ASSUME NEW request, NEW keys, NEW style \in Styles, Asked(request, keys), NEW name \in {"request_id", "command"}
    PROVE  MemberText(request, name, keys, style) \in Seq(Others)
<1> DEFINE gap == Space(style.gap)
<1>1. gap \in Seq(Others)
  BY OtherTexts
<1>2. /\ String(name) \in Others /\ Mark("colon") \in Others
      /\ Word(request.id) \in Others /\ String(request.command) \in Others
  BY TokenTexts DEF Asked, Values, Others, Word, String, Mark
<1> HIDE DEF gap
<1>3. ASSUME NEW x \in Others PROVE <<String(name), Mark("colon")>> \o gap \o <<x>> \in Seq(Others)
  BY <1>1, <1>2
<1>4. CASE name = "request_id"
  <2>1. MemberText(request, name, keys, style) = <<String(name), Mark("colon")>> \o gap \o <<Word(request.id)>>
    BY <1>4 DEF MemberText, Pair, gap
  <2> QED BY <1>2, <1>3, <2>1
<1>5. CASE name = "command"
  <2>1. MemberText(request, name, keys, style) = <<String(name), Mark("colon")>> \o gap \o <<String(request.command)>>
    BY <1>5 DEF MemberText, Pair, gap
  <2> QED BY <1>2, <1>3, <2>1
<1> QED BY <1>4, <1>5

LEMMA OtherJoined ==
    ASSUME NEW request, NEW order, NEW keys, NEW style \in Styles, Ordered(order), Asked(request, keys),
           NEW top, top = Top(request, order, keys, style)
    PROVE  Joined(top, style)[2] \in Seq(Others)
<1> DEFINE all == Joined(top, style)
<1>1. top \in Seq(Seq(Lexemes)) /\ Len(top) = Len(order)
  BY TopPairs DEF PairsOf
<1>2. 1 \in 1 .. Len(top) /\ 2 \in 1 .. Len(top)
  BY <1>1 DEF Ordered
<1>3. top[1] \in Seq(Others) /\ top[2] \in Seq(Others)
  <2>1. 1 \in DOMAIN order /\ 2 \in DOMAIN order
        /\ order[1] \in {"request_id", "command"} /\ order[2] \in {"request_id", "command"}
    BY DEF Ordered
  <2>2. top[1] = MemberText(request, order[1], keys, style) /\ top[2] = MemberText(request, order[2], keys, style)
    BY <2>1 DEF Top
  <2> QED BY <2>1, <2>2, OtherMember
<1>4. Sep(1, style) \in Seq(Others) /\ Sep(2, style) \in Seq(Others)
  BY OtherTexts
<1>5. all[0] \in Seq(Others)
  <2>1. all[0] = << >>
    BY <1>1, JoinedNone
  <2>2. << >> \in Seq(Others)
    OBVIOUS
  <2> QED BY <2>1, <2>2, Zenon
<1>6. all[1] = all[0] \o Sep(1, style) \o top[1]
  <2>1. all[1] = all[1 - 1] \o Sep(1, style) \o top[1]
    BY <1>1, <1>2, JoinedStep
  <2> HIDE DEF all
  <2> QED BY <2>1
<1>7. all[2] = all[1] \o Sep(2, style) \o top[2]
  <2>1. all[2] = all[2 - 1] \o Sep(2, style) \o top[2]
    BY <1>1, <1>2, JoinedStep
  <2> HIDE DEF all
  <2> QED BY <2>1
<1> HIDE DEF all
<1>8. \A t, u, v \in Seq(Others) : t \o u \o v \in Seq(Others)
  OBVIOUS
<1>9. all[1] \in Seq(Others)
  BY <1>3, <1>4, <1>5, <1>6, <1>8, Zenon
<1>10. all[2] \in Seq(Others)
  BY <1>3, <1>4, <1>7, <1>8, <1>9, ZenonT(40)
<1> QED BY <1>10 DEF all

(* Without parameters the word does not occur, and none are found.            *)
LEMMA NoParams ==
    ASSUME NEW request, NEW order, NEW keys, NEW style \in Styles, Ordered(order), Asked(request, keys),
           Len(order) = 2, NEW s, s = Braces(Top(request, order, keys, style), style)
    PROVE  ParamsObject(s) = [ok |-> TRUE, list |-> << >>]
<1> DEFINE top  == Top(request, order, keys, style)
           open == <<Mark("open")>>
           shut == <<Mark("close")>>
           pad  == Space(style.pad)
           all  == Joined(top, style)[2]
<1>1. open \in Seq(Others) /\ shut \in Seq(Others) /\ pad \in Seq(Others) /\ all \in Seq(Others)
  BY OtherTexts, OtherJoined
<1>2. Len(top) = 2
  BY TopPairs
<1>3. s = open \o pad \o all \o pad \o shut
  BY <1>2 DEF Braces
<1> HIDE DEF open, shut, pad, all, top
<1>4. \A t, u \in Seq(Others) : t \o u \in Seq(Others)
  OBVIOUS
<1>5. s \in Seq(Others)
  <2>1. open \o pad \in Seq(Others)
    BY <1>1, <1>4, Zenon
  <2>2. open \o pad \o all \in Seq(Others)
    BY <1>1, <1>4, <2>1, Zenon
  <2>3. open \o pad \o all \o pad \in Seq(Others)
    BY <1>1, <1>4, <2>2, Zenon
  <2> QED BY <1>1, <1>3, <1>4, <2>3, Zenon
<1>6. \A p \in DOMAIN s : s[p] \in Others
  BY <1>5
<1>7. {p \in DOMAIN s : s[p] = String("params")} = {}
  BY <1>6 DEF Others
<1> QED BY <1>7 DEF ParamsObject

(* With parameters, it first occurs as the name of the third member.          *)
LEMMA ParamsFound ==
    ASSUME NEW request, NEW order, NEW keys, NEW style \in Styles, Ordered(order), Asked(request, keys),
           Len(order) = 3, NEW top, top = Top(request, order, keys, style),
           NEW s \in Seq(Lexemes), s = Braces(top, style), At(s, 1, Braces(top, style)),
           NEW q, q = Start(top, style, 1, 3) + 2 + Len(Space(style.gap))
    PROVE  ParamsObject(s) = Object(s, q)
<1> DEFINE from == Start(top, style, 1, 3)
           open == <<Mark("open")>>
           shut == <<Mark("close")>>
           pad  == Space(style.pad)
           two  == Joined(top, style)[2]
           all  == Joined(top, style)[3]
           sep  == Sep(3, style)
           m    == top[3]
           named == {p \in DOMAIN s : s[p] = String("params")}
<1>1. /\ from \in 1 .. Len(s) /\ s[from] = String("params")
      /\ from + 1 \in 1 .. Len(s) /\ Kind(s, from + 1) = "colon" /\ SkipWs(s, from + 2) = q
      /\ q \in 1 .. Len(s) /\ At(s, q, Braces(Inner(request.params, keys, style), style))
  BY ThirdMember
<1>2. open \in Seq(Others) /\ pad \in Seq(Others) /\ two \in Seq(Others) /\ sep \in Seq(Others)
  BY OtherTexts, OtherJoined
<1>3. top \in Seq(Seq(Lexemes)) /\ Len(top) = 3 /\ m \in Seq(Lexemes)
  <2>1. top \in Seq(Seq(Lexemes)) /\ Len(top) = 3
    BY TopPairs DEF PairsOf
  <2>2. 3 \in 1 .. Len(top)
    BY <2>1
  <2>3. top[3] \in Seq(Lexemes)
    BY <2>1, <2>2, ElementOf, Zenon
  <2> QED BY <2>1, <2>3
<1>4. all = two \o sep \o m
  <2> DEFINE j == Joined(top, style)
  <2>1. 3 \in 1 .. Len(top)
    BY <1>3
  <2>2. j[3] = j[3 - 1] \o Sep(3, style) \o top[3]
    BY <1>3, <2>1, JoinedStep
  <2> HIDE DEF j
  <2>3. j[3] = j[2] \o Sep(3, style) \o top[3]
    BY <2>2
  <2> QED BY <2>3 DEF j
<1>5. At(s, 1, open \o pad \o all \o pad \o shut)
  BY <1>3 DEF Braces
<1>6. /\ open \in Seq(Lexemes) /\ shut \in Seq(Lexemes) /\ pad \in Seq(Lexemes)
      /\ two \in Seq(Lexemes) /\ sep \in Seq(Lexemes) /\ all \in Seq(Lexemes) /\ Len(open) = 1
  <2>1. open \in Seq(Lexemes) /\ shut \in Seq(Lexemes) /\ Len(open) = 1
    BY TokenTexts
  <2>2. pad \in Seq(Lexemes) /\ sep \in Seq(Lexemes)
    BY StyleParts, SpaceText, SepText
  <2>3. two \in Seq(Lexemes) /\ all \in Seq(Lexemes)
    <3>1. 2 \in 0 .. Len(top) /\ 3 \in 0 .. Len(top)
      BY <1>3
    <3> QED BY <1>3, <3>1, JoinedText
  <2> QED BY <2>1, <2>2, <2>3
<1>7. from = 2 + Len(pad) + Len(all) - Len(m)
  <2>1. from = 1 + 1 + Len(pad) + Len(all) - Len(m)
    BY DEF Start
  <2>2. Len(pad) \in Nat /\ Len(all) \in Nat /\ Len(m) \in Nat
    BY <1>3, <1>6
  <2> HIDE DEF from, pad, all, m
  <2> QED BY <2>1, <2>2
<1> HIDE DEF from, open, shut, pad, two, all, sep, m
<1> DEFINE head == open \o pad
           lead == two \o sep
<1>8. head \in Seq(Others) /\ lead \in Seq(Others) /\ head \in Seq(Lexemes) /\ lead \in Seq(Lexemes)
  BY <1>2, <1>6
<1>9. Len(head) = 1 + Len(pad) /\ Len(all) = Len(lead) + Len(m)
  <2>1. Len(head) = Len(open) + Len(pad)
    BY <1>6, Concat
  <2>2. Len(lead \o m) = Len(lead) + Len(m)
    BY <1>3, <1>8, Concat
  <2> QED BY <1>4, <1>6, <2>1, <2>2
<1>10. At(s, 1, head) /\ At(s, 1 + Len(head), all)
  <2> HIDE DEF head
  <2>1. At(s, 1, head \o all \o pad \o shut)
    BY <1>5 DEF head
  <2>2. head \o all \in Seq(Lexemes) /\ head \o all \o pad \in Seq(Lexemes)
    BY <1>6, <1>8, Concat
  <2>3. At(s, 1, head \o all \o pad)
    BY <1>6, <2>1, <2>2, AtParts
  <2>4. At(s, 1, head \o all)
    BY <1>6, <2>2, <2>3, AtParts
  <2> QED BY <1>6, <1>8, <2>4, AtParts
<1> DEFINE h == Len(head)
           l == Len(lead)
           a == 1 + h
<1>11. h \in Nat /\ l \in Nat /\ from = a + l
  <2>1. Len(pad) \in Nat /\ Len(m) \in Nat /\ Len(lead) \in Nat /\ Len(head) \in Nat
    BY <1>3, <1>6, <1>8
  <2> DEFINE w == Len(pad)
             c == Len(m)
             d == Len(all)
  <2>2. h = 1 + w /\ d = l + c /\ from = 2 + w + d - c /\ w \in Nat /\ c \in Nat /\ l \in Nat /\ h \in Nat
    BY <1>7, <1>9, <2>1
  <2> HIDE DEF w, c, d, h, l
  <2> QED BY <2>2
<1>12. At(s, a, lead)
  <2>1. At(s, a, lead \o m)
    BY <1>4, <1>10
  <2>2. a \in Nat
    BY <1>11
  <2> HIDE DEF lead, a
  <2> QED BY <1>3, <1>8, <2>1, <2>2, AtParts
<1> HIDE DEF head, lead
<1>13. ASSUME NEW i \in 1 .. from - 1 PROVE s[i] # String("params")
  <2>1. CASE i <= h
    <3>1. i \in 1 .. Len(head) /\ i = 1 + i - 1
      BY <1>11, <2>1
    <3>2. s[i] = head[i]
      BY <1>8, <1>10, <3>1, AtFirst
    <3> QED BY <1>8, <3>1, <3>2 DEF Others
  <2>2. CASE ~(i <= h)
    <3> DEFINE j == i - h
    <3>1. j \in 1 .. Len(lead) /\ i = a + j - 1 /\ a \in Nat \ {0}
      <4> HIDE DEF h, l
      <4>1. j \in 1 .. l /\ i = a + j - 1 /\ a \in Nat \ {0}
        BY <1>11, <2>2
      <4> QED BY <4>1 DEF l
    <3> HIDE DEF j, a
    <3>2. s[i] = lead[j]
      BY <1>8, <1>12, <3>1, AtFirst
    <3> QED BY <1>8, <3>1, <3>2 DEF Others
  <2> QED BY <2>1, <2>2
<1> HIDE DEF h, l, a
<1>14. from \in named /\ \A p \in named : from <= p
  <2>1. from \in named
    BY <1>1
  <2>2. \A p \in named : p \in Nat /\ p \notin 1 .. from - 1 /\ p >= 1
    BY <1>13
  <2> QED BY <1>1, <2>1, <2>2
<1>15. (CHOOSE p \in named : \A r \in named : p <= r) = from
  <2>1. named \subseteq Nat
    OBVIOUS
  <2> HIDE DEF named
  <2>2. \A p \in named : (\A r \in named : p <= r) => p = from
    BY <1>14, <2>1
  <2> QED BY <1>14, <2>2
<1>16. FirstOf(s, from, {"colon"}) = from + 1
  <2> DEFINE c == from + 1
             kinds == {"colon"}
  <2>1. Kind(s, from) = "string" /\ from \in Nat
    BY <1>1, KindOf DEF String
  <2>2. c \in from .. Len(s) + 1 /\ c <= Len(s) /\ Kind(s, c) \in kinds /\ \A i \in from .. c - 1 : i = from
    BY <1>1
  <2>3. Stop(s, from, kinds, c)
    BY <2>1, <2>2 DEF Stop
  <2> HIDE DEF c, kinds
  <2>4. FirstOf(s, from, kinds) = c
    BY <2>1, <2>2, <2>3, FirstOfIs
  <2> QED BY <2>4 DEF c, kinds
<1>17. (from + 1) + 1 = from + 2
  BY <1>1
<1>18. Kind(s, q) = "open"
  <2> DEFINE params == request.params
  <2>1. At(s, q, Braces(Inner(params, keys, style), style)) /\ q \in Nat \ {0}
        /\ keys \in KeyLists \cup {<< >>} /\ params \in [NamesIn(keys) -> Texts]
    BY <1>1 DEF Asked
  <2> HIDE DEF params
  <2>2. CASE keys = << >>
    <3>1. At(s, q, Braces(<< >>, style))
      BY <2>1, <2>2, InnerText
    <3> QED BY <2>1, <3>1, EmptyRead
  <2>3. CASE keys # << >>
    <3>1. PairsOf(Inner(params, keys, style), keys, InnerValues(params, keys), style)
      BY <2>1, <2>3, InnerPairs
    <3> QED BY <2>1, <3>1, ObjectRead
  <2> QED BY <2>2, <2>3
<1>19. named # {}
  BY <1>14
<1> QED BY <1>1, <1>15, <1>16, <1>17, <1>18, <1>19 DEF ParamsObject, named

-----------------------------------------------------------------------------
(* No members make no parameters.                                                      *)
LEMMA EmptyMap ==
    AsMap([ok |-> TRUE, list |-> << >>]) = Nothing
<1> DEFINE none == [ok |-> TRUE, list |-> << >>]
<1>1. Keys(none) = {}
  <2>1. DOMAIN none.list = {}
    OBVIOUS
  <2> HIDE DEF none
  <2> QED BY <2>1 DEF Keys
<1> HIDE DEF none
<1>2. AsMap(none) = Nothing
  BY <1>1 DEF AsMap, Nothing
<1> QED BY <1>2 DEF none

(* A request's text begins with an object.                                             *)
LEMMA TextParts ==
    ASSUME NEW request, NEW order, NEW keys, NEW style \in Styles, Ordered(order), Asked(request, keys),
           NEW top, top = Top(request, order, keys, style), NEW s, s = Braces(top, style)
    PROVE  /\ s \in Seq(Lexemes) /\ At(s, 1, Braces(top, style))
           /\ Text(request, order, keys, style) = s
           /\ Object(s, 1) = Members(s)[Start(top, style, 1, 1)]
<1>1. PairsOf(top, order, TopValues(request, order, keys, style), style)
  BY TopPairs
<1>2. s \in Seq(Lexemes)
  BY <1>1, BracesText DEF PairsOf, Given
<1>3. At(s, 1, s)
  BY <1>2 DEF At
<1>4. At(s, 1, Braces(top, style))
  BY <1>3
<1>5. Object(s, 1) = Members(s)[Start(top, style, 1, 1)]
  BY <1>1, <1>2, <1>4, ObjectRead
<1> QED BY <1>2, <1>4, <1>5 DEF Text, Top

(* What fromJson makes of the members in a row and the parameters it finds.   *)
LEMMA RequestRead ==
    ASSUME NEW request, NEW order, NEW keys, NEW style \in Styles, Ordered(order), Asked(request, keys),
           NEW top, top = Top(request, order, keys, style),
           NEW s, s = Braces(top, style),
           NEW n, NEW pos, InARow(s, n, pos), n >= 2,
           pos[1] = Start(top, style, 1, 1), pos[2] = Start(top, style, 1, 2),
           \A i \in 3 .. n : Member(s, pos[i]).key \notin {"request_id", "command"},
           ParamsObject(s).ok, AsMap(ParamsObject(s)) = request.params
    PROVE  FromJson(s) = Request(request.id, Named(request.command), request.params)
<1>1. s \in Seq(Lexemes) /\ At(s, 1, Braces(top, style))
  BY TextParts
<1>2. /\ Object(s, 1).ok
      /\ "request_id" \in Keys(Object(s, 1)) /\ Lookup(Object(s, 1), "request_id") = request.id
      /\ "command" \in Keys(Object(s, 1)) /\ Lookup(Object(s, 1), "command") = request.command
  BY <1>1, TopRead
<1>3. request.id \in Numerals
  BY DEF Asked
<1> QED BY <1>2, <1>3 DEF FromJson, Request, Named

(* A request without parameters.                                                       *)
LEMMA PlainRead ==
    ASSUME NEW request, NEW order, NEW style \in Styles, Ordered(order), Asked(request, << >>),
           Len(order) = 2, request.params = Nothing
    PROVE  FromJson(Text(request, order, << >>, style)) = Request(request.id, Named(request.command), Nothing)
<1> DEFINE none == << >>
           top == Top(request, order, none, style)
           s == Braces(top, style)
           pos == [i \in 1 .. 2 |-> Start(top, style, 1, i)]
<1>1. Asked(request, none)
  OBVIOUS
<1> HIDE DEF none
<1>2. ParamsObject(s) = [ok |-> TRUE, list |-> << >>]
  BY <1>1, NoParams
<1>3. s \in Seq(Lexemes) /\ At(s, 1, Braces(top, style)) /\ Text(request, order, none, style) = s
  BY <1>1, TextParts
<1>4. pos[1] = Start(top, style, 1, 1) /\ pos[2] = Start(top, style, 1, 2)
  OBVIOUS
<1> HIDE DEF top, s
<1>5. ASSUME NEW i \in {1, 2}
      PROVE  /\ pos[i] \in 1 .. Len(s) /\ Member(s, pos[i]).ok
             /\ i < 2 => Kind(s, Following(s, pos[i])) = "comma" /\ Onward(s, pos[i]) = pos[i + 1]
             /\ i = 2 => Kind(s, Following(s, pos[i])) = "close"
  <2> DEFINE from == Start(top, style, 1, i)
             value == Worth(request, order[i])
  <2>1. top = Top(request, order, none, style) /\ 2 = Len(order) /\ from = Start(top, style, 1, i)
    BY DEF top
  <2>2. pos[i] = from /\ (i < 2 => pos[i + 1] = Start(top, style, 1, i + 1))
    OBVIOUS
  <2> HIDE DEF from, pos, value
  <2>3. /\ from \in 1 .. Len(s)
        /\ Member(s, from) = [ok |-> TRUE, key |-> order[i], value |-> value, end |-> Stopping(top, style, 1, i)]
        /\ i < Len(order) => /\ Kind(s, Following(s, from)) = "comma"
                             /\ Onward(s, from) = Start(top, style, 1, i + 1)
        /\ i = Len(order) => Kind(s, Following(s, from)) = "close"
    <3>1. ReadFirst(request, order, top, style, s, 1, i, from)
      BY <1>1, <1>3, <2>1, TopMember
    <3> QED BY <3>1 DEF ReadFirst, value
  <2> QED BY <2>1, <2>2, <2>3
<1> HIDE DEF pos
<1>6. InARow(s, 2, pos)
  BY <1>5 DEF InARow
<1>7. ParamsObject(s).ok /\ AsMap(ParamsObject(s)) = Nothing
  BY <1>2, EmptyMap
<1>8. \A i \in 3 .. 2 : FALSE
  OBVIOUS
<1>9. FromJson(s) = Request(request.id, Named(request.command), request.params)
  <2> DEFINE n == 2
  <2>1. n >= 2 /\ InARow(s, n, pos) /\ \A i \in 3 .. n : FALSE
    BY <1>6, <1>8
  <2> HIDE DEF n
  <2>2. top = Top(request, order, none, style) /\ s = Braces(top, style)
    BY DEF top, s
  <2> QED BY <1>1, <1>4, <1>7, <2>1, <2>2, RequestRead, SMTT(60)
<1> QED BY <1>3, <1>9 DEF none

(* The first two of three members.                                            *)
LEMMA FirstTwo ==
    ASSUME NEW request, NEW order, NEW keys, NEW style \in Styles, Ordered(order), Asked(request, keys),
           Len(order) = 3, NEW top, top = Top(request, order, keys, style), NEW s, s = Braces(top, style),
           NEW i \in {1, 2}, NEW from, from = Start(top, style, 1, i)
    PROVE  /\ from \in 1 .. Len(s) /\ Member(s, from).ok
           /\ Kind(s, Following(s, from)) = "comma" /\ Onward(s, from) = Start(top, style, 1, i + 1)
<1> DEFINE p == 1
<1>1. s \in Seq(Lexemes) /\ At(s, p, Braces(top, style)) /\ p \in Nat \ {0} /\ from = Start(top, style, p, i)
  BY TextParts
<1> HIDE DEF p
<1>2. ReadFirst(request, order, top, style, s, p, i, from)
  BY <1>1, TopMember
<1> QED BY <1>2 DEF p, ReadFirst

(* The third, its parameters and where parsePrimitive leaves it.              *)
LEMMA ThirdRead ==
    ASSUME NEW request, NEW order, NEW keys, NEW style \in Styles, Ordered(order), Asked(request, keys),
           Len(order) = 3, NEW top, top = Top(request, order, keys, style), NEW s, s = Braces(top, style),
           NEW from, from = Start(top, style, 1, 3)
    PROVE  \E q \in 1 .. Len(s) :
              /\ At(s, q, Braces(Inner(request.params, keys, style), style))
              /\ ParamsObject(s) = Object(s, q)
              /\ from \in 1 .. Len(s) /\ Member(s, from).ok /\ Member(s, from).key = "params"
              /\ Following(s, from) = SkipWs(s, ValueEnd(s, q))
<1> DEFINE q == from + 2 + Len(Space(style.gap))
<1>1. s \in Seq(Lexemes) /\ At(s, 1, Braces(top, style))
  BY TextParts
<1>2. /\ q \in 1 .. Len(s) /\ At(s, q, Braces(Inner(request.params, keys, style), style))
      /\ from \in 1 .. Len(s) /\ Member(s, from).ok /\ Member(s, from).key = "params"
      /\ Member(s, from).end = ValueEnd(s, q)
  BY <1>1, ThirdMember
<1>3. ParamsObject(s) = Object(s, q)
  BY <1>1, ParamsFound
<1> HIDE DEF q
<1> QED BY <1>2, <1>3 DEF Following

(* An empty object of parameters.                                             *)
LEMMA EmptyParamsRead ==
    ASSUME NEW request, NEW order, NEW style \in Styles, Ordered(order), Asked(request, << >>), Len(order) = 3
    PROVE  FromJson(Text(request, order, << >>, style)) = Request(request.id, Named(request.command), request.params)
<1> DEFINE none == << >>
           top == Top(request, order, none, style)
           s == Braces(top, style)
           third == Start(top, style, 1, 3)
           pos == [i \in 1 .. 3 |-> Start(top, style, 1, i)]
           inner == Inner(request.params, none, style)
<1>1. Asked(request, none)
  OBVIOUS
<1>2. inner = << >> /\ request.params = Nothing
  <2>1. DOMAIN none = {}
    OBVIOUS
  <2>2. NamesIn(none) = {}
    BY <2>1 DEF NamesIn
  <2> HIDE DEF none
  <2>3. inner = [i \in {} |-> 0]
    BY <2>1 DEF Inner
  <2>4. request.params \in [{} -> Texts]
    BY <1>1, <2>2 DEF Asked
  <2>5. [i \in {} |-> 0] = << >>
    OBVIOUS
  <2>6. request.params = Nothing
    BY <2>4 DEF Nothing
  <2> QED BY <2>3, <2>5, <2>6, Zenon
<1> HIDE DEF none, top, s, inner
<1>3. s \in Seq(Lexemes) /\ At(s, 1, Braces(top, style)) /\ Text(request, order, none, style) = s
  BY <1>1, TextParts DEF top, s
<1>4. PICK q \in 1 .. Len(s) :
         /\ At(s, q, Braces(inner, style)) /\ ParamsObject(s) = Object(s, q)
         /\ third \in 1 .. Len(s) /\ Member(s, third).ok /\ Member(s, third).key = "params"
         /\ Following(s, third) = SkipWs(s, ValueEnd(s, q))
  BY <1>1, ThirdRead DEF top, s, inner
<1>5. /\ Object(s, q) = [ok |-> TRUE, list |-> << >>]
      /\ ValueEnd(s, q) = q + 1 /\ Kind(s, SkipWs(s, q + 1)) = "close"
  <2>1. At(s, q, Braces(<< >>, style)) /\ q \in Nat \ {0}
    <3>1. Braces(inner, style) = Braces(<< >>, style)
      BY <1>2, Zenon
    <3> QED BY <1>4, <3>1
  <2> QED BY <1>3, <2>1, EmptyRead
<1>6. ParamsObject(s).ok /\ AsMap(ParamsObject(s)) = request.params
  <2>1. ParamsObject(s) = [ok |-> TRUE, list |-> << >>]
    BY <1>4, <1>5
  <2> QED BY <1>2, <2>1, EmptyMap
<1>7. Kind(s, Following(s, third)) = "close"
  BY <1>4, <1>5
<1>8. ASSUME NEW i \in {1, 2}, NEW from, from = Start(top, style, 1, i)
      PROVE  /\ from \in 1 .. Len(s) /\ Member(s, from).ok
             /\ Kind(s, Following(s, from)) = "comma" /\ Onward(s, from) = Start(top, style, 1, i + 1)
  BY <1>1, <1>8, FirstTwo, SMTT(60) DEF top, s
<1>9. pos[1] = Start(top, style, 1, 1) /\ pos[2] = Start(top, style, 1, 2) /\ pos[3] = third
  OBVIOUS
<1> HIDE DEF third, pos
<1>10. ASSUME NEW i \in 1 .. 3
       PROVE  /\ pos[i] \in 1 .. Len(s) /\ Member(s, pos[i]).ok
              /\ i < 3 => Kind(s, Following(s, pos[i])) = "comma" /\ Onward(s, pos[i]) = pos[i + 1]
              /\ i = 3 => Kind(s, Following(s, pos[i])) = "close"
  <2>1. CASE i = 3
    BY <1>4, <1>7, <1>9, <2>1
  <2>2. CASE i \in {1, 2}
    <3>1. pos[i] = Start(top, style, 1, i) /\ pos[i + 1] = Start(top, style, 1, i + 1)
      BY <2>2, <1>9 DEF third
    <3>2. /\ pos[i] \in 1 .. Len(s) /\ Member(s, pos[i]).ok
          /\ Kind(s, Following(s, pos[i])) = "comma" /\ Onward(s, pos[i]) = Start(top, style, 1, i + 1)
      BY <1>8, <2>2, <3>1
    <3> QED BY <2>2, <3>1, <3>2
  <2> QED BY <2>1, <2>2
<1>11. InARow(s, 3, pos)
  BY <1>10 DEF InARow
<1>12. \A i \in 3 .. 3 : Member(s, pos[i]).key \notin {"request_id", "command"}
  BY <1>4, <1>9
<1>13. FromJson(s) = Request(request.id, Named(request.command), request.params)
  <2> DEFINE n == 3
  <2>1. n >= 2 /\ InARow(s, n, pos) /\ \A i \in 3 .. n : Member(s, pos[i]).key \notin {"request_id", "command"}
    BY <1>11, <1>12
  <2> HIDE DEF n
  <2>2. top = Top(request, order, none, style) /\ s = Braces(top, style)
    BY DEF top, s
  <2> QED BY <1>1, <1>6, <1>9, <2>1, <2>2, RequestRead, SMTT(60)
<1> QED BY <1>3, <1>13 DEF none

(* Compact, the parameters but the first follow the third member as members.  *)
LEMMA CompactFollows ==
    ASSUME NEW keys \in KeyLists, keys # << >>, NEW params \in [NamesIn(keys) -> Texts],
           NEW inner, inner = Inner(params, keys, Compact),
           NEW s \in Seq(Lexemes), NEW q \in Nat \ {0}, At(s, q, Braces(inner, Compact)),
           NEW from, Following(s, from) = SkipWs(s, ValueEnd(s, q))
    PROVE  /\ Len(keys) > 1 => /\ Kind(s, Following(s, from)) = "comma"
                               /\ Onward(s, from) = Start(inner, Compact, q, 2)
           /\ Len(keys) = 1 => Kind(s, Following(s, from)) = "close"
<1> DEFINE end == Stopping(inner, Compact, q, 1)
           values == InnerValues(params, keys)
<1>1. Compact \in Styles
  BY CompactStyle
<1>2. ValueEnd(s, q) = end
  BY CompactEnd
<1>3. PairsOf(inner, keys, values, Compact) /\ Len(inner) = Len(keys) /\ Len(keys) \in Nat \ {0}
  BY <1>1, InnerPairs
<1>4. 1 \in 1 .. Len(inner)
  BY <1>3
<1> HIDE DEF end, values
<1>5. /\ 1 < Len(inner) => /\ Kind(s, end) = "comma" /\ SkipWs(s, end) = end
                           /\ SkipWs(s, end + 1) = Start(inner, Compact, q, 1 + 1)
      /\ 1 = Len(inner) => Kind(s, SkipWs(s, end)) = "close"
  <2>1. \A e : \A style \in Styles, i \in 1 .. Len(inner) :
           PairsOf(inner, keys, values, style) /\ At(s, q, Braces(inner, style)) /\ e = Stopping(inner, style, q, i) =>
              /\ i < Len(inner) => /\ Kind(s, e) = "comma" /\ SkipWs(s, e) = e
                                   /\ SkipWs(s, e + 1) = Start(inner, style, q, i + 1)
              /\ i = Len(inner) => Kind(s, SkipWs(s, e)) = "close"
    BY PairsAround
  <2>2. end = Stopping(inner, Compact, q, 1)
    BY DEF end
  <2> QED BY ONLY <1>1, <1>3, <1>4, At(s, q, Braces(inner, Compact)), <2>1, <2>2
<1>6. Following(s, from) = SkipWs(s, end)
  BY <1>2
<1> QED BY <1>3, <1>5, <1>6 DEF Onward

(* A compact request with parameters.                                                  *)
LEMMA CompactRead ==
    ASSUME NEW request, NEW order, NEW keys \in KeyLists, keys # << >>, Ordered(order), Asked(request, keys),
           Len(order) = 3
    PROVE  FromJson(Text(request, order, keys, Compact)) = Request(request.id, Named(request.command), request.params)
<1> DEFINE style  == Compact
           top    == Top(request, order, keys, style)
           s      == Braces(top, style)
           third  == Start(top, style, 1, 3)
           params == request.params
           inner  == Inner(params, keys, style)
           m      == Len(keys)
           n      == m + 2
<1>1. style \in Styles
  BY CompactStyle
<1>2. params \in [NamesIn(keys) -> Texts]
  BY DEF Asked
<1>3. top = Top(request, order, keys, style) /\ s = Braces(top, style) /\ third = Start(top, style, 1, 3)
      /\ inner = Inner(params, keys, style) /\ style = Compact
  OBVIOUS
<1> HIDE DEF style, top, s, third, inner
<1>4. s \in Seq(Lexemes) /\ At(s, 1, Braces(top, style)) /\ Text(request, order, keys, style) = s
  BY <1>1, <1>3, TextParts
<1>5. PICK q \in 1 .. Len(s) :
         /\ At(s, q, Braces(inner, style)) /\ ParamsObject(s) = Object(s, q)
         /\ third \in 1 .. Len(s) /\ Member(s, third).ok /\ Member(s, third).key = "params"
         /\ Following(s, third) = SkipWs(s, ValueEnd(s, q))
  BY <1>1, <1>3, ThirdRead
<1>6. q \in Nat \ {0}
  OBVIOUS
<1>7. m \in Nat \ {0} /\ \A i \in 1 .. m : keys[i] \in ParamNames
  BY <1>1, <1>2, InnerPairs
<1> HIDE DEF params
<1>8. ParamsObject(s).ok /\ AsMap(ParamsObject(s)) = params
  <2>1. Object(s, q).ok /\ AsMap(Object(s, q)) = params
    BY <1>1, <1>2, <1>3, <1>4, <1>5, <1>6, InnerRead
  <2> QED BY <1>5, <2>1
<1>9. /\ m > 1 => Kind(s, Following(s, third)) = "comma" /\ Onward(s, third) = Start(inner, style, q, 2)
      /\ m = 1 => Kind(s, Following(s, third)) = "close"
  BY <1>2, <1>3, <1>4, <1>5, <1>6, CompactFollows
<1>10. ASSUME NEW i \in {1, 2}, NEW from, from = Start(top, style, 1, i)
       PROVE  /\ from \in 1 .. Len(s) /\ Member(s, from).ok
              /\ Kind(s, Following(s, from)) = "comma" /\ Onward(s, from) = Start(top, style, 1, i + 1)
  BY <1>1, <1>3, <1>10, FirstTwo, SMTT(60)
<1>11. ASSUME NEW i \in 2 .. m, NEW from, from = Start(inner, style, q, i)
       PROVE  /\ from \in 1 .. Len(s) /\ Member(s, from).ok /\ Member(s, from).key \in ParamNames
              /\ i < m => Kind(s, Following(s, from)) = "comma" /\ Onward(s, from) = Start(inner, style, q, i + 1)
              /\ i = m => Kind(s, Following(s, from)) = "close"
  <2>1. i \in 1 .. Len(keys)
    BY <1>7
  <2>2. /\ from \in 1 .. Len(s)
        /\ Member(s, from) = [ok |-> TRUE, key |-> keys[i], value |-> params[keys[i]],
                              end |-> Stopping(inner, style, q, i)]
        /\ i < Len(keys) => /\ Kind(s, Following(s, from)) = "comma"
                            /\ Onward(s, from) = Start(inner, style, q, i + 1)
        /\ i = Len(keys) => Kind(s, Following(s, from)) = "close"
    BY <1>1, <1>2, <1>3, <1>4, <1>5, <1>6, <1>11, <2>1, InnerMember, SMTT(60)
  <2> QED BY <1>7, <2>1, <2>2
<1> HIDE DEF m
<1> DEFINE pos == [i \in 1 .. n |-> IF i <= 3 THEN Start(top, style, 1, i) ELSE Start(inner, style, q, i - 2)]
<1>12. /\ pos[1] = Start(top, style, 1, 1) /\ pos[2] = Start(top, style, 1, 2) /\ pos[3] = third
       /\ \A i \in 4 .. n : pos[i] = Start(inner, style, q, i - 2)
  <2>1. 1 \in 1 .. n /\ 2 \in 1 .. n /\ 3 \in 1 .. n /\ \A i \in 4 .. n : i \in 1 .. n /\ ~(i <= 3)
    BY <1>7
  <2> HIDE DEF n
  <2> QED BY <1>3, <2>1
<1> HIDE DEF pos
<1>13. ASSUME NEW i \in 1 .. n
       PROVE  /\ pos[i] \in 1 .. Len(s) /\ Member(s, pos[i]).ok
              /\ i >= 3 => Member(s, pos[i]).key \in ParamNames \cup {"params"}
              /\ i < n => Kind(s, Following(s, pos[i])) = "comma" /\ Onward(s, pos[i]) = pos[i + 1]
              /\ i = n => Kind(s, Following(s, pos[i])) = "close"
  <2>1. CASE i = 1
    <3>1. /\ pos[1] \in 1 .. Len(s) /\ Member(s, pos[1]).ok
          /\ Kind(s, Following(s, pos[1])) = "comma" /\ Onward(s, pos[1]) = Start(top, style, 1, 1 + 1)
      BY <1>10, <1>12
    <3> QED BY <1>7, <1>12, <2>1, <3>1
  <2>2. CASE i = 2
    <3>1. /\ pos[2] \in 1 .. Len(s) /\ Member(s, pos[2]).ok
          /\ Kind(s, Following(s, pos[2])) = "comma" /\ Onward(s, pos[2]) = Start(top, style, 1, 2 + 1)
      BY <1>10, <1>12
    <3>2. Start(top, style, 1, 2 + 1) = pos[3]
      BY <1>3, <1>12
    <3> QED BY <1>7, <1>12, <2>2, <3>1, <3>2
  <2>3. CASE i = 3
    <3>1. m > 1 => 4 \in 4 .. n /\ pos[4] = Start(inner, style, q, 4 - 2)
      BY <1>7, <1>12
    <3> QED BY <1>5, <1>7, <1>9, <1>12, <2>3, <3>1
  <2>4. CASE i \in 4 .. n
    <3> DEFINE j == i - 2
               from == pos[i]
    <3>1. j \in 2 .. m /\ (i < n <=> j < m) /\ (i = n <=> j = m) /\ (i < n => i + 1 \in 4 .. n /\ (i + 1) - 2 = j + 1)
      BY <1>7, <2>4
    <3>2. from = Start(inner, style, q, j)
      BY <1>12, <2>4
    <3>3. i < n => pos[i + 1] = Start(inner, style, q, j + 1)
      <4>1. i < n => pos[i + 1] = Start(inner, style, q, (i + 1) - 2)
        BY <1>12, <3>1
      <4> QED BY <3>1, <4>1
    <3> HIDE DEF j, from, n
    <3>4. /\ from \in 1 .. Len(s) /\ Member(s, from).ok /\ Member(s, from).key \in ParamNames
          /\ j < m => Kind(s, Following(s, from)) = "comma" /\ Onward(s, from) = Start(inner, style, q, j + 1)
          /\ j = m => Kind(s, Following(s, from)) = "close"
      BY <1>11, <3>1, <3>2
    <3> QED BY <3>1, <3>3, <3>4 DEF from
  <2> QED BY <1>7, <2>1, <2>2, <2>3, <2>4
<1>14. n \in Nat \ {0} /\ n >= 2
  BY <1>7
<1> HIDE DEF n
<1>15. InARow(s, n, pos)
  BY <1>13, <1>14 DEF InARow
<1>16. \A i \in 3 .. n : Member(s, pos[i]).key \notin {"request_id", "command"}
  <2> SUFFICES ASSUME NEW i \in 3 .. n PROVE Member(s, pos[i]).key \notin {"request_id", "command"}
    OBVIOUS
  <2>1. i \in 1 .. n /\ i >= 3
    BY <1>14
  <2>2. Member(s, pos[i]).key \in ParamNames \cup {"params"}
    BY <1>13, <2>1
  <2> QED BY <2>2, TextsAssumption
<1>17. FromJson(s) = Request(request.id, Named(request.command), request.params)
  BY <1>1, <1>3, <1>8, <1>12, <1>14, <1>15, <1>16, RequestRead, SMTT(60) DEF params
<1> QED BY <1>3, <1>4, <1>17

(* With white space anywhere the loop stops behind the third member.          *)
LEMMA SpacedRefused ==
    ASSUME NEW request, NEW order, NEW keys \in KeyLists, keys # << >>, NEW style \in Styles, style # Compact,
           Ordered(order), Asked(request, keys), Len(order) = 3
    PROVE  FromJson(Text(request, order, keys, style)) = Malformed("0")
<1> DEFINE top    == Top(request, order, keys, style)
           s      == Braces(top, style)
           third  == Start(top, style, 1, 3)
           params == request.params
           inner  == Inner(params, keys, style)
<1>1. params \in [NamesIn(keys) -> Texts]
  BY DEF Asked
<1>2. top = Top(request, order, keys, style) /\ s = Braces(top, style) /\ third = Start(top, style, 1, 3)
      /\ inner = Inner(params, keys, style)
  OBVIOUS
<1> HIDE DEF top, s, third, inner
<1>3. /\ s \in Seq(Lexemes) /\ At(s, 1, Braces(top, style)) /\ Text(request, order, keys, style) = s
      /\ Object(s, 1) = Members(s)[Start(top, style, 1, 1)]
  BY <1>2, TextParts
<1>4. PICK q \in 1 .. Len(s) :
         /\ At(s, q, Braces(inner, style)) /\ third \in 1 .. Len(s)
         /\ Following(s, third) = SkipWs(s, ValueEnd(s, q))
  BY <1>2, ThirdRead
<1> HIDE DEF params
<1>5. Kind(s, Following(s, third)) = "string"
  <2>1. q \in Nat \ {0}
    OBVIOUS
  <2> QED BY <1>1, <1>2, <1>3, <1>4, <2>1, SpacedEnd
<1>6. Members(s)[third] = Thrown
  <2>1. third \in 1 .. Len(s) + 1
    BY <1>4
  <2> QED BY <1>3, <1>5, <2>1, MembersUnfolds DEF Turn
<1>7. ASSUME NEW i \in {1, 2}, NEW from, from = Start(top, style, 1, i), Members(s)[Start(top, style, 1, i + 1)] = Thrown
      PROVE  Members(s)[from] = Thrown
  <2>1. /\ from \in 1 .. Len(s) /\ Member(s, from).ok
        /\ Kind(s, Following(s, from)) = "comma" /\ Onward(s, from) = Start(top, style, 1, i + 1)
    BY <1>2, <1>7, FirstTwo, SMTT(60)
  <2>2. Members(s)[from] = Turn(s, from, Thrown)
    <3>1. from \in 1 .. Len(s) + 1
      BY <2>1
    <3>2. Members(s)[from] = Turn(s, from, Members(s)[Onward(s, from)])
      BY <1>3, <3>1, MembersUnfolds
    <3> QED BY <1>7, <2>1, <3>2
  <2> QED BY <2>1, <2>2 DEF Turn, Thrown
<1>8. Members(s)[Start(top, style, 1, 2)] = Thrown
  <2>1. Start(top, style, 1, 2 + 1) = third
    BY <1>2
  <2> QED BY <1>6, <1>7, <2>1
<1>9. Members(s)[Start(top, style, 1, 1)] = Thrown
  <2>1. Start(top, style, 1, 1 + 1) = Start(top, style, 1, 2)
    OBVIOUS
  <2> QED BY <1>7, <1>8, <2>1
<1>10. ~Object(s, 1).ok
  BY <1>3, <1>9 DEF Thrown
<1>11. FromJson(s) = Malformed("0")
  BY <1>10 DEF FromJson
<1> QED BY <1>3, <1>11

-----------------------------------------------------------------------------
(* A request as OnlyCompactParameters quantifies over them.                            *)
LEMMA AskedFor ==
    ASSUME NEW id \in Numerals, NEW command \in (Commands \cup Texts) \ {"params"},
           NEW keys \in KeyLists \cup {<< >>}, NEW params \in [NamesIn(keys) -> Texts]
    PROVE  /\ Asked(Request(id, command, params), keys)
           /\ Request(id, command, params).id = id /\ Request(id, command, params).command = command
           /\ Request(id, command, params).params = params
BY DEF Asked, Request

LEMMA NoneAsked ==
    Nothing \in [NamesIn(<< >>) -> Texts]
<1> DEFINE none == << >>
<1>1. DOMAIN none = {}
  OBVIOUS
<1> HIDE DEF none
<1>2. NamesIn(none) = {}
  BY <1>1 DEF NamesIn
<1>3. Nothing \in [{} -> Texts]
  BY DEF Nothing
<1> QED BY <1>2, <1>3 DEF none

(* socket_request.cpp understands every request without parameters, whatever its id and*)
(* command, in both orders and every style.                                            *)
THEOREM PlainTextsAreUnderstood == PlainTextsUnderstood
<1> SUFFICES ASSUME NEW id \in Numerals, NEW command \in (Commands \cup Texts) \ {"params"},
                    NEW order \in Orders, NEW style \in Styles
             PROVE  FromJson(Text(Request(id, command, Nothing), order, << >>, style)) =
                      Request(id, Named(command), Nothing)
  BY DEF PlainTextsUnderstood
<1> DEFINE request == Request(id, command, Nothing)
<1>1. Asked(request, << >>) /\ request.id = id /\ request.command = command /\ request.params = Nothing
  BY NoneAsked, AskedFor
<1>2. Ordered(order) /\ Len(order) = 2
  BY OrdersOrdered
<1> HIDE DEF request
<1>3. FromJson(Text(request, order, << >>, style)) = Request(request.id, Named(request.command), Nothing)
  BY <1>1, <1>2, PlainRead
<1> QED BY <1>1, <1>3 DEF request

(* With parameters, any number of them and any values, it understands the compact text *)
(* and refuses every other.                                                            *)
THEOREM OnlyCompactParametersAre == OnlyCompactParameters
<1> SUFFICES ASSUME NEW id \in Numerals, NEW command \in (Commands \cup Texts) \ {"params"},
                    NEW order \in Orders, NEW style \in Styles,
                    NEW keys \in KeyLists, NEW params \in [NamesIn(keys) -> Texts]
             PROVE  FromJson(Text(Request(id, command, params), Append(order, "params"), keys, style)) =
                      IF keys = << >> \/ style = Compact
                      THEN Request(id, Named(command), params)
                      ELSE Malformed("0")
  BY DEF OnlyCompactParameters
<1> DEFINE request == Request(id, command, params)
           members == Append(order, "params")
<1>1. Asked(request, keys) /\ request.id = id /\ request.command = command /\ request.params = params
  BY AskedFor
<1>2. Ordered(members) /\ Len(members) = 3
  BY OrdersOrdered
<1> HIDE DEF request, members
<1>3. CASE keys = << >>
  <2>1. FromJson(Text(request, members, << >>, style)) = Request(request.id, Named(request.command), request.params)
    BY <1>1, <1>2, <1>3, EmptyParamsRead
  <2> QED BY <1>1, <1>3, <2>1 DEF request, members
<1>4. CASE keys # << >> /\ style = Compact
  <2>1. FromJson(Text(request, members, keys, style)) = Request(request.id, Named(request.command), request.params)
    BY <1>1, <1>2, <1>4, CompactRead
  <2> QED BY <1>1, <1>4, <2>1 DEF request, members
<1>5. CASE keys # << >> /\ style # Compact
  <2>1. FromJson(Text(request, members, keys, style)) = Malformed("0")
    BY <1>1, <1>2, <1>5, SpacedRefused
  <2> QED BY <1>5, <2>1 DEF request, members
<1> QED BY <1>3, <1>4, <1>5

-----------------------------------------------------------------------------
(* Requests.                                                                *)

(* What the client has begun to send and the handler has not answered.      *)
Unanswered == Len(sent) - Len(answers)

Framing == inflight + out + got = Unanswered * FrameSize

(* How much of a frame it has, by what the handler is doing.                *)
Parts ==
    /\ at = "header" => got <= HeaderSize
    /\ at = "body" => got >= HeaderSize
    /\ at = "send" => got = 0

Fit == \A i \in DOMAIN answers : i \in DOMAIN sent /\ answers[i] \in AnswersTo(Meant[sent[i]])

(* Every text may be answered as the request that was meant may be.         *)
ReadsWell == \A f \in Frames : AnswersTo(Parsed[f]) = AnswersTo(Meant[f])

(* HangsUpOnlyWhen, in terms of what the handler has read.                  *)
EndsOnlyWhen ==
    /\ at = "gone" => closed \/ (Current \in DOMAIN sent /\ sent[Current] \in OutOfRange)
    /\ at = "terminated" => Current \in DOMAIN sent /\ Fatal(Parsed[sent[Current]])

IInv == TypeOK /\ Framing /\ Parts /\ EndsOnlyWhen

-----------------------------------------------------------------------------
LEMMA FrameSizePositive == FrameSize \in Nat /\ FrameSize > 0
BY SizesAssumption DEF FrameSize

LEMMA OneFrameMore ==
    ASSUME NEW n \in Int
    PROVE  /\ n * FrameSize \in Int
           /\ (n + 1) * FrameSize = n * FrameSize + FrameSize
           /\ (n - 1) * FrameSize = n * FrameSize - FrameSize
BY FrameSizePositive

LEMMA Multiples ==
    ASSUME NEW n \in Int, NEW m \in Int, n <= m
    PROVE  n * FrameSize <= m * FrameSize
BY FrameSizePositive

LEMMA Difference ==
    ASSUME NEW n \in Int, NEW m \in Int
    PROVE  (n - m) * FrameSize = n * FrameSize - m * FrameSize
BY FrameSizePositive

(* With units of it in hand there is a current frame.                       *)
LEMMA CurrentExists ==
    ASSUME TypeOK, Framing, got > 0
    PROVE  Current \in DOMAIN sent
<1> DEFINE U == Unanswered
<1>1. U \in Int /\ Len(sent) \in Nat /\ Len(answers) \in Nat
  BY DEF TypeOK, Unanswered
<1>2. U * FrameSize > 0
  BY FrameSizePositive DEF TypeOK, Framing
<1>3. U > 0
  <2>1. SUFFICES ASSUME U <= 0 PROVE FALSE
    BY <1>1
  <2>2. U * FrameSize <= 0 * FrameSize
    BY <1>1, <2>1, Multiples
  <2>3. QED
    BY <1>1, <1>2, <2>2, FrameSizePositive
<1>4. QED
  BY <1>1, <1>3 DEF Current, Unanswered, TypeOK

LEMMA UnderstoodKnown ==
    ASSUME TypeOK, Framing, at = "body", BodyIn
    PROVE  /\ Current \in DOMAIN sent
           /\ Understood = Parsed[sent[Current]]
           /\ AnswersTo(Understood) \subseteq Answers
<1>1. Current \in DOMAIN sent /\ Understood = Parsed[sent[Current]]
  BY CurrentExists, FrameSizePositive DEF BodyIn, Understood, TypeOK
<1>2. sent[Current] \in Frames
  BY <1>1 DEF TypeOK
<1>3. QED
  BY <1>1, <1>2 DEF Answers

-----------------------------------------------------------------------------
LEMMA InitIInv == Init => IInv
<1> SUFFICES ASSUME Init PROVE IInv
  OBVIOUS
<1>1. TypeOK
  <2>1. << >> \in Seq(Frames) /\ << >> \in Seq(Answers) /\ Len(<< >>) = 0
    OBVIOUS
  <2>2. 0 \in 0 .. FrameSize /\ 0 \in 0 .. BufferSize
    BY SizesAssumption, FrameSizePositive
  <2>3. sent \in Seq(Frames) /\ Len(sent) <= MaxFrames /\ answers \in Seq(Answers)
    BY <2>1, SizesAssumption DEF Init
  <2>4. QED
    BY <2>2, <2>3 DEF Init, TypeOK
<1>2. Framing
  BY FrameSizePositive DEF Init, Framing, Unanswered
<1>3. Parts /\ EndsOnlyWhen
  BY SizesAssumption DEF Init, Parts, EndsOnlyWhen
<1> QED
  BY <1>1, <1>2, <1>3 DEF IInv

LEMMA ComposeKeeps ==
    ASSUME IInv, NEW f \in Frames, Compose(f)
    PROVE  IInv'
<1>1. TypeOK'
  <2>1. sent' \in Seq(Frames) /\ Len(sent') <= MaxFrames
    BY SizesAssumption DEF IInv, TypeOK, Compose
  <2>2. out' \in 0 .. FrameSize
    BY FrameSizePositive DEF Compose
  <2>3. QED
    BY <2>1, <2>2 DEF IInv, TypeOK, Compose, handler
<1>2. Framing'
  <2>1. Unanswered \in Int /\ Unanswered' = Unanswered + 1
    BY DEF IInv, TypeOK, Compose, handler, Unanswered
  <2>2. Unanswered' * FrameSize = Unanswered * FrameSize + FrameSize
    BY <2>1, OneFrameMore
  <2>3. QED
    BY <2>1, <2>2, FrameSizePositive, OneFrameMore DEF IInv, TypeOK, Framing, Compose, handler
<1>3. Parts'
  BY DEF IInv, Parts, Compose, handler
<1>4. EndsOnlyWhen'
  BY DEF IInv, TypeOK, EndsOnlyWhen, Current, Compose, handler
<1> QED
  BY <1>1, <1>2, <1>3, <1>4 DEF IInv

LEMMA ClientKeeps ==
    ASSUME IInv, Write \/ Read \/ Close
    PROVE  IInv'
<1>1. Unanswered' = Unanswered /\ Unanswered \in Int /\ Unanswered * FrameSize \in Int
  <2>1. sent' = sent /\ answers' = answers
    BY DEF Write, Read, Close, handler, client
  <2>2. Unanswered \in Int
    BY DEF IInv, TypeOK, Unanswered
  <2>3. QED
    BY <2>1, <2>2, OneFrameMore DEF Unanswered
<1>2. TypeOK'
  <2>1. CASE Write
    BY <2>1, SizesAssumption, FrameSizePositive DEF IInv, TypeOK, Write, handler
  <2>2. CASE Read
    BY <2>2, SizesAssumption DEF IInv, TypeOK, Read, handler, client
  <2>3. CASE Close
    BY <2>3 DEF IInv, TypeOK, Close, handler
  <2>4. QED
    BY <2>1, <2>2, <2>3
<1>3. Framing'
  <2>1. inflight \in Int /\ out \in Int /\ got \in Int
    BY FrameSizePositive, SizesAssumption DEF IInv, TypeOK
  <2>2. inflight' + out' + got' = inflight + out + got
    BY <2>1 DEF Write, Read, Close, handler, client
  <2>3. QED
    BY <1>1, <2>2 DEF IInv, Framing
<1>4. Parts'
  BY DEF IInv, Parts, Write, Read, Close, handler, client
<1>5. EndsOnlyWhen'
  BY DEF IInv, EndsOnlyWhen, Current, Write, Read, Close, handler, client
<1> QED
  BY <1>2, <1>3, <1>4, <1>5 DEF IInv

LEMMA ReceiveKeeps ==
    ASSUME IInv, NEW n \in 1 .. FrameSize, Receive(n)
    PROVE  IInv'
<1>1. Unanswered' = Unanswered /\ Unanswered * FrameSize \in Int
  BY OneFrameMore DEF IInv, TypeOK, Receive, client, Unanswered
<1>2. got + n \in 0 .. FrameSize /\ (at = "header" => got + n <= HeaderSize)
  BY SizesAssumption DEF IInv, TypeOK, Parts, Receive, Wanted, FrameSize
<1>3. TypeOK'
  BY <1>2, SizesAssumption, FrameSizePositive DEF IInv, TypeOK, Receive, client
<1>4. Framing'
  BY <1>1, FrameSizePositive DEF IInv, TypeOK, Framing, Receive, client
<1>5. Parts'
  BY <1>2, SizesAssumption DEF IInv, TypeOK, Parts, Receive, FrameSize
<1>6. EndsOnlyWhen'
  BY DEF IInv, EndsOnlyWhen, Current, Receive, client
<1> QED
  BY <1>3, <1>4, <1>5, <1>6 DEF IInv

LEMMA AnswerKeeps ==
    ASSUME IInv, NEW answer, Answer(answer)
    PROVE  IInv'
<1>1. answer \in Answers
  BY UnderstoodKnown DEF IInv, Answer
<1>2. TypeOK'
  BY <1>1, FrameSizePositive DEF IInv, TypeOK, Answer, client
<1>3. Framing'
  <2>1. Unanswered \in Int /\ Unanswered' = Unanswered - 1
    BY DEF IInv, TypeOK, Answer, client, Unanswered
  <2>2. Unanswered' * FrameSize = Unanswered * FrameSize - FrameSize
    BY <2>1, OneFrameMore
  <2>3. QED
    BY <2>1, <2>2, FrameSizePositive, OneFrameMore DEF IInv, TypeOK, Framing, Answer, BodyIn, client
<1>4. Parts' /\ EndsOnlyWhen'
  BY DEF Parts, EndsOnlyWhen, Answer
<1> QED
  BY <1>2, <1>3, <1>4 DEF IInv

LEMMA LengthKeeps ==
    ASSUME IInv, EndOfFile \/ LengthInRange \/ LengthOutOfRange \/ Terminates
    PROVE  IInv'
<1>1. Unanswered' = Unanswered
  BY DEF EndOfFile, LengthInRange, LengthOutOfRange, Terminates, client, Unanswered
<1>2. TypeOK'
  BY DEF IInv, TypeOK, EndOfFile, LengthInRange, LengthOutOfRange, Terminates, client
<1>3. Framing'
  BY <1>1 DEF IInv, Framing, EndOfFile, LengthInRange, LengthOutOfRange, Terminates, client
<1>4. Parts'
  BY SizesAssumption DEF IInv, TypeOK, Parts, EndOfFile, LengthInRange, LengthOutOfRange, Terminates, HeaderIn
<1>5. EndsOnlyWhen'
  <2>1. CASE EndOfFile
    BY <2>1 DEF EndOfFile, EndsOnlyWhen, client
  <2>2. CASE LengthInRange
    BY <2>2 DEF LengthInRange, EndsOnlyWhen
  <2>3. CASE LengthOutOfRange
    <3>1. Current \in DOMAIN sent
      BY <2>3, CurrentExists, SizesAssumption DEF IInv, LengthOutOfRange, HeaderIn
    <3>2. QED
      BY <2>3, <3>1 DEF LengthOutOfRange, EndsOnlyWhen, Current, client
  <2>4. CASE Terminates
    <3>1. Current \in DOMAIN sent /\ Fatal(Parsed[sent[Current]])
      BY <2>4, UnderstoodKnown DEF IInv, Terminates, Fatal
    <3>2. at' = "terminated" /\ UNCHANGED <<sent, answers, Current>>
      BY <2>4 DEF Terminates, client, Current
    <3>3. QED
      BY <3>1, <3>2 DEF EndsOnlyWhen, Fatal, Parsed
  <2>5. QED
    BY <2>1, <2>2, <2>3, <2>4
<1> QED
  BY <1>2, <1>3, <1>4, <1>5 DEF IInv

LEMMA SendingKeeps ==
    ASSUME IInv, (\E n \in 1 .. FrameSize : Send(n)) \/ SendFails \/ NextRequest
    PROVE  IInv'
<1>1. Unanswered' = Unanswered
  BY DEF Send, SendFails, NextRequest, client, Unanswered
<1>2. TypeOK'
  <2>1. ASSUME NEW n \in 1 .. FrameSize, Send(n) PROVE TypeOK'
    <3>1. unsent' \in 0 .. FrameSize /\ back' \in 0 .. BufferSize
      BY <2>1, FrameSizePositive, SizesAssumption DEF IInv, TypeOK, Send
    <3> QED BY <2>1, <3>1 DEF IInv, TypeOK, Send, client
  <2>2. CASE SendFails
    BY <2>2 DEF IInv, TypeOK, SendFails, client
  <2>3. CASE NextRequest
    BY <2>3 DEF IInv, TypeOK, NextRequest, client
  <2>4. QED
    BY <2>1, <2>2, <2>3
<1>3. Framing'
  BY <1>1 DEF IInv, Framing, Send, SendFails, NextRequest, client
<1>4. Parts'
  BY SizesAssumption DEF IInv, Parts, Send, SendFails, NextRequest
<1>5. EndsOnlyWhen'
  BY DEF IInv, EndsOnlyWhen, Current, Send, SendFails, NextRequest, client
<1> QED
  BY <1>2, <1>3, <1>4, <1>5 DEF IInv

LEMMA NextIInv == IInv /\ [Next]_vars => IInv'
<1> SUFFICES ASSUME IInv, [Next]_vars PROVE IInv'
  OBVIOUS
<1>1. ASSUME NEW f \in Frames, Compose(f) PROVE IInv'
  BY <1>1, ComposeKeeps
<1>2. CASE Write \/ Read \/ Close
  BY <1>2, ClientKeeps
<1>3. ASSUME NEW n \in 1 .. FrameSize, Receive(n) PROVE IInv'
  BY <1>3, ReceiveKeeps
<1>4. ASSUME NEW answer \in Answers, Answer(answer) PROVE IInv'
  BY <1>4, AnswerKeeps
<1>5. CASE EndOfFile \/ LengthInRange \/ LengthOutOfRange \/ Terminates
  BY <1>5, LengthKeeps
<1>6. CASE (\E n \in 1 .. FrameSize : Send(n)) \/ SendFails \/ NextRequest
  BY <1>6, SendingKeeps
<1>7. CASE UNCHANGED vars
  BY <1>7 DEF IInv, TypeOK, Framing, Unanswered, Parts, EndsOnlyWhen, Current, vars, client, handler
<1> QED
  BY <1>1, <1>2, <1>3, <1>4, <1>5, <1>6, <1>7 DEF Next, Handler

LEMMA AlwaysIInv == Spec => []IInv
BY InitIInv, NextIInv, PTL DEF Spec

-----------------------------------------------------------------------------
(* Types, and no buffer holds more than it can.                             *)
THEOREM RequestsTypeCorrect == Spec => []TypeOK
<1>1. IInv => TypeOK
  BY DEF IInv
<1> QED
  BY <1>1, AlwaysIInv, PTL

-----------------------------------------------------------------------------
(* The parser's name for a command that is none is answered like any other.    *)
LEMMA NamesAnsweredAlike ==
    ASSUME NEW id, NEW command, NEW params
    PROVE  AnswersTo(Request(id, Named(command), params)) = AnswersTo(Request(id, command, params))
<1>1. CASE command \in Commands
  BY <1>1 DEF Named
<1>2. CASE command \notin Commands
  <2>1. ASSUME NEW c, c \notin Commands PROVE dispatch(Request(id, c, params)) = {"INVALID_INPUT"}
    BY <2>1 DEF dispatch, Request, Commands
  <2>2. Named(command) = "UNKNOWN" /\ "UNKNOWN" \notin Commands
    BY <1>2 DEF Named, Commands
  <2>3. dispatch(Request(id, Named(command), params)) = dispatch(Request(id, command, params))
    BY <1>2, <2>1, <2>2
  <2>4. ASSUME NEW c PROVE Request(id, c, params).ok /\ Request(id, c, params).id = id
    BY DEF Request
  <2>5. ASSUME NEW c
        PROVE  AnswersTo(Request(id, c, params)) = [id : {id}, status : dispatch(Request(id, c, params))]
    BY <2>4 DEF AnswersTo
  <2> QED BY <2>3, <2>5
<1> QED BY <1>1, <1>2

(* What can be read is read as it was meant.                                   *)
LEMMA LegibleIsReadWell == Legible => ReadsWell
<1> SUFFICES ASSUME Legible, NEW f \in Frames PROVE AnswersTo(Parsed[f]) = AnswersTo(Meant[f])
  BY DEF ReadsWell
<1>1. Parsed[f] = FromJson(TextOf[f])
  BY DEF Parsed
<1>2. CASE WellWritten(f)
  <2>1. PICK id \in Numerals, command \in (Commands \cup Texts) \ {"params"}, order \in Orders, style \in Styles :
          \/ /\ Meant[f] = Request(id, command, Nothing)
             /\ TextOf[f] = Text(Meant[f], order, << >>, style)
          \/ \E keys \in KeyLists : \E params \in [NamesIn(keys) -> Texts] :
                /\ keys = << >> \/ style = Compact
                /\ Meant[f] = Request(id, command, params)
                /\ TextOf[f] = Text(Meant[f], Append(order, "params"), keys, style)
    BY <1>2 DEF WellWritten
  <2>2. \E params : Meant[f] = Request(id, command, params) /\ FromJson(TextOf[f]) = Request(id, Named(command), params)
    <3>1. CASE Meant[f] = Request(id, command, Nothing) /\ TextOf[f] = Text(Meant[f], order, << >>, style)
      <4>1. FromJson(Text(Request(id, command, Nothing), order, << >>, style)) = Request(id, Named(command), Nothing)
        BY PlainTextsAreUnderstood DEF PlainTextsUnderstood
      <4> QED BY <3>1, <4>1
    <3>2. ASSUME NEW keys \in KeyLists, NEW params \in [NamesIn(keys) -> Texts], keys = << >> \/ style = Compact,
                 Meant[f] = Request(id, command, params),
                 TextOf[f] = Text(Meant[f], Append(order, "params"), keys, style)
          PROVE  FromJson(TextOf[f]) = Request(id, Named(command), params)
      <4>1. FromJson(Text(Request(id, command, params), Append(order, "params"), keys, style)) =
              IF keys = << >> \/ style = Compact THEN Request(id, Named(command), params) ELSE Malformed("0")
        BY OnlyCompactParametersAre DEF OnlyCompactParameters
      <4> QED BY <3>2, <4>1
    <3> QED BY <2>1, <3>1, <3>2
  <2> QED BY <1>1, <2>2, NamesAnsweredAlike
<1>3. CASE NoObject(f)
  <2>1. ~Object(TextOf[f], 1).ok
    BY <1>3 DEF NoObject, Object, Thrown
  <2>2. FromJson(TextOf[f]) = Malformed("0")
    BY <2>1 DEF FromJson
  <2> QED BY <1>1, <1>3, <2>2 DEF NoObject
<1> QED BY <1>2, <1>3 DEF Legible

-----------------------------------------------------------------------------
(* clientHandler hangs up only on a client that left or that sent a length     *)
(* out of range, and the daemon goes down only on a request whose number is    *)
(* out of range: provided that the frames are legible.                         *)
THEOREM RequestsHangsUpOnlyWhen ==
    ASSUME Legible
    PROVE  Spec => []HangsUpOnlyWhen
<1>1. IInv => HangsUpOnlyWhen
  <2> SUFFICES ASSUME IInv PROVE HangsUpOnlyWhen
    OBVIOUS
  <2>1. ASSUME at = "terminated" PROVE Current \in DOMAIN sent /\ Fatal(Meant[sent[Current]])
    <3>1. Current \in DOMAIN sent /\ Fatal(Parsed[sent[Current]])
      BY <2>1 DEF IInv, EndsOnlyWhen
    <3>2. sent[Current] \in Frames
      BY <3>1 DEF IInv, TypeOK
    <3>3. AnswersTo(Parsed[sent[Current]]) = AnswersTo(Meant[sent[Current]])
      BY <3>2, Legible, LegibleIsReadWell DEF ReadsWell
    <3> QED BY <3>1, <3>3 DEF Fatal
  <2> QED BY <2>1 DEF IInv, EndsOnlyWhen, HangsUpOnlyWhen
<1> QED
  BY <1>1, AlwaysIInv, PTL

-----------------------------------------------------------------------------
LEMMA NextFit == ReadsWell /\ IInv /\ Fit /\ [Next]_vars => Fit'
<1> SUFFICES ASSUME ReadsWell, IInv, Fit, [Next]_vars PROVE Fit'
  OBVIOUS
<1>1. ASSUME NEW answer, Answer(answer) PROVE Fit'
  <2>1. Current \in DOMAIN sent /\ answer \in AnswersTo(Parsed[sent[Current]]) /\ sent[Current] \in Frames
    BY <1>1, UnderstoodKnown DEF IInv, TypeOK, Answer
  <2>2. answer \in AnswersTo(Meant[sent[Current]])
    BY <2>1 DEF ReadsWell
  <2>3. sent' = sent /\ answers' = Append(answers, answer) /\ answers \in Seq(Answers)
    BY <1>1 DEF IInv, TypeOK, Answer, client
  <2>4. QED
    BY <2>1, <2>2, <2>3 DEF Fit, Current
<1>2. ASSUME NEW f \in Frames, Compose(f) PROVE Fit'
  <2>1. sent' = Append(sent, f) /\ answers' = answers /\ sent \in Seq(Frames)
    BY <1>2 DEF IInv, TypeOK, Compose, handler
  <2>2. QED
    BY <2>1 DEF Fit
<1>3. CASE UNCHANGED <<sent, answers>>
  BY <1>3 DEF Fit
<1>4. (\E answer : Answer(answer)) \/ (\E f \in Frames : Compose(f)) \/ UNCHANGED <<sent, answers>>
  BY DEF Next, Handler, Write, Read, Close, Receive, EndOfFile, LengthInRange, LengthOutOfRange, Terminates,
         Send, SendFails, NextRequest, vars, client, handler
<1> QED
  BY <1>1, <1>2, <1>3, <1>4

LEMMA InitFit == Init => Fit
BY DEF Init, Fit

LEMMA FitsIn == IInv /\ Fit => AnswersFit
<1> SUFFICES ASSUME IInv, Fit, NEW i \in DOMAIN answers
             PROVE  /\ i * FrameSize <= Len(sent) * FrameSize - out
                    /\ answers[i] \in AnswersTo(Meant[sent[i]])
  BY DEF AnswersFit
<1>1. i \in Int /\ i <= Len(answers) /\ Len(answers) \in Int /\ Len(sent) \in Int
  BY DEF IInv, TypeOK
<1>2. i * FrameSize <= Len(answers) * FrameSize
  BY <1>1, Multiples
<1>3. inflight + out + got = Len(sent) * FrameSize - Len(answers) * FrameSize
  BY <1>1, Difference DEF IInv, Framing, Unanswered
<1>4. /\ i * FrameSize \in Int
      /\ Len(answers) * FrameSize \in Int
      /\ Len(sent) * FrameSize \in Int
  BY <1>1, OneFrameMore
<1>5. out <= Len(sent) * FrameSize - Len(answers) * FrameSize
  BY <1>3, <1>4 DEF IInv, TypeOK
<1>6. out \in Int
  BY FrameSizePositive DEF IInv, TypeOK
<1> HIDE DEF Fit
<1>7. i * FrameSize <= Len(sent) * FrameSize - out
  BY <1>2, <1>4, <1>5, <1>6
<1> QED
  BY <1>7 DEF Fit

(* To clients whose frames are legible the i-th answer is one to the i-th     *)
(* request as it was meant, and not given before that has been written.       *)
THEOREM RequestsAnswersFit ==
    ASSUME Legible
    PROVE  Spec => []AnswersFit
<1>1. IInv /\ Fit /\ [Next]_vars => Fit'
  BY Legible, LegibleIsReadWell, NextFit
<1> QED
  BY <1>1, InitFit, FitsIn, AlwaysIInv, PTL DEF Spec

(* The parser understands the texts that ReadByTheCode says it does, and to    *)
(* clients that keep to them every answer bears the id of its request.          *)
THEOREM ReadByTheCodeCorrect ==
    ASSUME Legible
    PROVE  Spec => []ReadByTheCode
<1>1. AnswersFit => \A i \in DOMAIN answers : answers[i].id = Meant[sent[i]].id
  BY DEF AnswersFit, AnswersTo
<1>2. AnswersFit => ReadByTheCode
  BY <1>1, PlainTextsAreUnderstood, OnlyCompactParametersAre DEF ReadByTheCode
<1> QED
  BY <1>2, RequestsAnswersFit, PTL

-----------------------------------------------------------------------------
(* The refinement.  Towards the client the handler keeps count as well: what *)
(* the client has read, what is on its way and what is still to be sent are   *)
(* the answers made, in whole frames.                                         *)
Returning == read + back + unsent = Len(answers) * FrameSize

Sent == at \in {"header", "body"} => unsent = 0

LEMMA NextReturning == IInv /\ Returning /\ Sent /\ [Next]_vars => Returning' /\ Sent'
<1> SUFFICES ASSUME IInv, Returning, Sent, [Next]_vars PROVE Returning' /\ Sent'
  OBVIOUS
<1>0. Len(answers) \in Int /\ Len(answers) * FrameSize \in Int /\ FrameSize \in Int
  BY OneFrameMore, FrameSizePositive DEF IInv, TypeOK
<1>1. ASSUME NEW answer, Answer(answer) PROVE Returning' /\ Sent'
  <2>1. Len(answers') = Len(answers) + 1
    BY <1>1 DEF IInv, TypeOK, Answer
  <2>2. Len(answers') * FrameSize = Len(answers) * FrameSize + FrameSize
    BY <1>0, <2>1, OneFrameMore
  <2>3. unsent = 0 /\ unsent' = FrameSize /\ UNCHANGED <<back, read>> /\ at' = "send"
    BY <1>1 DEF Answer, Sent
  <2> QED
    BY <1>0, <2>2, <2>3 DEF IInv, TypeOK, Returning, Sent
<1>2. ASSUME NEW n \in 1 .. FrameSize, Send(n) PROVE Returning' /\ Sent'
  BY <1>0, <1>2, FrameSizePositive, SizesAssumption DEF Send, IInv, TypeOK, Returning, Sent
<1>3. CASE Read
  BY <1>0, <1>3, SizesAssumption, FrameSizePositive DEF Read, IInv, TypeOK, Returning, Sent, handler
<1>4. CASE UNCHANGED <<answers, unsent, back, read>> /\ (at' \in {"header", "body"} => at \in {"header", "body"} \/ unsent = 0)
  BY <1>4 DEF Returning, Sent
<1>5. ASSUME \/ \E f \in Frames : Compose(f)
             \/ Write \/ Close \/ EndOfFile \/ LengthInRange \/ LengthOutOfRange \/ Terminates \/ SendFails \/ NextRequest
             \/ \E n \in 1 .. FrameSize : Receive(n)
             \/ UNCHANGED vars
      PROVE  Returning' /\ Sent'
  <2>1. UNCHANGED <<answers, unsent, back, read>>
    BY <1>5 DEF Compose, Write, Close, EndOfFile, LengthInRange, LengthOutOfRange, Terminates, SendFails, NextRequest,
                Receive, vars, handler
  <2>2. at' \in {"header", "body"} => at \in {"header", "body"} \/ unsent = 0
    BY <1>5 DEF Compose, Write, Close, EndOfFile, LengthInRange, LengthOutOfRange, Terminates, SendFails, NextRequest,
                Receive, vars, handler, FrameOut
  <2> QED BY <2>1, <2>2, <1>4
<1> QED
  BY <1>1, <1>2, <1>3, <1>5 DEF Next, Handler

LEMMA InitReturning == Init => Returning /\ Sent
BY FrameSizePositive DEF Init, Returning, Sent

(* How many whole frames n units are.                                       *)
LEMMA WholeFrames ==
    ASSUME NEW n \in Nat
    PROVE  /\ n \div FrameSize \in Nat
           /\ (n \div FrameSize) * FrameSize <= n
           /\ n < (n \div FrameSize) * FrameSize + FrameSize
BY FrameSizePositive

(* One unit more is no frame more, or the last unit of one.                 *)
LEMMA OneUnitMore ==
    ASSUME NEW n \in Nat, NEW k \in Nat, n + 1 <= k * FrameSize
    PROVE  \/ (n + 1) \div FrameSize = n \div FrameSize
           \/ (n + 1) \div FrameSize = n \div FrameSize + 1 /\ n \div FrameSize < k
<1> DEFINE q == n \div FrameSize
           p == (n + 1) \div FrameSize
<1>1. q \in Nat /\ q * FrameSize <= n /\ n < q * FrameSize + FrameSize
  BY WholeFrames
<1>2. p \in Nat /\ p * FrameSize <= n + 1 /\ n + 1 < p * FrameSize + FrameSize
  BY WholeFrames
<1> HIDE DEF q, p
<1>3. (q + 1) * FrameSize = q * FrameSize + FrameSize /\ (p + 1) * FrameSize = p * FrameSize + FrameSize
  BY <1>1, <1>2, OneFrameMore
<1>3a. (q + 2) * FrameSize = q * FrameSize + FrameSize + FrameSize
  <2>1. q + 1 \in Int /\ (q + 1) + 1 = q + 2
    BY <1>1
  <2>2. ((q + 1) + 1) * FrameSize = (q + 1) * FrameSize + FrameSize
    BY <2>1, OneFrameMore
  <2> QED BY <2>1, <2>2, <1>3
<1>3b. q * FrameSize \in Int /\ p * FrameSize \in Int /\ k * FrameSize \in Int
  BY <1>1, <1>2, OneFrameMore
<1>4. p >= q
  <2>1. SUFFICES ASSUME p + 1 <= q PROVE FALSE
    BY <1>1, <1>2
  <2>2. (p + 1) * FrameSize <= q * FrameSize
    BY <2>1, <1>1, <1>2, Multiples
  <2> QED BY <2>2, <1>1, <1>2, <1>3, <1>3b, FrameSizePositive
<1>5. p <= q + 1
  <2>1. SUFFICES ASSUME q + 2 <= p PROVE FALSE
    BY <1>1, <1>2
  <2>2. (q + 2) * FrameSize <= p * FrameSize
    BY <2>1, <1>1, <1>2, Multiples
  <2> QED BY <2>2, <1>1, <1>2, <1>3a, <1>3b, FrameSizePositive
<1>6. q < k
  <2>1. SUFFICES ASSUME k <= q PROVE FALSE
    BY <1>1
  <2>2. k * FrameSize <= q * FrameSize
    BY <2>1, <1>1, Multiples
  <2> QED BY <2>2, <1>1, <1>3b
<1>7. p = q \/ p = q + 1
  BY <1>1, <1>2, <1>4, <1>5
<1> QED
  BY <1>6, <1>7 DEF p, q

(* A request is answered when it has been written to its end.               *)
LEMMA AnswersTheWritten ==
    ASSUME IInv, at = "body", BodyIn
    PROVE  Len(answers) < Written
<1> DEFINE U == Unanswered
<1>1. U \in Int /\ Len(sent) \in Nat /\ Len(answers) \in Nat
  BY DEF IInv, TypeOK, Unanswered
<1>2. U * FrameSize >= FrameSize + out /\ out \in Nat /\ U * FrameSize \in Int
  BY <1>1, FrameSizePositive, SizesAssumption, OneFrameMore DEF IInv, TypeOK, Framing, BodyIn
<1>3. 0 * FrameSize = 0 /\ 1 * FrameSize = FrameSize
  BY FrameSizePositive
<1>4. U >= 1
  <2>1. SUFFICES ASSUME U <= 0 PROVE FALSE
    BY <1>1
  <2>2. U * FrameSize <= 0 * FrameSize
    BY <2>1, <1>1, Multiples
  <2> QED BY <2>2, <1>2, <1>3, FrameSizePositive
<1>5. ASSUME out > 0 PROVE U >= 2
  <2>1. SUFFICES ASSUME U <= 1 PROVE FALSE
    BY <1>1
  <2>2. U * FrameSize <= 1 * FrameSize
    BY <2>1, <1>1, Multiples
  <2> QED BY <1>5, <2>2, <1>2, <1>3, FrameSizePositive
<1> QED
  BY <1>1, <1>2, <1>4, <1>5 DEF Written, Unanswered

LEMMA InitTalk == Init => Abstract!Init
<1> SUFFICES ASSUME Init PROVE Abstract!Init
  OBVIOUS
<1>1. 0 \div FrameSize = 0
  BY FrameSizePositive
<1> QED BY <1>1 DEF Init, Abstract!Init, Written, Ended

(* Neither side sees more than the requests, the answers and who has left.  *)
LEMMA UnseenUnits ==
    ASSUME UNCHANGED <<sent, answers, closed, Written, read \div FrameSize, Ended>>
    PROVE  UNCHANGED Abstract!talkVars
BY DEF Abstract!talkVars

LEMMA StepTalk ==
    ASSUME ReadsWell, IInv, Returning, [Next]_vars
    PROVE  [Abstract!Next]_(Abstract!talkVars)
<1> DEFINE Seen == Abstract!Next \/ UNCHANGED Abstract!talkVars
<1>1. ASSUME NEW f \in Frames, Compose(f) PROVE Seen
  <2>1. Written = Len(sent) /\ Written' = Len(sent)
    BY <1>1, FrameSizePositive DEF IInv, TypeOK, Compose, Written
  <2>2. Abstract!Begin(f)
    BY <1>1, <2>1 DEF Compose, handler, Abstract!Begin, Ended
  <2> QED BY <2>2 DEF Abstract!Next
<1>2. CASE Write
  <2>1. CASE out = 1
    <3>1. Written < Len(sent) /\ Written' = Written + 1
      BY <1>2, <2>1 DEF IInv, TypeOK, Write, Written
    <3>2. Abstract!Finish
      BY <1>2, <3>1 DEF Write, handler, Abstract!Finish, Ended
    <3> QED BY <3>2 DEF Abstract!Next
  <2>2. CASE out # 1
    <3>1. UNCHANGED Written
      BY <1>2, <2>2, FrameSizePositive DEF IInv, TypeOK, Write, Written
    <3> QED BY <1>2, <3>1, UnseenUnits DEF Write, handler, Ended
  <2> QED BY <2>1, <2>2
<1>3. CASE Read
  <2>1. read + 1 <= Len(answers) * FrameSize
    <3>1. Len(answers) * FrameSize \in Int
      BY OneFrameMore DEF IInv, TypeOK
    <3> QED BY <1>3, <3>1, FrameSizePositive, SizesAssumption DEF IInv, TypeOK, Read, Returning
  <2>2. \/ (read + 1) \div FrameSize = read \div FrameSize
        \/ (read + 1) \div FrameSize = read \div FrameSize + 1 /\ read \div FrameSize < Len(answers)
    BY <2>1, OneUnitMore DEF IInv, TypeOK
  <2>3. read' = read + 1 /\ ~closed /\ UNCHANGED <<sent, out, closed, at, answers>>
    BY <1>3 DEF Read, client, handler
  <2>4. UNCHANGED Written
    BY <2>3 DEF Written
  <2>5. CASE (read + 1) \div FrameSize = read \div FrameSize
    BY <2>3, <2>4, <2>5, UnseenUnits DEF Ended
  <2>6. CASE (read + 1) \div FrameSize = read \div FrameSize + 1 /\ read \div FrameSize < Len(answers)
    <3>1. Abstract!Receive
      BY <2>3, <2>4, <2>6 DEF Abstract!Receive, Ended
    <3> QED BY <3>1 DEF Abstract!Next
  <2> QED BY <2>2, <2>5, <2>6
<1>4. CASE Close
  <2>1. Abstract!Leave
    BY <1>4 DEF Close, handler, Abstract!Leave, Written, Ended
  <2> QED BY <2>1 DEF Abstract!Next
<1>5. CASE EndOfFile \/ SendFails
  <2>1. Abstract!HangUp
    BY <1>5 DEF EndOfFile, SendFails, client, Abstract!HangUp, Written, Ended
  <2> QED BY <2>1 DEF Abstract!Next
<1>6. CASE LengthOutOfRange
  <2>1. Current \in DOMAIN sent
    BY <1>6, CurrentExists, SizesAssumption DEF IInv, LengthOutOfRange, HeaderIn
  <2>2. Abstract!HangUp
    BY <1>6, <2>1 DEF LengthOutOfRange, client, Current, Abstract!HangUp, Abstract!Unanswered, Written, Ended
  <2> QED BY <2>2 DEF Abstract!Next
<1>7. ASSUME NEW answer, Answer(answer) PROVE Seen
  <2>1. Len(answers) < Written
    BY <1>7, AnswersTheWritten DEF Answer
  <2>2. Current \in DOMAIN sent /\ sent[Current] \in Frames /\ answer \in AnswersTo(Parsed[sent[Current]])
    BY <1>7, UnderstoodKnown DEF IInv, TypeOK, Answer
  <2>3. answer \in AnswersTo(Meant[sent[Current]])
    BY <2>2 DEF ReadsWell
  <2>4. /\ at = "body" /\ at' = "send" /\ answers' = Append(answers, answer)
        /\ UNCHANGED <<sent, out, closed, read, Written>>
    BY <1>7 DEF Answer, client, Written
  <2>5. answer \in [f \in Frames |-> AnswersTo(Meant[f])][sent[Abstract!Unanswered]]
    BY <2>2, <2>3 DEF Current, Abstract!Unanswered
  <2>6. Abstract!Reply
    BY <2>1, <2>4, <2>5 DEF Abstract!Reply, Ended
  <2> QED BY <2>6 DEF Abstract!Next
<1>8. ASSUME \/ LengthInRange \/ NextRequest \/ UNCHANGED vars
             \/ \E n \in 1 .. FrameSize : Receive(n) \/ Send(n)
      PROVE  Seen
  <2>1. UNCHANGED <<sent, out, answers, closed, read, Ended>>
    BY <1>8 DEF LengthInRange, NextRequest, Receive, Send, vars, client, handler, Ended
  <2> QED BY <2>1, UnseenUnits DEF Written
<1>9. CASE Terminates
  <2>1. Len(answers) < Written
    BY <1>9, AnswersTheWritten DEF Terminates
  <2>2. Current \in DOMAIN sent /\ sent[Current] \in Frames /\ AnswersTo(Parsed[sent[Current]]) = {}
    BY <1>9, UnderstoodKnown DEF IInv, TypeOK, Terminates
  <2>3. [f \in Frames |-> AnswersTo(Meant[f])][sent[Abstract!Unanswered]] = {}
    BY <2>2 DEF ReadsWell, Current, Abstract!Unanswered
  <2>4. ~Ended /\ Ended' /\ UNCHANGED <<sent, out, closed, answers, read, Written>>
    BY <1>9 DEF Terminates, client, Written, Ended
  <2>5. Abstract!GoDown
    BY <2>1, <2>3, <2>4 DEF Abstract!GoDown
  <2> QED BY <2>5 DEF Abstract!Next
<1> QED
  BY <1>1, <1>2, <1>3, <1>4, <1>5, <1>6, <1>7, <1>8, <1>9 DEF Next, Handler

(* To clients whose frames are legible the connection is a conversation of    *)
(* whole requests and whole answers, for any frames and any sizes of frames    *)
(* and of buffers.                                                             *)
THEOREM ImplementsRequestReplyCorrect ==
    ASSUME Legible
    PROVE  Spec => ImplementsRequestReply
<1>1. Init => IInv /\ Returning /\ Sent
  BY InitIInv, InitReturning
<1>2. IInv /\ Returning /\ Sent /\ [Next]_vars => (IInv /\ Returning /\ Sent)'
  BY NextIInv, NextReturning
<1>3. IInv /\ Returning /\ [Next]_vars => [Abstract!Next]_(Abstract!talkVars)
  BY Legible, LegibleIsReadWell, StepTalk
<1> QED
  BY <1>1, <1>2, <1>3, InitTalk, PTL DEF Spec, ImplementsRequestReply, Abstract!Spec

-----------------------------------------------------------------------------
(* Sessions, for any connections, officers, ranks and lifetime.               *)
SessionSet == [token : Tokens, officer : Officers, rank : Known \cap DOMAIN Position,
               createdAt : Nat, expiresAt : Nat]
ContextSet == [officer : Officers \cup {Nobody}, token : {NoToken} \cup Tokens,
               rank : Known \cup {"CONSTABLE"}]
Doings     == {"idle", "query", "insert", "validate", "command", "request"}

SessionTypes ==
    /\ now \in 0..MaxTime /\ minted \in 0..MaxTokens
    /\ store \subseteq SessionSet /\ fresh \subseteq Users \X SessionSet
    /\ doing \in [Users -> Doings] /\ held \in [Users -> ContextSet]
    /\ dropped \subseteq 1..minted /\ running \in BOOLEAN

(* A token is given to one session, and is kept by at most one user; the token  *)
(* of a session that is not inserted yet is kept by nobody.                      *)
InStoreOrFresh == store \cup {e[2] : e \in fresh}

Minted(s) == s.token <= minted /\ s.createdAt <= now /\ s.expiresAt = s.createdAt + Lifetime

TokensAreUnique ==
    /\ \A s \in InStoreOrFresh : Minted(s)
    /\ \A s, e \in InStoreOrFresh : s.token = e.token => s = e
    /\ \A e, f \in fresh : e[2].token = f[2].token => e = f
    /\ \A u \in Users : held[u].token <= minted
    /\ \A u, v \in Users : held[u].token = held[v].token /\ held[u].token # NoToken => u = v
    /\ \A e \in fresh, u \in Users : held[u].token # e[2].token

(* A user has a session to insert exactly while it is about to insert it.       *)
FreshOf(u) == {e \in fresh : e[1] = u}
Preparing ==
    \A u \in Users : IF doing[u] = "insert" THEN \E e : FreshOf(u) = {e} ELSE FreshOf(u) = {}

(* Who is not logged in keeps no token that is valid, except the command line    *)
(* while it validates it.                                                         *)
GuestsKeepNothing ==
    \A u \in Users :
       /\ held[u].officer # Nobody => held[u].token # NoToken
       /\ doing[u] \in {"query", "insert", "validate"} => held[u].officer = Nobody
       /\ doing[u] = "validate" => u = CLI
       /\ held[u].officer = Nobody /\ doing[u] # "validate" =>
             \A s \in store : s.token = held[u].token => Expired(s)

SessionsInv == /\ SessionTypes /\ TokensAreUnique /\ Preparing /\ GuestsKeepNothing
               /\ HeldIsStored /\ ValidHasAnOwner

LEMMA SessionsInvInit == SessionsInit => SessionsInv
<1> SUFFICES ASSUME SessionsInit PROVE SessionsInv
  OBVIOUS
<1> USE SessionsAssumption DEF SessionsInit
<1>1. Guest \in ContextSet
  BY DEF Guest, ContextSet, NoToken
<1>2. SessionTypes
  BY <1>1 DEF SessionTypes, Doings
<1>3. \A u \in Users : held[u].officer = Nobody /\ held[u].token = NoToken
  BY DEF Guest
<1>4. TokensAreUnique
  BY <1>3 DEF TokensAreUnique, InStoreOrFresh, NoToken
<1>5. Preparing
  BY DEF Preparing, FreshOf
<1>6. GuestsKeepNothing /\ HeldIsStored /\ ValidHasAnOwner
  BY <1>3 DEF GuestsKeepNothing, HeldIsStored, ValidHasAnOwner, LoggedIn
<1> QED BY <1>2, <1>4, <1>5, <1>6 DEF SessionsInv

(* The clock only lets sessions expire.                                        *)
LEMMA TickStep == ASSUME SessionsInv, Tick PROVE SessionsInv'
<1> USE SessionsAssumption DEF SessionsInv
<1>1. /\ now' \in 0..MaxTime /\ now' > now /\ now \in Nat
      /\ UNCHANGED <<store, minted, doing, fresh, held, dropped, running>>
  BY DEF Tick, SessionTypes
<1>2. \A s \in SessionSet : Expired(s) => Expired(s)'
  BY <1>1 DEF Expired, SessionSet
<1>3. SessionTypes'
  BY <1>1 DEF SessionTypes
<1>4. TokensAreUnique'
  <2>1. InStoreOrFresh' = InStoreOrFresh
    BY <1>1 DEF InStoreOrFresh
  <2>2. \A s \in InStoreOrFresh : s \in SessionSet
    BY DEF InStoreOrFresh, SessionTypes
  <2>3. \A s \in InStoreOrFresh : Minted(s)'
    BY <1>1, <2>2 DEF TokensAreUnique, Minted, SessionSet
  <2> QED BY <1>1, <2>1, <2>3 DEF TokensAreUnique
<1>5. Preparing'
  BY <1>1 DEF Preparing, FreshOf
<1>6. GuestsKeepNothing'
  BY <1>1, <1>2 DEF GuestsKeepNothing, SessionTypes
<1>7. HeldIsStored'
  BY <1>1 DEF HeldIsStored, LoggedIn, Holding
<1>8. ValidHasAnOwner'
  BY <1>1, <1>2 DEF ValidHasAnOwner, SessionTypes
<1> QED BY <1>3, <1>4, <1>5, <1>6, <1>7, <1>8

(* A user goes on to something else, and nothing else happens.                 *)
LEMMA MoveStep ==
    ASSUME SessionsInv, NEW u \in Users, NEW l \in {"idle", "query", "command", "request"},
           Go(u, l), doing[u] \notin {"insert", "validate"},
           l = "query" => ~LoggedIn(u),
           UNCHANGED <<now, store, minted, fresh, held, dropped, running>>
    PROVE  SessionsInv'
<1> USE SessionsAssumption DEF SessionsInv
<1>1. /\ doing' \in [Users -> Doings] /\ doing'[u] = l
      /\ \A v \in Users : v # u => doing'[v] = doing[v]
  BY DEF Go, SessionTypes, Doings
<1>2. SessionTypes'
  BY <1>1 DEF SessionTypes
<1>3. TokensAreUnique'
  BY DEF TokensAreUnique, InStoreOrFresh, Minted
<1>4. Preparing'
  BY <1>1 DEF Preparing, FreshOf
<1>5. GuestsKeepNothing'
  BY <1>1 DEF GuestsKeepNothing, Expired, LoggedIn
<1>6. HeldIsStored' /\ ValidHasAnOwner'
  BY DEF HeldIsStored, ValidHasAnOwner, LoggedIn, Holding, Expired
<1> QED BY <1>2, <1>3, <1>4, <1>5, <1>6

LEMMA MoveSteps ==
    ASSUME SessionsInv, NEW u \in Users,
           \/ Login(u) \/ LoginFails(u)
           \/ u = CLI /\ (CaseCommand \/ Placeholder)
           \/ ClientRequest(u) \/ Refresh(u)
    PROVE  SessionsInv'
BY MoveStep DEF Login, LoginFails, CaseCommand, Placeholder, ClientRequest, Refresh, Idle

LEMMA RestSteps ==
    ASSUME SessionsInv, UNCHANGED <<now, store, minted, doing, fresh, held, dropped>>, running' \in BOOLEAN
    PROVE  SessionsInv'
BY DEF SessionsInv, SessionTypes, TokensAreUnique, InStoreOrFresh, Minted, Preparing, FreshOf,
   GuestsKeepNothing, HeldIsStored, ValidHasAnOwner, LoggedIn, Holding, Expired

LEMMA MintStep ==
    ASSUME SessionsInv, NEW u \in Users, NEW o \in Officers, NEW r \in Known \cap DOMAIN Position,
           doing[u] = "query", Mint(u, o, r)
    PROVE  SessionsInv'
<1> USE SessionsAssumption DEF SessionsInv
<1>1. /\ minted' = minted + 1 /\ minted \in 0..MaxTokens /\ minted' \in 1..MaxTokens
      /\ Go(u, "insert") /\ UNCHANGED <<now, store, held, dropped, running>>
  BY DEF Mint, SessionTypes
<1>2. PICK s \in SessionSet :
        /\ fresh' = fresh \cup {<<u, s>>}
        /\ s.token = minted + 1 /\ s.createdAt = now /\ s.expiresAt = now + Lifetime
  <2>1. Session(minted', o, r) \in SessionSet
    BY <1>1 DEF Session, SessionSet, SessionTypes, Tokens
  <2> QED BY <1>1, <2>1 DEF Mint, Session
<1>3. /\ doing' \in [Users -> Doings] /\ doing'[u] = "insert"
      /\ \A v \in Users : v # u => doing'[v] = doing[v]
  BY <1>1 DEF Go, SessionTypes, Doings
<1>4. SessionTypes'
  BY <1>1, <1>2, <1>3 DEF SessionTypes
<1>5. InStoreOrFresh' = InStoreOrFresh \cup {s}
  <2> SUFFICES ASSUME NEW x PROVE x \in InStoreOrFresh' <=> x \in InStoreOrFresh \/ x = s
    OBVIOUS
  <2>1. /\ x \in InStoreOrFresh' <=> x \in store \/ \E e \in fresh' : x = e[2]
        /\ x \in InStoreOrFresh <=> x \in store \/ \E e \in fresh : x = e[2]
    BY <1>1 DEF InStoreOrFresh
  <2>2. <<u, s>>[2] = s
    OBVIOUS
  <2> QED BY <1>2, <2>1, <2>2
<1>6. \A x \in InStoreOrFresh : x \in SessionSet /\ x.token \in Nat /\ x.token <= minted /\ Minted(x)'
  <2>1. \A x \in InStoreOrFresh : x \in SessionSet
    BY DEF InStoreOrFresh, SessionTypes
  <2>2. \A x \in InStoreOrFresh : x.token \in Nat /\ Minted(x)
    BY <2>1 DEF TokensAreUnique, SessionSet, Tokens
  <2> QED BY <1>1, <2>1, <2>2 DEF Minted
<1>7. TokensAreUnique'
  <2>1. Minted(s)'
    BY <1>1, <1>2 DEF Minted, SessionTypes
  <2>2. \A x, y \in InStoreOrFresh' : x.token = y.token => x = y
    BY <1>1, <1>2, <1>5, <1>6 DEF TokensAreUnique
  <2>3. \A v \in Users : held[v].token \in Nat /\ held[v].token <= minted
    BY DEF TokensAreUnique, SessionTypes, ContextSet, NoToken, Tokens
  <2>4. \A e \in fresh', v \in Users : held'[v].token # e[2].token
    BY <1>1, <1>2, <2>3 DEF TokensAreUnique
  <2>5. /\ \A v \in Users : held'[v].token <= minted'
        /\ \A v, w \in Users : held'[v].token = held'[w].token /\ held'[v].token # NoToken => v = w
    BY <1>1, <2>3 DEF TokensAreUnique
  <2>6. \A x \in InStoreOrFresh' : Minted(x)'
    BY <1>5, <1>6, <2>1
  <2>7. \A e, f \in fresh' : e[2].token = f[2].token => e = f
    <3>1. \A e \in fresh : e[2] \in InStoreOrFresh
      BY DEF InStoreOrFresh
    <3> QED BY <1>1, <1>2, <1>6, <3>1 DEF TokensAreUnique
  <2> QED BY <2>2, <2>4, <2>5, <2>6, <2>7 DEF TokensAreUnique
<1>8. Preparing'
  <2>1. FreshOf(u) = {}
    BY DEF Preparing
  <2>2. FreshOf(u)' = {<<u, s>>} /\ \A v \in Users : v # u => FreshOf(v)' = FreshOf(v)
    BY <1>2, <2>1 DEF FreshOf
  <2> QED BY <1>3, <2>2 DEF Preparing
<1>9. GuestsKeepNothing'
  BY <1>1, <1>3 DEF GuestsKeepNothing, Expired
<1>10. HeldIsStored' /\ ValidHasAnOwner'
  BY <1>1 DEF HeldIsStored, ValidHasAnOwner, LoggedIn, Holding, Expired
<1> QED BY <1>4, <1>7, <1>8, <1>9, <1>10

LEMMA InsertStep ==
    ASSUME SessionsInv, NEW u \in Users, Insert(u)
    PROVE  SessionsInv'
<1> USE SessionsAssumption DEF SessionsInv
<1>1. PICK e \in fresh :
        /\ e[1] = u /\ fresh' = fresh \ {e} /\ store' = Inserted(e[2])
        /\ IF u = CLI
           THEN Go(u, "validate") /\ held' = [held EXCEPT ![u].token = e[2].token]
           ELSE Go(u, "idle") /\ held' = [held EXCEPT ![u] = Holding(e[2])]
  BY DEF Insert
<1> DEFINE s == e[2]
<1>2. doing[u] = "insert" /\ UNCHANGED <<now, minted, dropped, running>>
  BY DEF Insert
<1>3. e = <<u, s>> /\ s \in SessionSet
  BY <1>1 DEF SessionTypes
<1>4. held[u].officer = Nobody /\ held[u] \in ContextSet
  BY <1>2 DEF GuestsKeepNothing, SessionTypes
<1>5. /\ held'[u].token = s.token
      /\ held'[u].officer = IF u = CLI THEN Nobody ELSE s.officer
      /\ u # CLI => held'[u] = Holding(s)
      /\ held' \in [Users -> ContextSet]
      /\ \A v \in Users : v # u => held'[v] = held[v]
  <2>1. CASE u = CLI
    <3>1. [held[u] EXCEPT !.token = s.token] \in ContextSet
      BY <1>3, <1>4 DEF ContextSet, SessionSet
    <3>2. held' = [held EXCEPT ![u] = [held[u] EXCEPT !.token = s.token]] /\ held \in [Users -> ContextSet]
      BY <1>1, <2>1 DEF SessionTypes
    <3>3. held'[u] = [held[u] EXCEPT !.token = s.token]
      BY <3>2
    <3> QED BY <1>4, <2>1, <3>1, <3>2, <3>3 DEF ContextSet
  <2>2. CASE u # CLI
    <3>1. Holding(s) \in ContextSet /\ Holding(s).token = s.token /\ Holding(s).officer = s.officer
      BY <1>3 DEF Holding, ContextSet, SessionSet
    <3>2. held' = [held EXCEPT ![u] = Holding(s)] /\ held \in [Users -> ContextSet]
      BY <1>1, <2>2 DEF SessionTypes
    <3> QED BY <2>2, <3>1, <3>2
  <2> QED BY <2>1, <2>2
<1>6. /\ doing' \in [Users -> Doings] /\ doing'[u] = IF u = CLI THEN "validate" ELSE "idle"
      /\ \A v \in Users : v # u => doing'[v] = doing[v]
  BY <1>1 DEF Go, SessionTypes, Doings
<1>7. store' = store \cup {s} /\ fresh' \subseteq fresh /\ e \in fresh
  BY <1>1 DEF Inserted
<1> HIDE DEF s
<1>8. SessionTypes'
  BY <1>2, <1>3, <1>5, <1>6, <1>7 DEF SessionTypes
<1>9. s \in InStoreOrFresh /\ InStoreOrFresh' \subseteq InStoreOrFresh
  BY <1>3, <1>7 DEF InStoreOrFresh
<1>10. TokensAreUnique'
  <2>1. /\ \A x \in InStoreOrFresh' : Minted(x)'
        /\ \A x, y \in InStoreOrFresh' : x.token = y.token => x = y
    BY <1>2, <1>9 DEF TokensAreUnique, Minted
  <2>2. \A v \in Users : held[v].token # s.token
    BY <1>3, <1>7 DEF TokensAreUnique
  <2>3. /\ \A v \in Users : held'[v].token <= minted'
        /\ \A v, w \in Users : held'[v].token = held'[w].token /\ held'[v].token # NoToken => v = w
    BY <1>2, <1>5, <1>9, <2>2 DEF TokensAreUnique, Minted
  <2>4. \A x \in fresh' : x[2].token # s.token
    BY <1>1, <1>3, <1>7 DEF TokensAreUnique
  <2>5. \A x \in fresh', v \in Users : held'[v].token # x[2].token
    BY <1>5, <1>7, <2>4 DEF TokensAreUnique
  <2> QED BY <1>7, <2>1, <2>3, <2>5 DEF TokensAreUnique
<1>11. Preparing'
  <2>1. FreshOf(u) = {e}
    BY <1>1, <1>2 DEF Preparing, FreshOf
  <2>2. FreshOf(u)' = {} /\ \A v \in Users : v # u => FreshOf(v)' = FreshOf(v)
    BY <1>1, <2>1 DEF FreshOf
  <2> QED BY <1>6, <2>2 DEF Preparing
<1>12. GuestsKeepNothing'
  <2>1. s.officer # Nobody /\ s.token # NoToken
    BY <1>3 DEF SessionSet, Tokens, NoToken
  <2>2. \A v \in Users : v # u => held[v].token # s.token
    BY <1>3, <1>7 DEF TokensAreUnique
  <2> QED BY <1>2, <1>5, <1>6, <1>7, <2>1, <2>2 DEF GuestsKeepNothing, Expired
<1>13. HeldIsStored'
  BY <1>5, <1>7, ZenonT(60) DEF HeldIsStored, LoggedIn, Holding
<1>14. ValidHasAnOwner'
  <2> SUFFICES ASSUME NEW x \in store', ~Expired(x)', x.token \notin dropped
               PROVE  \E v \in Users : held'[v].token = x.token
    BY <1>2 DEF ValidHasAnOwner
  <2>1. CASE x = s
    BY <1>5, <2>1
  <2>2. CASE x \in store
    <3>1. PICK v \in Users : held[v].token = x.token
      BY <1>2, <2>2 DEF ValidHasAnOwner, Expired
    <3>2. v # u
      BY <1>2, <1>4, <2>2, <3>1 DEF GuestsKeepNothing, Expired
    <3> QED BY <1>5, <3>1, <3>2
  <2> QED BY <1>7, <2>1, <2>2
<1> QED BY <1>8, <1>10, <1>11, <1>12, <1>13, <1>14

(* The context of the command line is filled after a login, or cleared; a       *)
(* connection's session is cleared when the connection ends.                      *)
LEMMA ForgetStep ==
    ASSUME SessionsInv, NEW u \in Users, NEW h \in ContextSet,
           held' = [held EXCEPT ![u] = h], h.officer = Nobody,
           doing[u] # "insert",
           \/ Go(u, "idle")
           \/ UNCHANGED doing /\ doing[u] = "idle",
           UNCHANGED <<now, minted, fresh, running>>,
           \/ /\ h.token = NoToken /\ store' = Without(held[u].token) /\ UNCHANGED dropped
           \/ /\ h.token = NoToken /\ UNCHANGED store /\ dropped' = dropped \cup {held[u].token}
              /\ held[u].token # NoToken
           \/ /\ h.token \in {NoToken, held[u].token}
              /\ UNCHANGED <<store, dropped>> /\ ~Valid(held[u].token)
    PROVE  SessionsInv'
<1> USE SessionsAssumption DEF SessionsInv
<1>1. /\ held' \in [Users -> ContextSet] /\ held'[u] = h
      /\ \A v \in Users : v # u => held'[v] = held[v]
  BY DEF SessionTypes
<1>2. /\ doing' \in [Users -> Doings] /\ doing'[u] = "idle"
      /\ \A v \in Users : v # u => doing'[v] = doing[v]
  BY DEF SessionTypes, Go, Doings
<1>3. store' \subseteq store /\ dropped \subseteq dropped'
  BY DEF Without
<1>4. \A s \in store : /\ s \in SessionSet /\ s.token # NoToken
                       /\ s.token = held[u].token /\ s \in store' => s.token \in dropped' \/ Expired(s)
                       /\ s \notin store' => s.token = held[u].token
  BY DEF SessionTypes, SessionSet, Tokens, NoToken, Without, Valid
<1>5. SessionTypes'
  <2>1. held[u].token \in {NoToken} \cup 1..minted
    BY DEF SessionTypes, TokensAreUnique, ContextSet, NoToken, Tokens
  <2>2. dropped' \subseteq 1..minted
    BY <2>1 DEF SessionTypes
  <2> QED BY <1>1, <1>2, <1>3, <2>2 DEF SessionTypes
<1>6. TokensAreUnique'
  <2>1. InStoreOrFresh' \subseteq InStoreOrFresh
    BY <1>3 DEF InStoreOrFresh
  <2>2. \A v \in Users : held'[v].token \in {NoToken, held[v].token}
    BY <1>1
  <2>3. \A e \in fresh : e[2].token # NoToken
    BY DEF SessionTypes, SessionSet, Tokens, NoToken
  <2>4. NoToken <= minted
    BY DEF SessionTypes, NoToken
  <2>5. \A s \in InStoreOrFresh' : Minted(s)'
    BY <2>1 DEF TokensAreUnique, Minted
  <2> QED BY <2>1, <2>2, <2>3, <2>4, <2>5 DEF TokensAreUnique
<1>7. Preparing'
  BY <1>2 DEF Preparing, FreshOf
<1>8. \A v \in Users : v # u /\ held[v].token # NoToken => held[v].token # held[u].token
  BY DEF TokensAreUnique
<1>9. GuestsKeepNothing'
  <2>1. \A s \in store' : s.token = h.token => Expired(s)
    BY <1>3, <1>4 DEF Valid
  <2> QED BY <1>1, <1>2, <1>3, <2>1 DEF GuestsKeepNothing, Expired
<1>10. HeldIsStored'
  <2> SUFFICES ASSUME NEW v \in Users, LoggedIn(v)'
               PROVE  \E s \in store' : Holding(s) = held'[v]
    BY DEF HeldIsStored, Holding
  <2>1. v # u /\ held'[v] = held[v] /\ LoggedIn(v)
    BY <1>1 DEF LoggedIn
  <2>2. PICK s \in store : Holding(s) = held[v]
    BY <2>1 DEF HeldIsStored
  <2>3. s.token = held[v].token
    BY <2>2 DEF Holding
  <2>4. s \in store'
    BY <1>4, <1>8, <2>1, <2>3 DEF LoggedIn
  <2> QED BY <2>1, <2>2, <2>4
<1>11. ValidHasAnOwner'
  <2> SUFFICES ASSUME NEW s \in store', ~Expired(s), s.token \notin dropped'
               PROVE  \E v \in Users : held'[v].token = s.token
    BY DEF ValidHasAnOwner, Expired
  <2>1. PICK v \in Users : held[v].token = s.token
    BY <1>3 DEF ValidHasAnOwner
  <2>2. v # u
    BY <1>3, <1>4, <2>1
  <2> QED BY <1>1, <2>1, <2>2
<1> QED BY <1>5, <1>6, <1>7, <1>9, <1>10, <1>11

LEMMA ForgetSteps ==
    ASSUME SessionsInv, NEW u \in Users,
           \/ u = CLI /\ (RejectLogin \/ CLILogout)
           \/ ClientLogout(u) \/ Disconnect(u)
    PROVE  SessionsInv'
<1> USE DEF SessionsInv
<1>1. Guest \in ContextSet /\ Guest.officer = Nobody /\ Guest.token = NoToken
  BY DEF Guest, ContextSet
<1>2. held' = [held EXCEPT ![u] = Guest] /\ UNCHANGED <<now, minted, fresh, running>>
  BY DEF RejectLogin, CLILogout, ClientLogout, Disconnect
<1> HIDE DEF SessionsInv
<1>3. CASE u = CLI /\ RejectLogin
  BY <1>1, <1>2, <1>3, ForgetStep DEF RejectLogin
<1>4. CASE u = CLI /\ CLILogout
  BY <1>1, <1>2, <1>4, ForgetStep DEF CLILogout, Idle
<1>5. CASE ClientLogout(u)
  BY <1>1, <1>2, <1>5, ForgetStep DEF ClientLogout, Idle
<1>6. CASE Disconnect(u)
  BY <1>1, <1>2, <1>6, ForgetStep DEF Disconnect, LoggedIn
<1> QED BY <1>3, <1>4, <1>5, <1>6

LEMMA RequireLoginStep ==
    ASSUME SessionsInv, RequireLogin
    PROVE  SessionsInv'
<1>1. CLI \in Users
  BY DEF Users
<1>2. CASE Valid(held[CLI].token)
  BY <1>1, <1>2, MoveStep DEF RequireLogin, Idle
<1>3. CASE ~Valid(held[CLI].token)
  <2> DEFINE h == [held[CLI] EXCEPT !.officer = Nobody]
  <2>1. held \in [Users -> ContextSet] /\ held[CLI] \in ContextSet
    BY <1>1 DEF SessionsInv, SessionTypes
  <2>2. h \in ContextSet /\ h.officer = Nobody /\ h.token = held[CLI].token
    BY <2>1 DEF ContextSet
  <2>3. held' = [held EXCEPT ![CLI] = h]
    BY <1>3, <2>1 DEF RequireLogin
  <2> HIDE DEF h
  <2> QED BY <1>1, <1>3, <2>2, <2>3, ForgetStep DEF RequireLogin, Idle
<1> QED BY <1>2, <1>3

LEMMA AcceptLoginStep ==
    ASSUME SessionsInv, AcceptLogin
    PROVE  SessionsInv'
<1> USE SessionsAssumption DEF SessionsInv
<1>1. CLI \in Users
  BY DEF Users
<1>2. PICK s \in store : s.token = held[CLI].token /\ held' = [held EXCEPT ![CLI] = Holding(s)]
  BY DEF AcceptLogin
<1>3. doing[CLI] = "validate" /\ Go(CLI, "idle") /\ UNCHANGED <<now, store, minted, fresh, dropped, running>>
  BY DEF AcceptLogin
<1>4. s \in SessionSet /\ Holding(s) \in ContextSet /\ Holding(s).token = s.token /\ Holding(s).officer = s.officer
  BY DEF SessionTypes, SessionSet, ContextSet, Holding
<1>5. /\ held' \in [Users -> ContextSet] /\ held'[CLI] = Holding(s)
      /\ \A v \in Users : v # CLI => held'[v] = held[v]
  BY <1>1, <1>2, <1>4 DEF SessionTypes
<1>6. \A v \in Users : held'[v].token = held[v].token
  BY <1>2, <1>4, <1>5
<1>7. /\ doing' \in [Users -> Doings] /\ doing'[CLI] = "idle"
      /\ \A v \in Users : v # CLI => doing'[v] = doing[v]
  BY <1>1, <1>3 DEF SessionTypes, Go, Doings
<1>8. SessionTypes'
  BY <1>3, <1>5, <1>7 DEF SessionTypes
<1>9. TokensAreUnique'
  BY <1>3, <1>6 DEF TokensAreUnique, InStoreOrFresh, Minted
<1>10. Preparing'
  BY <1>3, <1>7 DEF Preparing, FreshOf
<1>11. GuestsKeepNothing'
  <2>1. s.officer # Nobody /\ s.token # NoToken
    BY <1>4 DEF SessionSet, Tokens, NoToken
  <2> QED BY <1>3, <1>4, <1>5, <1>7, <2>1 DEF GuestsKeepNothing, Expired
<1>12. HeldIsStored'
  BY <1>3, <1>5 DEF HeldIsStored, LoggedIn, Holding
<1>13. ValidHasAnOwner'
  BY <1>3, <1>6 DEF ValidHasAnOwner, Expired
<1> QED BY <1>8, <1>9, <1>10, <1>11, <1>12, <1>13

LEMMA SessionsInvStep ==
    ASSUME SessionsInv, [SessionsNext]_sessionVars
    PROVE  SessionsInv'
<1>1. CASE UNCHANGED sessionVars
  BY <1>1, RestSteps DEF sessionVars, SessionsInv, SessionTypes
<1>2. CASE Tick
  BY <1>2, TickStep
<1>3. ASSUME NEW u \in Users, Common(u) PROVE SessionsInv'
  <2>1. CASE Refuse(u)
    BY <1>1, <2>1 DEF Refuse
  <2>2. CASE Login(u) \/ LoginFails(u)
    BY <2>2, MoveSteps
  <2>3. CASE FallBack(u)
    <3>1. FirstOfficer \in Officers /\ "SI" \in Known \cap DOMAIN Position
      BY SessionsAssumption DEF Known, Position
    <3> QED BY <2>3, <3>1, MintStep DEF FallBack
  <2>4. CASE Insert(u)
    BY <2>4, InsertStep
  <2>5. ASSUME NEW o \in Officers, FindOfficer(u, o) PROVE SessionsInv'
    <3>1. Rank[o] \in Known \cap DOMAIN Position
      BY <2>5 DEF FindOfficer, Known
    <3> QED BY <2>5, <3>1, MintStep DEF FindOfficer
  <2> QED BY <1>3, <2>1, <2>2, <2>3, <2>4, <2>5 DEF Common
<1>4. CASE Command
  <2>1. CLI \in Users
    BY DEF Users
  <2>2. CASE Exit
    BY <2>2, RestSteps DEF Exit
  <2> QED BY <1>4, <2>1, <2>2, AcceptLoginStep, ForgetSteps, RequireLoginStep, MoveSteps DEF Command
<1>5. ASSUME NEW c \in Connections, Serve(c) PROVE SessionsInv'
  <2>1. c \in Users
    BY DEF Users
  <2> QED BY <1>5, <2>1, MoveSteps, ForgetSteps DEF Serve
<1> QED BY <1>1, <1>2, <1>3, <1>4, <1>5 DEF SessionsNext

LEMMA SessionsInvAlways == SessionsSpec => []SessionsInv
BY SessionsInvInit, SessionsInvStep, PTL DEF SessionsSpec

-----------------------------------------------------------------------------
LEMMA SessionsInvType == SessionsInv => SessionsTypeOK
<1> SUFFICES ASSUME SessionsInv PROVE SessionsTypeOK
  OBVIOUS
<1> USE DEF SessionsInv
<1>1. \A s \in InStoreOrFresh : s \in SessionSet /\ Minted(s)
  BY DEF InStoreOrFresh, SessionTypes, TokensAreUnique
<1>2. \A s \in InStoreOrFresh :
         /\ s.token \in 1..minted /\ s.officer \in Officers /\ s.rank \in Known \cap DOMAIN Position
         /\ s.createdAt \in 0..now /\ s.expiresAt = s.createdAt + Lifetime
  BY <1>1 DEF SessionTypes, SessionSet, Minted, Tokens
<1>3. \A s, e \in InStoreOrFresh : s.token = e.token => s = e
  BY DEF TokensAreUnique
<1>4. \A u \in Users : Cardinality(FreshOf(u)) = IF doing[u] = "insert" THEN 1 ELSE 0
  BY FS_Singleton, FS_EmptySet DEF Preparing
<1>5. \A u \in Users : Cardinality({e \in fresh : e[1] = u}) = IF doing[u] = "insert" THEN 1 ELSE 0
  BY <1>4 DEF FreshOf
<1> QED BY <1>2, <1>3, <1>5 DEF SessionsTypeOK, SessionTypes, InStoreOrFresh, Doings, ContextSet

(* The places of the eleven ranks, and of the four that login can read.          *)
LEMMA RankPlaces ==
    /\ \A i \in DOMAIN Ranks : Ordinal(Ranks[i]) = i - 1
    /\ \A r \in DOMAIN Position : Position[r] \in 0..3 /\ Ordinal(r) \in Nat /\ Position[r] <= Ordinal(r)
    /\ Ordinal("INSPECTOR") = 4
<1>1. DOMAIN Ranks = 1..11 /\ DOMAIN Position = {"CONSTABLE", "INSPECTOR", "SI", "DSP"}
  BY DEF Ranks, Position
<1>2. \A i, j \in 1..11 : Ranks[i] = Ranks[j] => i = j
  BY DEF Ranks
<1>3. \A i \in 1..11 : (CHOOSE j \in DOMAIN Ranks : Ranks[j] = Ranks[i]) = i
  BY <1>1, <1>2
<1>4. \A i \in 1..11 : Ordinal(Ranks[i]) = i - 1
  BY <1>3 DEF Ordinal
<1>5. Ranks[1] = "CONSTABLE" /\ Ranks[4] = "SI" /\ Ranks[5] = "INSPECTOR" /\ Ranks[6] = "DSP"
  BY DEF Ranks
<1>6. Ordinal("CONSTABLE") = 0 /\ Ordinal("SI") = 3 /\ Ordinal("INSPECTOR") = 4 /\ Ordinal("DSP") = 5
  BY <1>4, <1>5
<1>7. Position["CONSTABLE"] = 0 /\ Position["INSPECTOR"] = 1 /\ Position["SI"] = 2 /\ Position["DSP"] = 3
  BY DEF Position
<1> QED BY <1>1, <1>4, <1>6, <1>7

(* Types; tokens are unique, a user about to insert has one session to insert,   *)
(* and no refresh moves the end of a session.                                      *)
THEOREM SessionsTypeCorrect == SessionsSpec => []SessionsTypeOK
BY SessionsInvAlways, SessionsInvType, PTL

(* Whoever is shown as logged in is in the store, with that officer and rank.     *)
THEOREM HeldIsStoredCorrect == SessionsSpec => []HeldIsStored
BY SessionsInvAlways, PTL DEF SessionsInv

(* A valid session is kept by somebody, or was left behind by its connection.     *)
THEOREM ValidHasAnOwnerCorrect == SessionsSpec => []ValidHasAnOwner
BY SessionsInvAlways, PTL DEF SessionsInv

(* The comparison of a place among four with an ordinal among eleven never lets   *)
(* through an officer whose rank is too low, and nobody for INSPECTOR.            *)
THEOREM RankCheckNeverLenientCorrect == SessionsSpec => []RankCheckNeverLenient
<1>1. SessionsInv => RankCheckNeverLenient
  <2> SUFFICES ASSUME SessionsInv, NEW s \in store
               PROVE  /\ \A i \in DOMAIN Ranks : PassesManager(s, Ranks[i]) => PassesFacade(s, Ranks[i])
                      /\ ~PassesManager(s, "INSPECTOR")
    BY DEF RankCheckNeverLenient
  <2>1. s.rank \in DOMAIN Position
    BY DEF SessionsInv, SessionTypes, SessionSet
  <2>2. /\ \A i \in DOMAIN Ranks : Ordinal(Ranks[i]) \in Int
        /\ Position[s.rank] \in 0..3 /\ Ordinal(s.rank) \in Nat /\ Position[s.rank] <= Ordinal(s.rank)
        /\ Ordinal("INSPECTOR") = 4
    <3>1. \A i \in DOMAIN Ranks : i \in Int
      BY DEF Ranks
    <3> QED BY <2>1, <3>1, RankPlaces
  <2> QED BY <2>2 DEF PassesManager, PassesFacade
<1> QED BY <1>1, SessionsInvAlways, PTL
=============================================================================
